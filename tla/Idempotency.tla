---------------------------- MODULE Idempotency ----------------------------
(***************************************************************************)
(* Saves that are safe to repeat (IdempotencyInterceptor): a device keeps     *)
(* what it saves in a queue and sends each operation under its own           *)
(* Idempotency-Key until it has an answer; the server reserves the key, runs  *)
(* the handler, keeps its answer with the key, or frees the key when the      *)
(* handler fails.  Answers get lost, requests overlap, a request may stop     *)
(* between two statements, and a job clears reservations nobody holds         *)
(* (IdempotencyCleanup).  Keys are those of one user.                         *)
(***************************************************************************)
EXTENDS Integers

CONSTANTS
  Operations,   \* what the device saved
  Keys,
  KeyOf, PathOf, \* of each operation: its key, and its method and path
  Requests,
  MaxFaults,    \* bound: failures, stops and lost answers
  None

ASSUME IdempotencyAssumption ==
  /\ KeyOf \in [Operations -> Keys]
  /\ MaxFaults \in Nat

(* A key is drawn for one operation; a request of another path may carry it *)
ASSUME KeyAssumption ==
  \A o, p \in Operations : KeyOf[o] = KeyOf[p] /\ PathOf[o] = PathOf[p] => o = p

ASSUME NoneAssumption == None \notin Operations

VARIABLES
  record,  \* idempotency_records: per key the path, whether completed, the response
  applied, \* how often the handler committed an operation
  request, \* what each request works on, where it is, and what it answers
  answer,  \* the response the device has for an operation
  late,    \* history: how often an operation failed, or stopped, after its commit
  faults

vars == <<record, applied, request, answer, late, faults>>

-----------------------------------------------------------------------------
(* The response of the n-th time that o was carried out *)
Response(o, n) == [op |-> o, n |-> n]
Responses == [op : Operations, n : Nat \ {0}]

Reserved(o) == [path |-> PathOf[o], completed |-> FALSE, response |-> None]

Away == [op |-> None, at |-> "away", response |-> None]

Init ==
  /\ record = [k \in Keys |-> None]
  /\ applied = [o \in Operations |-> 0]
  /\ request = [r \in Requests |-> Away]
  /\ answer = [o \in Operations |-> None]
  /\ late = [o \in Operations |-> 0]
  /\ faults = 0

At(r, where) == request[r].at = where
Op(r) == request[r].op
Key(r) == KeyOf[request[r].op]
Continue(r, where, response) ==
  request' = [request EXCEPT ![r] = [op |-> Op(r), at |-> where, response |-> response]]
GoTo(r, where) == Continue(r, where, request[r].response)
Reply(r, response) == Continue(r, "answer", response)
Fault == faults < MaxFaults /\ faults' = faults + 1
NoteLate(r) ==
  late' = IF At(r, "complete") THEN [late EXCEPT ![Op(r)] = @ + 1] ELSE late

(* The request that reserved a key *)
Holding(r) == request[r].at \in {"handle", "complete", "release"}
Holds(r, k) == Holding(r) /\ Key(r) = k

(* The device has an answer to all it sent under a key, and sends it no more *)
Finished(k) ==
  /\ \A o \in Operations : KeyOf[o] = k => answer[o] # None
  /\ \A r \in Requests : ~At(r, "away") => Key(r) # k

-----------------------------------------------------------------------------
(* The device sends what it has no answer for, again and again *)
Send(r, o) ==
  /\ At(r, "away") /\ answer[o] = None
  /\ request' = [request EXCEPT ![r] = [op |-> o, at |-> "find", response |-> None]]
  /\ UNCHANGED <<record, applied, answer, late, faults>>

(* slip: the path is not compared (AnswersAreFirst) *)
FindAnyPath(r) ==
  /\ At(r, "find")
  /\ LET found == record[Key(r)]
     IN  \/ found = None /\ GoTo(r, "insert")
         \/ found # None /\ Reply(r, IF found.completed THEN found.response ELSE None)
  /\ UNCHANGED <<record, applied, answer, late, faults>>

(* intercept: the key is looked up.  Another path is 422, a reservation is 409, *)
(* an operation that was completed gets its first answer again                  *)
Find(r) ==
  /\ At(r, "find")
  /\ LET found == record[Key(r)]
     IN  \/ found = None /\ GoTo(r, "insert")
         \/ /\ found # None
            /\ Reply(r, IF found.path = PathOf[Op(r)] /\ found.completed THEN found.response ELSE None)
  /\ UNCHANGED <<record, applied, answer, late, faults>>

(* slip: the reservation overwrites one that is there (AppliedOnce) *)
InsertAnyway(r) ==
  /\ At(r, "insert")
  /\ record' = [record EXCEPT ![Key(r)] = Reserved(Op(r))]
  /\ GoTo(r, "handle")
  /\ UNCHANGED <<applied, answer, late, faults>>

(* The insert, which the unique index refuses when the key was reserved since   *)
Insert(r) ==
  /\ At(r, "insert")
  /\ \/ /\ record[Key(r)] = None
        /\ record' = [record EXCEPT ![Key(r)] = Reserved(Op(r))]
        /\ GoTo(r, "handle")
     \/ record[Key(r)] # None /\ Reply(r, None) /\ UNCHANGED record
  /\ UNCHANGED <<applied, answer, late, faults>>

(* The handler commits ..  *)
Handle(r) ==
  /\ At(r, "handle")
  /\ applied' = [applied EXCEPT ![Op(r)] = @ + 1]
  /\ Continue(r, "complete", Response(Op(r), applied[Op(r)] + 1))
  /\ UNCHANGED <<record, answer, late, faults>>

(* .. or refuses (a rule, a validation) or fails before anything is committed.  *)
(* catchError stands behind the rest too: the document may be there when only   *)
(* reading it again, or keeping the answer, fails                               *)
Fail(r) ==
  /\ request[r].at \in {"handle", "complete"}
  /\ Fault /\ NoteLate(r)
  /\ Continue(r, "release", None)
  /\ UNCHANGED <<record, applied, answer>>

(* The answer is kept with the key *)
Complete(r) ==
  /\ At(r, "complete")
  /\ record' = [record EXCEPT ![Key(r)] =
       IF @ = None THEN None
       ELSE [path |-> @.path, completed |-> TRUE, response |-> request[r].response]]
  /\ GoTo(r, "answer")
  /\ UNCHANGED <<applied, answer, late, faults>>

(* slip: the failure is kept as the answer (Answered) *)
ReleaseNothing(r) ==
  /\ At(r, "release")
  /\ record' = [record EXCEPT ![Key(r)] = [Reserved(Op(r)) EXCEPT !.completed = TRUE]]
  /\ GoTo(r, "answer")
  /\ UNCHANGED <<applied, answer, late, faults>>

(* A failure frees the key *)
Release(r) ==
  /\ At(r, "release")
  /\ record' = [record EXCEPT ![Key(r)] = None]
  /\ GoTo(r, "answer")
  /\ UNCHANGED <<applied, answer, late, faults>>

(* The server stops at work on the request *)
Stop(r) ==
  /\ request[r].at \in {"find", "insert", "handle", "complete", "release"}
  /\ Fault /\ NoteLate(r)
  /\ request' = [request EXCEPT ![r] = Away]
  /\ UNCHANGED <<record, applied, answer>>

(* The answer arrives; an error leaves the operation in the device's queue      *)
Answer(r) ==
  /\ At(r, "answer")
  /\ answer' = IF request[r].response = None THEN answer
               ELSE [answer EXCEPT ![Op(r)] = request[r].response]
  /\ request' = [request EXCEPT ![r] = Away]
  /\ UNCHANGED <<record, applied, late, faults>>

LoseAnswer(r) ==
  /\ At(r, "answer") /\ Fault
  /\ request' = [request EXCEPT ![r] = Away]
  /\ UNCHANGED <<record, applied, answer, late>>

(* IdempotencyCleanup: a reservation older than STALE_PENDING_MS (no request    *)
(* lasts that long), and any key older than KEEP_DAYS (no queue is that old)    *)
Clean(k) ==
  /\ record[k] # None
  /\ \A r \in Requests : ~Holds(r, k)
  /\ record[k].completed => Finished(k)
  /\ record' = [record EXCEPT ![k] = None]
  /\ UNCHANGED <<applied, request, answer, late, faults>>

Step(r) == Find(r) \/ Insert(r) \/ Handle(r) \/ Complete(r) \/ Release(r) \/ Answer(r)

Next ==
  \/ \E r \in Requests :
       \/ \E o \in Operations : Send(r, o)
       \/ Step(r) \/ Fail(r) \/ Stop(r) \/ LoseAnswer(r)
  \/ \E k \in Keys : Clean(k)

Spec == Init /\ [][Next]_vars

(* Requests are served, the device sends each operation again (every 30         *)
(* seconds: a request free for it is a bound of the model), and the clean-up    *)
(* runs every day                                                               *)
Fairness ==
  /\ \A r \in Requests : WF_vars(Step(r))
  /\ \A o \in Operations : SF_vars(\E r \in Requests : Send(r, o))
  /\ \A k \in Keys : WF_vars(Clean(k))

FairSpec == Spec /\ Fairness

-----------------------------------------------------------------------------
Record == [path : {PathOf[o] : o \in Operations}, completed : BOOLEAN, response : Responses \cup {None}]

ASSUME NoRecordAssumption == None \notin Record \cup Responses

Places == {"away", "find", "insert", "handle", "complete", "release", "answer"}

TypeOK ==
  /\ record \in [Keys -> Record \cup {None}]
  /\ applied \in [Operations -> Nat]
  /\ request \in [Requests -> [op : Operations \cup {None}, at : Places, response : Responses \cup {None}]]
  /\ answer \in [Operations -> Responses \cup {None}]
  /\ late \in [Operations -> Nat]
  /\ faults \in 0 .. MaxFaults

(* An operation sent many times is carried out once, whatever answers are lost   *)
(* and however the requests overlap ("the same key executes nothing again"); it   *)
(* is repeated only where the code cannot know better, once for every time that   *)
(* something failed or stopped between its commit and the answer that is kept.    *)
AppliedOnce == \A o \in Operations : applied[o] <= 1 + late[o]

(* The device never takes another operation's answer, or that of a repetition     *)
(* which nothing made necessary, for its own (a repeated key gets the answer kept). *)
AnswerOf(o, response) ==
  response \in Responses /\ response.op = o /\ response.n <= 1 + late[o]
AnswersAreFirst == \A o \in Operations : answer[o] # None => AnswerOf(o, answer[o])

(* No operation waits for ever behind a reservation that nobody holds            *)
(* (IdempotencyCleanup): with requests that fail and stop, every operation that   *)
(* has its key for itself is answered at last.                                    *)
Answered ==
  \A o \in Operations : (\A p \in Operations \ {o} : KeyOf[p] # KeyOf[o]) => <>(answer[o] # None)
=============================================================================
