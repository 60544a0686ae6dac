-------------------------- MODULE IdempotencyProofs --------------------------
(***************************************************************************)
(* Proofs that a repeated save is carried out once, for any number of         *)
(* operations, keys, requests and faults, and is repeated at most once for     *)
(* every failure or stop between the handler's commit and the answer that is   *)
(* kept with the key.  The invariant says where the memory of an operation     *)
(* that was carried out is: with its key, in the one request that holds the    *)
(* key, or on the device, which sends it no more.                              *)
(***************************************************************************)
EXTENDS Idempotency, TLAPS

(* A key is reserved by one request at most *)
OneHolder ==
  \A r, q \in Requests : Holding(r) /\ Holding(q) /\ Key(r) = Key(q) => r = q

(* .. which works on the reservation it wrote *)
HolderReserved ==
  \A r \in Requests :
    Holding(r) => Op(r) \in Operations /\ record[Key(r)] = Reserved(Op(r))

(* The handler runs for an operation of which no answer is kept *)
HandledOnce ==
  \A r \in Requests :
    /\ request[r].at \in {"find", "insert", "handle", "release"} => request[r].response = None
    /\ request[r].at \in {"handle", "release"} => applied[Op(r)] <= late[Op(r)]
    /\ At(r, "complete") => AnswerOf(Op(r), request[r].response)

(* What is kept with a key, answered, or on the device is a first answer *)
KeptIsFirst ==
  \A k \in Keys :
    record[k] # None /\ record[k].completed =>
      \E o \in Operations :
        KeyOf[o] = k /\ record[k].path = PathOf[o] /\ AnswerOf(o, record[k].response)

RepliesAreFirst ==
  \A r \in Requests :
    /\ ~At(r, "away") => Op(r) \in Operations
    /\ At(r, "answer") /\ request[r].response # None => AnswerOf(Op(r), request[r].response)

(* An operation that was carried out is remembered *)
Kept(o) ==
  /\ record[KeyOf[o]] # None
  /\ record[KeyOf[o]].completed
  /\ record[KeyOf[o]].path = PathOf[o]

Completing(o) == \E r \in Requests : At(r, "complete") /\ Op(r) = o

OnDevice(o) == answer[o] # None /\ \A r \in Requests : At(r, "away") \/ Op(r) # o

Remembered == \A o \in Operations : applied[o] > late[o] => Kept(o) \/ Completing(o) \/ OnDevice(o)

RepeatInv ==
  /\ TypeOK /\ OneHolder /\ HolderReserved /\ HandledOnce
  /\ KeptIsFirst /\ RepliesAreFirst /\ Remembered
  /\ AppliedOnce /\ AnswersAreFirst

USE IdempotencyAssumption, KeyAssumption, NoneAssumption, NoRecordAssumption

-----------------------------------------------------------------------------
LEMMA InitRepeat == Init => RepeatInv
BY DEF Init, RepeatInv, TypeOK, OneHolder, HolderReserved, HandledOnce, KeptIsFirst,
   RepliesAreFirst, Remembered, AppliedOnce, AnswersAreFirst, Away, At, Op, Key, Holding, Places

RequestRow == [op : Operations \cup {None}, at : Places, response : Responses \cup {None}]

(* A request that goes on, or ends, without touching keys or documents *)
Goes(r, step) ==
  /\ request' = [request EXCEPT ![r] = step]
  /\ step \in RequestRow
  /\ step.at \in {"away", "find", "insert", "answer"}
  /\ \/ step.at = "away"
     \/ ~At(r, "away") /\ step.op = Op(r)
     \/ step.op \in Operations /\ answer[step.op] = None
  /\ step.at \in {"find", "insert"} => step.response = None
  /\ step.at = "answer" /\ step.response # None => AnswerOf(step.op, step.response)

(* What fails late only makes more room for repetitions *)
LEMMA LateGrows ==
  ASSUME RepeatInv, NEW r \in Requests, NoteLate(r)
  PROVE  /\ late' \in [Operations -> Nat]
         /\ \A o \in Operations : late'[o] >= late[o]
         /\ At(r, "complete") => late'[Op(r)] = late[Op(r)] + 1
         /\ ~At(r, "complete") => late' = late
         /\ \A o \in Operations : \A response : AnswerOf(o, response) => AnswerOf(o, response)'
<1>1. late \in [Operations -> Nat] /\ applied \in [Operations -> Nat]
  BY DEF RepeatInv, TypeOK
<1>2. At(r, "complete") => Op(r) \in Operations
  BY DEF RepeatInv, RepliesAreFirst, At
<1>3. \A o \in Operations : late[o] \in Nat
  BY <1>1
<1>4. late' \in [Operations -> Nat]
  BY <1>1, <1>2, <1>3 DEF NoteLate
<1>5. \A o \in Operations : late'[o] >= late[o]
  BY <1>1, <1>2, <1>3 DEF NoteLate
<1>6. ASSUME NEW o \in Operations, NEW response, AnswerOf(o, response)
      PROVE  AnswerOf(o, response)'
  <2>1. response.n \in Nat /\ late'[o] \in Nat
    BY <1>4, <1>6 DEF AnswerOf, Responses
  <2> QED
    BY <1>3, <1>5, <1>6, <2>1 DEF AnswerOf
<1> QED
  BY <1>1, <1>2, <1>4, <1>5, <1>6 DEF NoteLate

LEMMA QuietStep ==
  ASSUME RepeatInv, NEW r \in Requests, NEW step, Goes(r, step), NoteLate(r),
         UNCHANGED <<record, applied>>, faults' \in 0 .. MaxFaults,
         \A o \in Operations : answer'[o] = answer[o] \/ AnswerOf(o, answer'[o]),
         answer' \in [Operations -> Responses \cup {None}]
  PROVE  RepeatInv'
<1> USE DEF RepeatInv, At, Op, Key, Holding
<1>1. request \in [Requests -> RequestRow] /\ step \in RequestRow
  BY DEF TypeOK, RequestRow, Goes
<1>2. \A q \in Requests : request'[q] = IF q = r THEN step ELSE request[q]
  BY <1>1 DEF Goes
<1>3. TypeOK'
  BY <1>1, LateGrows DEF TypeOK, RequestRow, Goes
<1>4. OneHolder' /\ HolderReserved'
  BY <1>2 DEF OneHolder, HolderReserved, Goes
<1>5. step.at # "away" => step.op \in Operations
  BY DEF Goes, RepliesAreFirst
<1>6. RepliesAreFirst'
  BY <1>2, <1>5, LateGrows DEF RepliesAreFirst, Goes
<1>7. \A o \in Operations : applied[o] \in Nat /\ late[o] \in Nat /\ late'[o] \in Nat
  BY LateGrows DEF TypeOK
<1>8. HandledOnce'
  <2>1. ASSUME NEW q \in Requests, q # r, request[q].at \in {"handle", "release"}
        PROVE  applied[Op(q)] <= late'[Op(q)]
    <3>1. Op(q) \in Operations /\ applied[Op(q)] <= late[Op(q)]
      BY <2>1 DEF HandledOnce, RepliesAreFirst
    <3> QED
      BY <1>7, <3>1, LateGrows
  <2> QED
    BY <1>2, <2>1, LateGrows DEF HandledOnce, RepliesAreFirst, Goes
<1>9. KeptIsFirst'
  BY LateGrows DEF KeptIsFirst
<1>10. AppliedOnce'
  BY <1>7, LateGrows DEF AppliedOnce
<1>11. AnswersAreFirst'
  BY LateGrows DEF AnswersAreFirst
<1>12. ASSUME NEW o \in Operations, applied[o] > late'[o]
       PROVE  Kept(o)' \/ Completing(o)' \/ OnDevice(o)'
  <2>1. applied[o] > late[o]
    BY <1>7, <1>12, LateGrows
  <2>2. Kept(o) => Kept(o)'
    BY DEF Kept
  <2>3. Completing(o) => Completing(o)'
    <3>1. ASSUME NEW q \in Requests, At(q, "complete"), Op(q) = o
          PROVE  q # r
      <4>1. SUFFICES ASSUME q = r PROVE FALSE
        OBVIOUS
      <4>2. late'[o] = late[o] + 1 /\ applied[o] <= 1 + late[o]
        BY <3>1, <4>1, LateGrows DEF AppliedOnce
      <4> QED
        BY <1>7, <1>12, <4>2
    <3> QED
      BY <1>2, <3>1 DEF Completing
  <2>4. answer[o] # None => answer'[o] # None
    BY DEF AnswerOf
  <2>5. OnDevice(o) => OnDevice(o)'
    BY <1>2, <2>4 DEF OnDevice, Goes
  <2> QED
    BY <2>1, <2>2, <2>3, <2>5 DEF Remembered
<1>13. Remembered'
  BY <1>12 DEF Remembered
<1> QED
  BY <1>3, <1>4, <1>6, <1>8, <1>9, <1>10, <1>11, <1>13

-----------------------------------------------------------------------------
(* The steps that are quiet *)
LEMMA RowType ==
  ASSUME RepeatInv, NEW r \in Requests
  PROVE  /\ request[r] \in RequestRow
         /\ request[r] = [op |-> Op(r), at |-> request[r].at, response |-> request[r].response]
         /\ ~At(r, "away") => Op(r) \in Operations /\ Key(r) \in Keys
BY DEF RepeatInv, TypeOK, RequestRow, RepliesAreFirst, Op, Key

LEMMA SendStep ==
  ASSUME RepeatInv, NEW r \in Requests, NEW o \in Operations, Send(r, o)
  PROVE  RepeatInv'
<1> DEFINE step == [op |-> o, at |-> "find", response |-> None]
<1>1. Goes(r, step)
  BY DEF Send, Goes, RequestRow, Places, At
<1>2. UNCHANGED <<record, applied, answer, faults>> /\ NoteLate(r)
  BY DEF Send, NoteLate, At
<1> HIDE DEF step
<1> QED
  BY <1>1, <1>2, QuietStep DEF RepeatInv, TypeOK

LEMMA FindStep ==
  ASSUME RepeatInv, NEW r \in Requests, Find(r)
  PROVE  RepeatInv'
<1> DEFINE found == record[Key(r)]
<1>1. UNCHANGED <<record, applied, answer, faults>> /\ At(r, "find") /\ NoteLate(r)
  BY DEF Find, NoteLate, At
<1>2. Op(r) \in Operations /\ Key(r) \in Keys /\ request[r] \in RequestRow
  BY <1>1, RowType DEF At
<1>3. CASE found = None /\ GoTo(r, "insert")
  <2>1. Goes(r, [op |-> Op(r), at |-> "insert", response |-> request[r].response])
    BY <1>1, <1>2, <1>3 DEF GoTo, Continue, Goes, RequestRow, Places, At, RepeatInv, HandledOnce
  <2> QED
    BY <1>1, <2>1, QuietStep DEF RepeatInv, TypeOK, At
<1>4. CASE /\ found # None
           /\ Reply(r, IF found.path = PathOf[Op(r)] /\ found.completed THEN found.response ELSE None)
  <2> DEFINE reply == IF found.path = PathOf[Op(r)] /\ found.completed THEN found.response ELSE None
  <2>1. reply # None => AnswerOf(Op(r), reply)
    BY <1>2, <1>4 DEF RepeatInv, KeptIsFirst, Key, Op
  <2>2. reply \in Responses \cup {None}
    BY <2>1 DEF AnswerOf
  <2>3. Goes(r, [op |-> Op(r), at |-> "answer", response |-> reply])
    BY <1>1, <1>2, <1>4, <2>1, <2>2 DEF Reply, Continue, Goes, RequestRow, Places, At
  <2> QED
    BY <1>1, <2>3, QuietStep DEF RepeatInv, TypeOK, At
<1> QED
  BY <1>3, <1>4 DEF Find

LEMMA StopStep ==
  ASSUME RepeatInv, NEW r \in Requests, Stop(r) \/ LoseAnswer(r)
  PROVE  RepeatInv'
<1>1. Goes(r, Away) /\ NoteLate(r)
  BY DEF Stop, LoseAnswer, NoteLate, Goes, Away, RequestRow, Places, At
<1>2. UNCHANGED <<record, applied, answer>> /\ faults' \in 0 .. MaxFaults
  BY DEF Stop, LoseAnswer, Fault, RepeatInv, TypeOK
<1> QED
  BY <1>1, <1>2, QuietStep DEF RepeatInv, TypeOK

LEMMA AnswerStep ==
  ASSUME RepeatInv, NEW r \in Requests, Answer(r)
  PROVE  RepeatInv'
<1>1. Goes(r, Away) /\ At(r, "answer")
  BY DEF Answer, Goes, Away, RequestRow, Places, At
<1>2. UNCHANGED <<record, applied, faults>> /\ NoteLate(r)
  BY <1>1 DEF Answer, NoteLate, At
<1>3. Op(r) \in Operations /\ (request[r].response # None => AnswerOf(Op(r), request[r].response))
  BY <1>1 DEF RepeatInv, RepliesAreFirst, At
<1>4. answer' \in [Operations -> Responses \cup {None}]
  BY <1>3 DEF Answer, RepeatInv, TypeOK, AnswerOf
<1>5. \A o \in Operations : answer'[o] = answer[o] \/ AnswerOf(o, answer'[o])
  BY <1>3 DEF Answer, RepeatInv, TypeOK
<1> QED
  BY <1>1, <1>2, <1>4, <1>5, QuietStep DEF RepeatInv, TypeOK

-----------------------------------------------------------------------------
(* The steps of the request that reserves a key, or will *)
LEMMA Continues ==
  ASSUME RepeatInv, NEW r \in Requests, NEW where \in Places, NEW response \in Responses \cup {None},
         ~At(r, "away"), Continue(r, where, response)
  PROVE  /\ request' \in [Requests -> RequestRow]
         /\ \A q \in Requests :
              request'[q] = IF q = r THEN [op |-> Op(r), at |-> where, response |-> response]
                            ELSE request[q]
BY RowType DEF RepeatInv, TypeOK, RequestRow, Continue

LEMMA ReservedRecord ==
  ASSUME NEW o \in Operations
  PROVE  Reserved(o) \in Record /\ Reserved(o) # None /\ ~Reserved(o).completed
<1>1. Reserved(o) \in Record /\ ~Reserved(o).completed
  BY DEF Reserved, Record
<1>2. None \notin Record
  OBVIOUS
<1> QED
  BY <1>1, <1>2

LEMMA InsertStep ==
  ASSUME RepeatInv, NEW r \in Requests, Insert(r)
  PROVE  RepeatInv'
<1>1. At(r, "insert") /\ UNCHANGED <<applied, answer, late, faults>> /\ NoteLate(r)
  BY DEF Insert, NoteLate, At
<1>2. Op(r) \in Operations /\ Key(r) \in Keys /\ request[r] \in RequestRow
  BY <1>1, RowType DEF At
<1>3. CASE record[Key(r)] # None /\ Reply(r, None) /\ UNCHANGED record
  <2>1. Goes(r, [op |-> Op(r), at |-> "answer", response |-> None])
    BY <1>1, <1>2, <1>3 DEF Reply, Continue, Goes, RequestRow, Places, At
  <2> QED
    BY <1>1, <1>3, <2>1, QuietStep DEF RepeatInv, TypeOK, At
<1>4. CASE /\ record[Key(r)] = None
           /\ record' = [record EXCEPT ![Key(r)] = Reserved(Op(r))]
           /\ GoTo(r, "handle")
  <2> DEFINE o == Op(r)
             k == Key(r)
  <2>1. request[r].response = None
    BY <1>1 DEF RepeatInv, HandledOnce, At
  <2>2. /\ request' \in [Requests -> RequestRow]
        /\ \A q \in Requests :
             request'[q] = IF q = r THEN [op |-> o, at |-> "handle", response |-> None]
                           ELSE request[q]
    BY <1>1, <1>4, <2>1, Continues DEF GoTo, At, Places
  <2>3. k = KeyOf[o] /\ record' = [record EXCEPT ![k] = Reserved(o)]
    BY <1>4 DEF Key, Op
  <2>4. \A q \in Requests : ~(Holding(q) /\ Key(q) = k)
    BY <1>4, ReservedRecord DEF RepeatInv, HolderReserved
  <2>5. applied[o] <= late[o]
    <3>1. ~Kept(o) /\ ~Completing(o) /\ ~OnDevice(o)
      BY <1>1, <1>4, <2>3, <2>4 DEF Kept, Completing, OnDevice, At, Op, Key, Holding
    <3>2. applied[o] \in Nat /\ late[o] \in Nat
      BY <1>2 DEF RepeatInv, TypeOK
    <3> QED
      BY <1>2, <3>1, <3>2 DEF RepeatInv, Remembered
  <2> HIDE DEF o, k
  <2>6. o \in Operations /\ k \in Keys /\ Reserved(o) \in Record /\ record[k] = None
    BY <1>2, <1>4, ReservedRecord DEF o, k
  <2>7. \A j \in Keys : record'[j] = IF j = k THEN Reserved(o) ELSE record[j]
    BY <2>3, <2>6 DEF RepeatInv, TypeOK
  <2>8. TypeOK'
    BY <1>1, <2>2, <2>3, <2>6 DEF RepeatInv, TypeOK, RequestRow
  <2>9. OneHolder'
    BY <2>2, <2>3, <2>4 DEF RepeatInv, OneHolder, Holding, Key, Op
  <2>10. HolderReserved'
    <3>1. ASSUME NEW q \in Requests, Holding(q)'
          PROVE  Op(q)' \in Operations /\ record'[Key(q)'] = Reserved(Op(q)')
      <4>1. CASE q = r
        BY <2>2, <2>3, <2>6, <2>7, <4>1 DEF Op, Key
      <4>2. CASE q # r
        <5>1. Holding(q) /\ Op(q)' = Op(q) /\ Key(q)' = Key(q)
          BY <2>2, <3>1, <4>2 DEF Holding, Op, Key
        <5>2. Op(q) \in Operations /\ Key(q) \in Keys /\ record[Key(q)] = Reserved(Op(q)) /\ Key(q) # k
          BY <5>1, <2>4 DEF RepeatInv, HolderReserved, Key, Op
        <5> QED
          BY <5>1, <5>2, <2>7
      <4> QED
        BY <4>1, <4>2
    <3> QED
      BY <3>1 DEF HolderReserved, Reserved
  <2>11. HandledOnce' /\ RepliesAreFirst'
    BY <1>1, <2>2, <2>5, <2>6 DEF RepeatInv, HandledOnce, RepliesAreFirst, AnswerOf, At, Op
  <2>12. KeptIsFirst'
    BY <1>1, <2>6, <2>7, ReservedRecord DEF RepeatInv, KeptIsFirst, AnswerOf
  <2>13. AppliedOnce' /\ AnswersAreFirst'
    BY <1>1 DEF RepeatInv, AppliedOnce, AnswersAreFirst, AnswerOf
  <2>14. ASSUME NEW p \in Operations, applied'[p] > late'[p]
         PROVE  Kept(p)' \/ Completing(p)' \/ OnDevice(p)'
    <3>0. applied[p] \in Nat /\ late[p] \in Nat
      BY DEF RepeatInv, TypeOK
    <3>1. p # o /\ (Kept(p) \/ Completing(p) \/ OnDevice(p))
      BY <1>1, <2>5, <2>14, <3>0 DEF RepeatInv, Remembered
    <3>2. Kept(p) => Kept(p)'
      BY <2>6, <2>7 DEF Kept
    <3>3. Completing(p) => Completing(p)'
      BY <1>1, <2>2 DEF Completing, At, Op
    <3>4. OnDevice(p) => OnDevice(p)'
      BY <1>1, <2>2, <3>1 DEF OnDevice, At, Op
    <3> QED
      BY <3>1, <3>2, <3>3, <3>4
  <2>15. Remembered'
    BY <2>14 DEF Remembered
  <2> QED
    BY <2>8, <2>9, <2>10, <2>11, <2>12, <2>13, <2>15 DEF RepeatInv
<1> QED
  BY <1>3, <1>4 DEF Insert

(* The request that holds a key *)
LEMMA HolderFacts ==
  ASSUME RepeatInv, NEW r \in Requests, Holding(r)
  PROVE  /\ ~At(r, "away")
         /\ Op(r) \in Operations /\ Key(r) \in Keys /\ Key(r) = KeyOf[Op(r)]
         /\ record[Key(r)] = Reserved(Op(r))
         /\ \A q \in Requests : Holding(q) /\ Key(q) = Key(r) => q = r
<1>1. ~At(r, "away")
  BY DEF Holding, At
<1> QED
  BY <1>1, RowType DEF RepeatInv, HolderReserved, OneHolder, Key, Op

LEMMA HandleStep ==
  ASSUME RepeatInv, NEW r \in Requests, Handle(r)
  PROVE  RepeatInv'
<1> DEFINE o == Op(r)
           response == Response(o, applied[o] + 1)
<1>1. At(r, "handle") /\ Holding(r) /\ UNCHANGED <<record, answer, late, faults>>
  BY DEF Handle, At, Holding
<1>2. /\ o \in Operations /\ Key(r) \in Keys
      /\ \A q \in Requests : Holding(q) /\ Key(q) = Key(r) => q = r
  BY <1>1, HolderFacts
<1>3. applied[o] \in Nat /\ late[o] \in Nat /\ applied[o] <= late[o]
  BY <1>1, <1>2 DEF RepeatInv, TypeOK, HandledOnce, At
<1>4. applied' = [applied EXCEPT ![o] = applied[o] + 1] /\ Continue(r, "complete", response)
  BY DEF Handle
<1>5. response \in Responses /\ AnswerOf(o, response)
  BY <1>2, <1>3 DEF Response, Responses, AnswerOf
<1>6. /\ request' \in [Requests -> RequestRow]
      /\ \A q \in Requests :
           request'[q] = IF q = r THEN [op |-> o, at |-> "complete", response |-> response]
                         ELSE request[q]
  BY <1>1, <1>4, <1>5, Continues DEF At, Places
<1>7. /\ applied' \in [Operations -> Nat]
      /\ \A p \in Operations : applied'[p] = IF p = o THEN applied[o] + 1 ELSE applied[p]
  BY <1>2, <1>3, <1>4 DEF RepeatInv, TypeOK
<1> HIDE DEF response
<1>8. TypeOK'
  BY <1>1, <1>6, <1>7 DEF RepeatInv, TypeOK, RequestRow
<1>9. \A q \in Requests : Holding(q)' = Holding(q) /\ Op(q)' = Op(q) /\ Key(q)' = Key(q)
  BY <1>1, <1>6 DEF Holding, Op, Key, At
<1>10. OneHolder' /\ HolderReserved'
  BY <1>1, <1>9 DEF RepeatInv, OneHolder, HolderReserved, Reserved
<1>11. \A q \in Requests \ {r} : Holding(q) => Op(q) # o
  BY <1>2 DEF Key, Op
<1>12. HandledOnce' /\ RepliesAreFirst'
  BY <1>1, <1>2, <1>5, <1>6, <1>7, <1>11
     DEF RepeatInv, HandledOnce, RepliesAreFirst, AnswerOf, At, Op, Holding
<1>13. KeptIsFirst' /\ AnswersAreFirst'
  BY <1>1 DEF RepeatInv, KeptIsFirst, AnswersAreFirst, AnswerOf
<1>14. AppliedOnce'
  BY <1>1, <1>3, <1>7 DEF RepeatInv, AppliedOnce
<1>15. ASSUME NEW p \in Operations, applied'[p] > late'[p]
       PROVE  Kept(p)' \/ Completing(p)' \/ OnDevice(p)'
  <2>1. CASE p = o
    BY <1>6, <2>1 DEF Completing, At, Op
  <2>2. CASE p # o
    <3>1. Kept(p) \/ Completing(p) \/ OnDevice(p)
      BY <1>1, <1>7, <1>15, <2>2 DEF RepeatInv, Remembered
    <3>2. Kept(p) => Kept(p)'
      BY <1>1 DEF Kept
    <3>3. Completing(p) => Completing(p)'
      BY <1>1, <1>6 DEF Completing, At, Op
    <3>4. OnDevice(p) => OnDevice(p)'
      BY <1>1, <1>6, <2>2 DEF OnDevice, At, Op
    <3> QED
      BY <3>1, <3>2, <3>3, <3>4
  <2> QED
    BY <2>1, <2>2
<1>16. Remembered'
  BY <1>15 DEF Remembered
<1> QED
  BY <1>8, <1>10, <1>12, <1>13, <1>14, <1>16 DEF RepeatInv

LEMMA FailStep ==
  ASSUME RepeatInv, NEW r \in Requests, Fail(r)
  PROVE  RepeatInv'
<1> DEFINE o == Op(r)
<1>1. /\ request[r].at \in {"handle", "complete"} /\ ~At(r, "away") /\ Holding(r)
      /\ UNCHANGED <<record, applied, answer>> /\ NoteLate(r)
      /\ faults' \in 0 .. MaxFaults
  BY DEF Fail, Fault, At, Holding, RepeatInv, TypeOK
<1>2. o \in Operations
  BY <1>1, HolderFacts
<1>3. Continue(r, "release", None)
  BY DEF Fail
<1>4. /\ request' \in [Requests -> RequestRow]
      /\ \A q \in Requests :
           request'[q] = IF q = r THEN [op |-> o, at |-> "release", response |-> None]
                         ELSE request[q]
  BY <1>1, <1>3, Continues DEF Places
<1>5. TypeOK'
  BY <1>1, <1>4, LateGrows DEF RepeatInv, TypeOK, RequestRow
<1>6. \A q \in Requests : Holding(q)' = Holding(q) /\ Op(q)' = Op(q) /\ Key(q)' = Key(q)
  BY <1>1, <1>4 DEF Holding, Op, Key, At
<1>7. OneHolder' /\ HolderReserved'
  BY <1>1, <1>6 DEF RepeatInv, OneHolder, HolderReserved, Reserved
<1>8. \A p \in Operations : applied[p] \in Nat /\ late[p] \in Nat /\ late'[p] \in Nat /\ late[p] <= late'[p]
  BY <1>1, LateGrows DEF RepeatInv, TypeOK
<1>9. applied[o] <= late'[o]
  <2>1. CASE At(r, "handle")
    <3>1. applied[o] <= late[o]
      BY <2>1 DEF RepeatInv, HandledOnce, At
    <3> QED
      BY <1>2, <1>8, <3>1
  <2>2. CASE At(r, "complete")
    <3>1. applied[o] <= 1 + late[o] /\ late'[o] = late[o] + 1
      BY <1>1, <1>2, <2>2, LateGrows DEF RepeatInv, AppliedOnce
    <3> QED
      BY <1>2, <1>8, <3>1
  <2> QED
    BY <1>1, <2>1, <2>2 DEF At
<1>10. HandledOnce'
  <2>1. ASSUME NEW q \in Requests, q # r, request[q].at \in {"handle", "release"}
        PROVE  applied[Op(q)] <= late'[Op(q)]
    <3>1. Op(q) \in Operations /\ applied[Op(q)] <= late[Op(q)]
      BY <2>1 DEF RepeatInv, HandledOnce, RepliesAreFirst, At
    <3> QED
      BY <1>8, <3>1
  <2> QED
    BY <1>1, <1>4, <1>9, <2>1, LateGrows DEF RepeatInv, HandledOnce, RepliesAreFirst, At, Op
<1>11. RepliesAreFirst'
  BY <1>1, <1>2, <1>4, LateGrows DEF RepeatInv, RepliesAreFirst, At, Op
<1>12. KeptIsFirst' /\ AnswersAreFirst'
  BY <1>1, LateGrows DEF RepeatInv, KeptIsFirst, AnswersAreFirst
<1>13. AppliedOnce'
  BY <1>1, <1>8 DEF RepeatInv, AppliedOnce
<1>14. ASSUME NEW p \in Operations, applied'[p] > late'[p]
       PROVE  Kept(p)' \/ Completing(p)' \/ OnDevice(p)'
  <2>1. p # o /\ applied[p] > late[p]
    BY <1>1, <1>8, <1>9, <1>14
  <2>2. /\ Kept(p) => Kept(p)'
        /\ Completing(p) => Completing(p)'
        /\ OnDevice(p) => OnDevice(p)'
    BY <1>1, <1>4, <2>1 DEF Kept, Completing, OnDevice, At, Op
  <2> QED
    BY <2>1, <2>2 DEF RepeatInv, Remembered
<1>15. Remembered'
  BY <1>14 DEF Remembered
<1> QED
  BY <1>5, <1>7, <1>10, <1>11, <1>12, <1>13, <1>15 DEF RepeatInv

LEMMA CompleteStep ==
  ASSUME RepeatInv, NEW r \in Requests, Complete(r)
  PROVE  RepeatInv'
<1> DEFINE o == Op(r)
           k == Key(r)
           response == request[r].response
           row == [path |-> PathOf[o], completed |-> TRUE, response |-> response]
<1>1. At(r, "complete") /\ ~At(r, "away") /\ Holding(r) /\ UNCHANGED <<applied, answer, late, faults>>
  BY DEF Complete, At, Holding
<1>2. /\ o \in Operations /\ k \in Keys /\ k = KeyOf[o] /\ record[k] = Reserved(o)
      /\ \A q \in Requests : Holding(q) /\ Key(q) = k => q = r
  BY <1>1, HolderFacts
<1>3. AnswerOf(o, response) /\ response \in Responses
  BY <1>1 DEF RepeatInv, HandledOnce, AnswerOf
<1>4. record[k] # None /\ record[k].path = PathOf[o]
  <2>1. Reserved(o) # None
    BY <1>2, ReservedRecord
  <2> QED
    BY <1>2, <2>1 DEF Reserved
<1>5. row \in Record /\ row # None
  <2>1. row \in Record
    BY <1>2, <1>3 DEF Record
  <2>2. None \notin Record
    OBVIOUS
  <2> QED
    BY <2>1, <2>2
<1>6. /\ record' \in [Keys -> Record \cup {None}]
      /\ \A j \in Keys : record'[j] = IF j = k THEN row ELSE record[j]
  <2>1. record' = [record EXCEPT ![k] = row]
    BY <1>2, <1>4 DEF Complete, RepeatInv, TypeOK
  <2> QED
    BY <1>2, <1>5, <2>1 DEF RepeatInv, TypeOK
<1>7. /\ request' \in [Requests -> RequestRow]
      /\ \A q \in Requests :
           request'[q] = IF q = r THEN [op |-> o, at |-> "answer", response |-> response]
                         ELSE request[q]
  <2>1. Continue(r, "answer", response)
    BY DEF Complete, GoTo
  <2> QED
    BY <1>1, <1>3, <2>1, Continues DEF Places
<1>8. TypeOK'
  BY <1>1, <1>6, <1>7 DEF RepeatInv, TypeOK, RequestRow
<1> HIDE DEF row, response
<1>9. \A q \in Requests : Holding(q)' => q # r /\ Holding(q) /\ Op(q)' = Op(q) /\ Key(q)' = Key(q)
  BY <1>7 DEF Holding, Op, Key
<1>10. OneHolder' /\ HolderReserved'
  <2>1. ASSUME NEW q \in Requests, Holding(q)'
        PROVE  Op(q)' \in Operations /\ record'[Key(q)'] = Reserved(Op(q)')
    <3>1. q # r /\ Holding(q) /\ Op(q)' = Op(q) /\ Key(q)' = Key(q)
      BY <1>9, <2>1
    <3>2. Key(q) # k
      BY <1>2, <3>1
    <3>3. Op(q) \in Operations /\ Key(q) \in Keys /\ record[Key(q)] = Reserved(Op(q))
      BY <3>1, HolderFacts
    <3> QED
      BY <1>6, <3>1, <3>2, <3>3
  <2> QED
    BY <1>9, <2>1 DEF RepeatInv, OneHolder, HolderReserved, Reserved
<1>11. HandledOnce' /\ RepliesAreFirst'
  BY <1>1, <1>2, <1>3, <1>7 DEF RepeatInv, HandledOnce, RepliesAreFirst, AnswerOf, At, Op
<1>12. KeptIsFirst'
  BY <1>1, <1>2, <1>3, <1>6 DEF RepeatInv, KeptIsFirst, AnswerOf, row
<1>13. AppliedOnce' /\ AnswersAreFirst'
  BY <1>1 DEF RepeatInv, AppliedOnce, AnswersAreFirst, AnswerOf
<1>14. ASSUME NEW p \in Operations, applied'[p] > late'[p]
       PROVE  Kept(p)' \/ Completing(p)' \/ OnDevice(p)'
  <2>1. CASE p = o
    BY <1>2, <1>5, <1>6, <2>1 DEF Kept, row
  <2>2. CASE p # o
    <3>1. Kept(p) \/ Completing(p) \/ OnDevice(p)
      BY <1>1, <1>14 DEF RepeatInv, Remembered
    <3>2. Kept(p) => Kept(p)'
      <4>1. Kept(p) => KeyOf[p] # k
        BY <1>2, ReservedRecord DEF Kept
      <4> QED
        BY <1>6, <4>1 DEF Kept
    <3>3. Completing(p) => Completing(p)'
      BY <1>7, <2>2 DEF Completing, At, Op
    <3>4. OnDevice(p) => OnDevice(p)'
      BY <1>1, <1>7, <2>2 DEF OnDevice, At, Op
    <3> QED
      BY <3>1, <3>2, <3>3, <3>4
  <2> QED
    BY <2>1, <2>2
<1>15. Remembered'
  BY <1>14 DEF Remembered
<1> QED
  BY <1>8, <1>10, <1>11, <1>12, <1>13, <1>15 DEF RepeatInv

-----------------------------------------------------------------------------
(* A key that nobody holds, and that no operation needs, is freed *)
LEMMA FreeKey ==
  ASSUME RepeatInv, NEW k \in Keys,
         record' = [record EXCEPT ![k] = None], late' = late,
         \A r \in Requests : Holding(r)' => Holding(r) /\ Op(r)' = Op(r) /\ Key(r)' = Key(r) /\ Key(r) # k
  PROVE  /\ record' \in [Keys -> Record \cup {None}]
         /\ OneHolder' /\ HolderReserved' /\ KeptIsFirst'
         /\ \A o \in Operations : Kept(o) /\ KeyOf[o] # k => Kept(o)'
<1>1. /\ record' \in [Keys -> Record \cup {None}]
      /\ \A j \in Keys : record'[j] = IF j = k THEN None ELSE record[j]
  BY DEF RepeatInv, TypeOK
<1>2. ASSUME NEW q \in Requests, Holding(q)'
      PROVE  Op(q)' \in Operations /\ record'[Key(q)'] = Reserved(Op(q)')
  <2>1. Holding(q) /\ Op(q)' = Op(q) /\ Key(q)' = Key(q) /\ Key(q) # k
    BY <1>2
  <2>2. Op(q) \in Operations /\ Key(q) \in Keys /\ record[Key(q)] = Reserved(Op(q))
    BY <2>1, HolderFacts
  <2> QED
    BY <1>1, <2>1, <2>2
<1>3. OneHolder' /\ HolderReserved'
  BY <1>2 DEF RepeatInv, OneHolder, HolderReserved, Reserved
<1>4. KeptIsFirst'
  BY <1>1 DEF RepeatInv, KeptIsFirst, AnswerOf
<1>5. \A o \in Operations : Kept(o) /\ KeyOf[o] # k => Kept(o)'
  BY <1>1 DEF Kept
<1> QED
  BY <1>1, <1>3, <1>4, <1>5

LEMMA ReleaseStep ==
  ASSUME RepeatInv, NEW r \in Requests, Release(r)
  PROVE  RepeatInv'
<1> DEFINE o == Op(r)
           k == Key(r)
<1>1. At(r, "release") /\ ~At(r, "away") /\ Holding(r) /\ UNCHANGED <<applied, answer, late, faults>>
  BY DEF Release, At, Holding
<1>2. /\ o \in Operations /\ k \in Keys /\ k = KeyOf[o] /\ record[k] = Reserved(o)
      /\ \A q \in Requests : Holding(q) /\ Key(q) = k => q = r
  BY <1>1, HolderFacts
<1>3. request[r].response = None /\ applied[o] <= late[o]
  BY <1>1 DEF RepeatInv, HandledOnce, At
<1>4. /\ request' \in [Requests -> RequestRow]
      /\ \A q \in Requests :
           request'[q] = IF q = r THEN [op |-> o, at |-> "answer", response |-> None]
                         ELSE request[q]
  <2>1. Continue(r, "answer", None)
    BY <1>3 DEF Release, GoTo
  <2> QED
    BY <1>1, <2>1, Continues DEF Places
<1>5. \A q \in Requests :
        Holding(q)' => Holding(q) /\ Op(q)' = Op(q) /\ Key(q)' = Key(q) /\ Key(q) # k
  BY <1>2, <1>4 DEF Holding, Op, Key
<1>6. /\ record' \in [Keys -> Record \cup {None}]
      /\ OneHolder' /\ HolderReserved' /\ KeptIsFirst'
      /\ \A p \in Operations : Kept(p) /\ KeyOf[p] # k => Kept(p)'
  BY <1>1, <1>2, <1>5, FreeKey DEF Release
<1>7. TypeOK'
  BY <1>1, <1>4, <1>6 DEF RepeatInv, TypeOK, RequestRow
<1>8. HandledOnce' /\ RepliesAreFirst'
  BY <1>1, <1>2, <1>4 DEF RepeatInv, HandledOnce, RepliesAreFirst, AnswerOf, At, Op
<1>9. AppliedOnce' /\ AnswersAreFirst'
  BY <1>1 DEF RepeatInv, AppliedOnce, AnswersAreFirst, AnswerOf
<1>10. ASSUME NEW p \in Operations, applied'[p] > late'[p]
       PROVE  Kept(p)' \/ Completing(p)' \/ OnDevice(p)'
  <2>0. applied[p] \in Nat /\ late[p] \in Nat
    BY DEF RepeatInv, TypeOK
  <2>1. p # o /\ (Kept(p) \/ Completing(p) \/ OnDevice(p))
    BY <1>1, <1>3, <1>10, <2>0 DEF RepeatInv, Remembered
  <2>2. Kept(p) => Kept(p)'
    BY <1>2, <1>6, ReservedRecord DEF Kept
  <2>3. Completing(p) => Completing(p)'
    BY <1>1, <1>4 DEF Completing, At, Op
  <2>4. OnDevice(p) => OnDevice(p)'
    BY <1>1, <1>4, <2>1 DEF OnDevice, At, Op
  <2> QED
    BY <2>1, <2>2, <2>3, <2>4
<1>11. Remembered'
  BY <1>10 DEF Remembered
<1> QED
  BY <1>6, <1>7, <1>8, <1>9, <1>11 DEF RepeatInv

LEMMA CleanStep ==
  ASSUME RepeatInv, NEW k \in Keys, Clean(k)
  PROVE  RepeatInv'
<1>1. UNCHANGED <<applied, request, answer, late, faults>> /\ record' = [record EXCEPT ![k] = None]
  BY DEF Clean
<1>2. \A q \in Requests :
        Holding(q)' => Holding(q) /\ Op(q)' = Op(q) /\ Key(q)' = Key(q) /\ Key(q) # k
  BY <1>1 DEF Clean, Holds, Holding, Op, Key
<1>3. /\ record' \in [Keys -> Record \cup {None}]
      /\ OneHolder' /\ HolderReserved' /\ KeptIsFirst'
      /\ \A p \in Operations : Kept(p) /\ KeyOf[p] # k => Kept(p)'
  BY <1>1, <1>2, FreeKey
<1>4. TypeOK'
  BY <1>1, <1>3 DEF RepeatInv, TypeOK
<1>5. HandledOnce' /\ RepliesAreFirst' /\ AppliedOnce' /\ AnswersAreFirst'
  BY <1>1 DEF RepeatInv, HandledOnce, RepliesAreFirst, AppliedOnce, AnswersAreFirst, AnswerOf, At, Op
<1>6. ASSUME NEW p \in Operations, applied'[p] > late'[p]
      PROVE  Kept(p)' \/ Completing(p)' \/ OnDevice(p)'
  <2>1. Kept(p) \/ Completing(p) \/ OnDevice(p)
    BY <1>1, <1>6 DEF RepeatInv, Remembered
  <2>2. Completing(p) => Completing(p)'
    BY <1>1 DEF Completing, At, Op
  <2>3. OnDevice(p) => OnDevice(p)'
    BY <1>1 DEF OnDevice, At, Op
  <2>4. Kept(p) /\ KeyOf[p] = k => OnDevice(p)
    BY DEF Kept, Clean, Finished, OnDevice, Key, Op, At
  <2> QED
    BY <1>3, <2>1, <2>2, <2>3, <2>4
<1>7. Remembered'
  BY <1>6 DEF Remembered
<1> QED
  BY <1>3, <1>4, <1>5, <1>7 DEF RepeatInv

-----------------------------------------------------------------------------
LEMMA NextRepeat ==
  ASSUME RepeatInv, [Next]_vars
  PROVE  RepeatInv'
<1>1. ASSUME NEW r \in Requests, NEW o \in Operations, Send(r, o)
      PROVE  RepeatInv'
  BY <1>1, SendStep
<1>2. ASSUME NEW r \in Requests, Step(r)
      PROVE  RepeatInv'
  BY <1>2, FindStep, InsertStep, HandleStep, CompleteStep, ReleaseStep, AnswerStep DEF Step
<1>3. ASSUME NEW r \in Requests, Fail(r) \/ Stop(r) \/ LoseAnswer(r)
      PROVE  RepeatInv'
  BY <1>3, FailStep, StopStep
<1>4. ASSUME NEW k \in Keys, Clean(k)
      PROVE  RepeatInv'
  BY <1>4, CleanStep
<1>5. CASE UNCHANGED vars
  <2> USE <1>5 DEF vars
  <2>1. TypeOK' /\ AppliedOnce' /\ AnswersAreFirst' /\ KeptIsFirst'
    BY DEF RepeatInv, TypeOK, AppliedOnce, AnswersAreFirst, KeptIsFirst, AnswerOf
  <2>2. OneHolder' /\ HolderReserved' /\ HandledOnce' /\ RepliesAreFirst'
    BY DEF RepeatInv, OneHolder, HolderReserved, HandledOnce, RepliesAreFirst, AnswerOf, Holding, At, Op, Key, Reserved
  <2>3. Remembered'
    BY DEF RepeatInv, Remembered, Kept, Completing, OnDevice, At, Op
  <2> QED
    BY <2>1, <2>2, <2>3 DEF RepeatInv
<1> QED
  BY <1>1, <1>2, <1>3, <1>4, <1>5 DEF Next

(* The records, the requests and the answers on the devices have their types.  *)
THEOREM RepeatTypeCorrect ==
  Spec => []TypeOK
<1>1. RepeatInv => TypeOK BY DEF RepeatInv
<1>2. RepeatInv /\ [Next]_vars => RepeatInv' BY NextRepeat
<1> QED BY <1>1, <1>2, InitRepeat, PTL DEF Spec

(* An operation is carried out once however often it is sent (intercept), and  *)
(* again at most once for each failure between the commit and the kept answer. *)
THEOREM CarriedOutOnce ==
  Spec => []AppliedOnce
<1>1. RepeatInv => AppliedOnce BY DEF RepeatInv
<1>2. RepeatInv /\ [Next]_vars => RepeatInv' BY NextRepeat
<1> QED BY <1>1, <1>2, InitRepeat, PTL DEF Spec

(* The device has the first answer of its own operation (intercept), up to     *)
(* those repetitions and for every assignment of keys to operations.           *)
THEOREM FirstAnswers ==
  Spec => []AnswersAreFirst
<1>1. RepeatInv => AnswersAreFirst BY DEF RepeatInv
<1>2. RepeatInv /\ [Next]_vars => RepeatInv' BY NextRepeat
<1> QED BY <1>1, <1>2, InitRepeat, PTL DEF Spec
=============================================================================
