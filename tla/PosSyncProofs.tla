--------------------------- MODULE PosSyncProofs ---------------------------
(***************************************************************************)
(* Proofs about the upload of a till's queue, for any operations, shifts,    *)
(* requests and faults.  The invariant follows a request from one statement  *)
(* to the next: what it is about to say was done is on the server, and       *)
(* nothing the server holds goes away again.  While no two uploads overlap,  *)
(* a closed shift's figures are those of its documents but for the document  *)
(* that was just recorded, and what the request has read of them is current. *)
(***************************************************************************)
EXTENDS PosSync, PosRights, Kitchen, UnitSumsProofs, FiniteSetTheorems, SequenceTheorems, WellFoundedInduction, TLAPS

-----------------------------------------------------------------------------
(***************************************************************************)
(* The invariant.  A request knows what it is doing: there are operations    *)
(* left, the first of them is of the kind its statement is for, and what it   *)
(* is about to say was done, and has said, is on the server.                  *)
(***************************************************************************)
Row == [todo : SUBSET Ops, at : Waiting \cup Working, done : SUBSET Ops, new : BOOLEAN,
        unread : SUBSET Sources, read : [Sources -> Int]]

KnownRow(row) ==
  /\ row.at \in Working \cup {"next"} => row.todo # {}
  /\ row.at = "insert" => Kind(Earliest(row.todo)) = "open"
  /\ row.at = "record" => Earliest(row.todo) \in Documents
  /\ row.at = "count" => Kind(Earliest(row.todo)) = "sale" /\ Earliest(row.todo) \in recorded
  /\ row.at \in {"check", "recalculate"} => Earliest(row.todo) \in Documents /\ Taken(Earliest(row.todo))
  /\ row.at = "close" => Kind(Earliest(row.todo)) = "close"
  /\ row.at \notin {"recalculate", "close"} => row.unread = {}
  /\ \A o \in row.done : Taken(o)
Known == \A r \in Requests : KnownRow(request[r])

(* While no two uploads overlap one of them is at work ..                        *)
Alone == \A q, r \in Requests : ~At(q, "away") /\ ~At(r, "away") => q = r

(* .. the figures it has read are those of today ..                              *)
ReadRow(row) ==
  row.at \in {"recalculate", "close"} =>
    \A kind \in Sources \ row.unread :
      row.read[kind] = Figure(ShiftOf(Earliest(row.todo)), kind, recorded)
FiguresRead == \A r \in Requests : ReadRow(request[r])

(* .. and a closed shift's are right, but for the document that it recorded and   *)
(* for which it has not worked them out yet                                       *)
Behind(row, s) ==
  /\ row.at \in {"check", "recalculate"} \/ (row.at = "count" /\ row.new)
  /\ ShiftOf(Earliest(row.todo)) = s
Right(s) == shift[s].expected = Expected(FiguresOf(s, recorded))
ClosedRight ==
  \A s \in Shifts : shift[s].status = "closed" => Right(s) \/ \E r \in Requests : Behind(request[r], s)

WhileCalm == calm => Alone /\ FiguresRead /\ ClosedRight

SyncInv == TypeOK /\ OneOpenShift /\ DroppedIsRecorded /\ Known /\ WhileCalm

-----------------------------------------------------------------------------
(* What the screen did is a sequence of operations *)
LEMMA OpsKnown ==
  /\ Ops \subseteq Nat /\ IsFiniteSet(Ops)
  /\ \A o \in Ops : /\ Kind(o) \in {"open", "sale", "return", "move", "close"} /\ ShiftOf(o) \in Shifts
                    /\ Operations[o].cash \in Int /\ Operations[o].number \in Nat
<1> DEFINE OpRow == [kind : {"open", "sale", "return", "move", "close"}, shift : Shifts, cash : Int, number : Nat]
<1>1. Operations \in Seq(OpRow)
  BY SyncAssumption
<1>2. Len(Operations) \in Nat /\ Ops = 1 .. Len(Operations) /\ \A o \in Ops : Operations[o] \in OpRow
  BY <1>1, LenProperties DEF Ops
<1>3. Ops \subseteq Nat
  BY <1>2
<1>4. IsFiniteSet(Ops)
  BY <1>2, FS_Interval
<1>5. \A o \in Ops : /\ Kind(o) \in {"open", "sale", "return", "move", "close"} /\ ShiftOf(o) \in Shifts
                     /\ Operations[o].cash \in Int /\ Operations[o].number \in Nat
  BY <1>2 DEF Kind, ShiftOf
<1> QED
  BY <1>3, <1>4, <1>5

(* Some operations have an earliest one *)
LEMMA EarliestIn ==
  ASSUME NEW os \in SUBSET Ops, os # {}
  PROVE  Earliest(os) \in os
<1>1. os \subseteq Nat
  BY OpsKnown
<1>2. PICK o \in os : \A q \in os : <<q, o>> \notin OpToRel(<, Nat)
  BY <1>1, WFMin, NatLessThanWellFounded, Zenon
<1>3. \A q \in os : ~(q < o)
  BY <1>1, <1>2, Zenon DEF OpToRel
<1>4. \A q \in os : o <= q
  BY <1>1, <1>3
<1> QED
  BY <1>4 DEF Earliest

(* A figure is a sum of what the drawer took *)
LEMMA FigureType ==
  ASSUME NEW s, NEW kind, NEW docs \in SUBSET Ops
  PROVE  Figure(s, kind, docs) \in Int
<1> DEFINE S == Counted(s, kind, docs)
           cash == [o \in S |-> Operations[o].cash]
<1>1. S \subseteq Ops
  BY DEF Counted
<1>2. IsFiniteSet(S)
  BY <1>1, OpsKnown, FS_Subset
<1>3. cash \in [S -> Int]
  BY <1>1, OpsKnown
<1>4. Total(cash) \in Int
  BY <1>2, <1>3, TotalType
<1>5. Units(cash) = PutIn(S)
  BY DEF Units, UnitsAt, PutIn
<1>6. Units(Negated(cash)) = TakenOut(S)
  BY DEF Units, UnitsAt, Negated, TakenOut
<1>7. Figure(s, kind, docs) = Total(cash)
  BY <1>5, <1>6 DEF Figure, Total
<1> QED
  BY <1>4, <1>7

(* A document changes the figures of its own shift only *)
LEMMA FigureOfOthers ==
  ASSUME NEW s, NEW kind, NEW docs, NEW o, ShiftOf(o) # s
  PROVE  Figure(s, kind, docs \cup {o}) = Figure(s, kind, docs)
<1>1. Counted(s, kind, docs \cup {o}) = Counted(s, kind, docs)
  BY DEF Counted
<1> QED
  BY <1>1 DEF Figure

(* What a closed shift takes in is a number *)
LEMMA ExpectedType ==
  ASSUME NEW read \in [Sources -> Int]
  PROVE  Expected(read) \in Int
  BY DEF Expected, Sources

(* The three figures a request has read are those of the shift *)
LEMMA ExpectedOfFigures ==
  ASSUME NEW read \in [Sources -> Int], NEW s, NEW docs,
         \A kind \in Sources : read[kind] = Figure(s, kind, docs)
  PROVE  Expected(read) = Expected(FiguresOf(s, docs))
  BY DEF Expected, FiguresOf, Sources

-----------------------------------------------------------------------------
Rows == request \in [Requests -> Row]

(* What the server holds, apart from the requests *)
ServerRows ==
  /\ shift \in [Shifts -> [status : {"none", "open", "closed"}, expected : Int, late : Nat]]
  /\ recorded \subseteq Documents /\ lastCounter \in Nat

LEMMA TypeParts ==
  TypeOK <=> /\ ServerRows /\ Rows
             /\ queue \subseteq Ops /\ faults \in 0 .. MaxFaults /\ calm \in BOOLEAN
  BY DEF TypeOK, ServerRows, Rows, Row

LEMMA TypePartsNext ==
  TypeOK' <=> /\ ServerRows' /\ Rows'
              /\ (queue \subseteq Ops)' /\ (faults \in 0 .. MaxFaults)' /\ (calm \in BOOLEAN)'
  BY TypeParts, PTL

(* The request that is at work has operations left, and does the first of them *)
LEMMA DoingKnown ==
  ASSUME TypeOK, Known, NEW r \in Requests, request[r].at \in Working \cup {"next"}
  PROVE  /\ request[r] \in Row /\ request[r].todo # {}
         /\ Doing(r) \in request[r].todo /\ Doing(r) \in Ops
<1>1. request[r] \in Row
  BY TypeParts DEF Rows
<1>2. request[r].todo # {} /\ request[r].todo \subseteq Ops
  BY <1>1 DEF Known, KnownRow, Row
<1> QED
  BY <1>1, <1>2, EarliestIn DEF Doing

(* Nothing goes away again: documents, numbers, shifts that were opened or closed *)
Grows ==
  /\ recorded \subseteq recorded' /\ lastCounter' >= lastCounter
  /\ \A s \in Shifts : /\ shift[s].status # "none" => shift'[s].status # "none"
                       /\ shift[s].status = "closed" => shift'[s].status = "closed"

LEMMA TakenStays ==
  ASSUME ServerRows, ServerRows', Grows, NEW o \in Ops, Taken(o)
  PROVE  Taken(o)'
<1>1. ShiftOf(o) \in Shifts /\ Operations[o].number \in Nat
  BY OpsKnown
<1>2. lastCounter \in Nat /\ lastCounter' \in Nat
  BY DEF ServerRows
<1> QED
  BY <1>1, <1>2 DEF Taken, Grows

(* The rows of the requests after one of them has gone on *)
LEMMA RowWritten ==
  ASSUME Rows, NEW r \in Requests, NEW row \in Row, Continue(r, row)
  PROVE  /\ Rows' /\ request'[r] = row
         /\ \A q \in Requests \ {r} : request'[q] = request[q]
  BY DEF Rows, Continue

(* The others know what they knew *)
LEMMA RowKnown ==
  ASSUME TypeOK, Known, ServerRows', Grows, NEW r \in Requests, NEW row \in Row, Continue(r, row), KnownRow(row)'
  PROVE  Known'
<1>1. ServerRows /\ Rows
  BY TypeParts
<1>2. request'[r] = row /\ \A q \in Requests \ {r} : request'[q] = request[q]
  BY <1>1, RowWritten
<1>3. ASSUME NEW q \in Requests, q # r PROVE KnownRow(request[q])'
  <2>1. PICK other : other = request[q]
    OBVIOUS
  <2>2. request'[q] = other /\ KnownRow(other) /\ other \in Row
    BY <1>1, <1>2, <1>3, <2>1 DEF Known, Rows
  <2>3. \A o \in other.done : o \in Ops /\ Taken(o)
    BY <2>2 DEF KnownRow, Row
  <2>4. \A o \in other.done : Taken(o)'
    BY <1>1, <2>3, TakenStays
  <2>5. other.at \in {"check", "recalculate"} => Taken(Earliest(other.todo))'
    <3>1. CASE other.at \in {"check", "recalculate"}
      <4>1. PICK o : o = Earliest(other.todo)
        OBVIOUS
      <4>2. Taken(o) /\ o \in Ops
        BY <2>2, <3>1, <4>1 DEF KnownRow, Documents
      <4>3. Taken(o)'
        BY <1>1, <4>2, TakenStays
      <4> QED
        BY <4>1, <4>3
    <3> QED
      BY <3>1
  <2>6. recorded \subseteq recorded'
    BY DEF Grows
  <2>7. KnownRow(other)'
    BY <2>2, <2>4, <2>5, <2>6 DEF KnownRow
  <2> QED
    BY <2>2, <2>7
<1>4. KnownRow(request[r])'
  BY <1>2
<1> QED
  BY <1>3, <1>4 DEF Known

(* What the screen dropped stays on the server *)
LEMMA DroppedStays ==
  ASSUME TypeOK, DroppedIsRecorded, ServerRows', Grows, queue' = queue
  PROVE  DroppedIsRecorded'
<1>1. ServerRows
  BY TypeParts
<1> QED
  BY <1>1, TakenStays DEF DroppedIsRecorded

-----------------------------------------------------------------------------
(* The request that is at work is alone, and the others read nothing *)
LEMMA CalmStays ==
  ASSUME TypeOK, WhileCalm, calm' => calm, NEW r \in Requests, ~At(r, "away"),
         NEW row \in Row, Continue(r, row),
         calm' => ReadRow(row)',
         calm' => \A s \in Shifts : shift'[s].status = "closed" => Right(s)' \/ Behind(row, s)
  PROVE  WhileCalm'
<1> SUFFICES ASSUME calm' PROVE Alone' /\ FiguresRead' /\ ClosedRight'
  BY DEF WhileCalm
<1>1. request'[r] = row /\ \A q \in Requests \ {r} : request'[q] = request[q]
  BY TypeParts, RowWritten
<1>2. Alone
  BY DEF WhileCalm
<1>3. \A q \in Requests \ {r} : request[q].at = "away"
  BY <1>2 DEF Alone, At
<1>4. Alone'
  BY <1>1, <1>3 DEF Alone, At
<1>5. FiguresRead'
  <2> SUFFICES ASSUME NEW q \in Requests PROVE ReadRow(request[q])'
    BY DEF FiguresRead
  <2>1. CASE q = r
    BY <1>1, <2>1
  <2>2. CASE q # r
    BY <1>1, <1>3, <2>2 DEF ReadRow
  <2> QED
    BY <2>1, <2>2
<1>6. ClosedRight'
  <2> SUFFICES ASSUME NEW s \in Shifts, shift'[s].status = "closed", ~Right(s)'
               PROVE  Behind(request[r], s)'
    BY DEF ClosedRight
  <2>1. Behind(row, s)
    OBVIOUS
  <2> QED
    BY <1>1, <2>1 DEF Behind
<1> QED
  BY <1>4, <1>5, <1>6

(* A closed shift that is not right waits for the request that is at work *)
LEMMA OneBehind ==
  ASSUME WhileCalm, calm, NEW r \in Requests, ~At(r, "away"), NEW s \in Shifts, shift[s].status = "closed"
  PROVE  Right(s) \/ Behind(request[r], s)
<1>1. ASSUME NEW q \in Requests, Behind(request[q], s) PROVE q = r
  BY <1>1 DEF WhileCalm, Alone, At, Behind
<1> QED
  BY <1>1 DEF WhileCalm, ClosedRight

(* A step of one request, part by part *)
LEMMA StepKeeps ==
  ASSUME SyncInv, NEW r \in Requests, NEW row \in Row, Continue(r, row),
         ServerRows', Grows, queue' = queue, OneOpenShift', faults' \in 0 .. MaxFaults, calm' \in BOOLEAN,
         KnownRow(row)', WhileCalm'
  PROVE  SyncInv'
<1>1. Rows'
  BY TypeParts, RowWritten DEF SyncInv
<1>2. TypeOK'
  BY <1>1, TypeParts, TypePartsNext DEF SyncInv
<1>3. Known'
  BY RowKnown DEF SyncInv
<1>4. DroppedIsRecorded'
  BY DroppedStays DEF SyncInv
<1> QED
  BY <1>2, <1>3, <1>4 DEF SyncInv

(* One that changes no table of the server *)
LEMMA QuietKeeps ==
  ASSUME SyncInv, NEW r \in Requests, ~At(r, "away"), NEW row \in Row, Continue(r, row),
         UNCHANGED <<shift, recorded, lastCounter, queue>>,
         faults' \in 0 .. MaxFaults, calm' \in BOOLEAN, calm' => calm,
         KnownRow(row), calm' => ReadRow(row),
         calm' => \A s \in Shifts : shift[s].status = "closed" /\ Behind(request[r], s) => Behind(row, s)
  PROVE  SyncInv'
<1>1. ServerRows /\ ServerRows' /\ Grows
  BY TypeParts DEF SyncInv, ServerRows, Grows
<1>2. OneOpenShift'
  BY DEF SyncInv, OneOpenShift
<1>3. KnownRow(row)' /\ (ReadRow(row) => ReadRow(row)')
  BY DEF KnownRow, Taken, ReadRow
<1>4. calm' => \A s \in Shifts : shift'[s].status = "closed" => Right(s)' \/ Behind(row, s)
  <2> SUFFICES ASSUME calm', NEW s \in Shifts, shift[s].status = "closed" PROVE Right(s)' \/ Behind(row, s)
    OBVIOUS
  <2>1. Right(s) \/ Behind(request[r], s)
    BY OneBehind DEF SyncInv
  <2>2. Right(s) => Right(s)'
    BY DEF Right
  <2> QED
    BY <2>1, <2>2
<1>5. WhileCalm'
  BY <1>3, <1>4, CalmStays DEF SyncInv
<1> QED
  BY <1>1, <1>2, <1>3, <1>5, StepKeeps
-----------------------------------------------------------------------------
(* The row of a request after the result of its operation *)
Over(row, r, done) ==
  /\ row \in Row /\ Continue(r, row)
  /\ row.at \in {"next", "answer"} /\ (row.at = "next" => row.todo # {})
  /\ row.unread = {} /\ row.done \subseteq request[r].done \cup (IF done THEN {Doing(r)} ELSE {})

LEMMA ResultRow ==
  ASSUME TypeOK, Known, NEW r \in Requests, request[r].at \in Working \cup {"next"}, NEW done \in BOOLEAN, Result(r, done)
  PROVE  \E row : Over(row, r, done)
<1>1. /\ request[r] \in Row /\ Doing(r) \in request[r].todo /\ Doing(r) \in Ops
  BY DoingKnown
<1>2. PICK row : row = [Away EXCEPT !.todo = request[r].todo \ {Doing(r)},
                           !.at = IF request[r].todo = {Doing(r)} THEN "answer" ELSE "next",
                           !.done = request[r].done \cup (IF done THEN {Doing(r)} ELSE {})]
  OBVIOUS
<1>3. Away \in Row
  BY DEF Away, Row, NoFigures, Waiting, Sources
<1>4. row \in Row
  BY <1>1, <1>2, <1>3 DEF Row, Waiting
<1>5. Continue(r, row)
  BY <1>2 DEF Result
<1>6. /\ row.todo = request[r].todo \ {Doing(r)} /\ row.unread = {}
      /\ row.at = (IF request[r].todo = {Doing(r)} THEN "answer" ELSE "next")
      /\ row.done = request[r].done \cup (IF done THEN {Doing(r)} ELSE {})
  BY <1>2 DEF Away
<1>7. row.at = "next" => row.todo # {}
  BY <1>1, <1>6
<1>8. row.at \in {"next", "answer"}
  BY <1>6
<1> QED
  BY <1>4, <1>5, <1>6, <1>7, <1>8 DEF Over

(* A row that is over knows what it is doing, if what it says was done was done *)
LEMMA OverKnown ==
  ASSUME TypeOK, Known, NEW r \in Requests, NEW row, NEW done \in BOOLEAN, Over(row, r, done), done => Taken(Doing(r))
  PROVE  KnownRow(row) /\ ReadRow(row) /\ \A s : ~Behind(row, s)
<1>1. \A o \in request[r].done : Taken(o)
  BY DEF Known, KnownRow
<1>2. \A o \in row.done : Taken(o)
  BY <1>1 DEF Over
<1> QED
  BY <1>2 DEF Over, KnownRow, ReadRow, Behind, Working

(* An operation that is over and has changed no table *)
LEMMA QuietResult ==
  ASSUME SyncInv, NEW r \in Requests, request[r].at \in Working \cup {"next"}, NEW done \in BOOLEAN, Result(r, done),
         UNCHANGED <<shift, recorded, lastCounter, queue>>,
         faults' \in 0 .. MaxFaults, calm' \in BOOLEAN, calm' => calm,
         done => Taken(Doing(r)),
         calm' => \A s \in Shifts : shift[s].status = "closed" => ~Behind(request[r], s)
  PROVE  SyncInv'
<1>1. TypeOK /\ Known
  BY DEF SyncInv
<1>2. PICK row : Over(row, r, done)
  BY <1>1, ResultRow
<1>3. KnownRow(row) /\ ReadRow(row)
  BY <1>1, <1>2, OverKnown
<1>4. row \in Row /\ Continue(r, row) /\ ~At(r, "away")
  BY <1>2 DEF Over, At, Working
<1> QED
  BY <1>3, <1>4, QuietKeeps

(* A request that goes to its next statement and changes no table *)
LEMMA QuietStep ==
  ASSUME SyncInv, NEW r \in Requests, request[r].at \in Working \cup {"next"}, NEW where \in Working, GoTo(r, where),
         UNCHANGED <<shift, recorded, lastCounter, queue, faults, calm>>,
         where \in {"insert", "record", "count"}, At(r, "next"),
         where = "insert" => Kind(Doing(r)) = "open",
         where = "record" => Doing(r) \in Documents,
         where = "count" => Kind(Doing(r)) = "sale" /\ Doing(r) \in recorded
  PROVE  SyncInv'
<1>1. TypeOK /\ Known
  BY DEF SyncInv
<1>2. request[r] \in Row /\ request[r].todo # {} /\ KnownRow(request[r])
  BY <1>1, DoingKnown DEF Known
<1>3. PICK row : row = [request[r] EXCEPT !.at = where]
  OBVIOUS
<1>4. /\ row \in Row /\ row.at = where /\ row.todo = request[r].todo /\ row.done = request[r].done
      /\ row.unread = request[r].unread /\ Continue(r, row)
  BY <1>2, <1>3 DEF Row, GoTo
<1>5. request[r].unread = {} /\ \A o \in request[r].done : Taken(o)
  BY <1>2 DEF KnownRow, At
<1>6. KnownRow(row)
  BY <1>2, <1>4, <1>5 DEF KnownRow, Doing
<1>7. ReadRow(row) /\ ~At(r, "away") /\ \A s : ~Behind(request[r], s)
  BY <1>4 DEF ReadRow, At, Behind
<1>8. faults' \in 0 .. MaxFaults /\ calm' \in BOOLEAN /\ (calm' => calm)
  BY <1>1 DEF TypeOK
<1> QED
  BY <1>4, <1>6, <1>7, <1>8, QuietKeeps

(* Whatever is done first to an operation finds no shift behind *)
LEMMA NotBehind ==
  ASSUME NEW r, request[r].at \in {"next", "insert", "record", "close"}
  PROVE  \A s : ~Behind(request[r], s)
  BY DEF Behind

LEMMA FaultsStay == TypeOK /\ UNCHANGED <<faults, calm>> => faults' \in 0 .. MaxFaults /\ calm' \in BOOLEAN /\ (calm' => calm)
  BY DEF TypeOK

LEMMA FaultType == TypeOK /\ Fault => faults' \in 0 .. MaxFaults
  BY SyncAssumption DEF TypeOK, Fault

LEMMA FindShiftKeeps ==
  ASSUME SyncInv, NEW r \in Requests, FindShift(r)
  PROVE  SyncInv'
<1> DEFINE s == ShiftOf(Doing(r))
<1>1. /\ At(r, "next") /\ Kind(Doing(r)) = "open" /\ request[r].at \in Working \cup {"next"}
      /\ UNCHANGED <<shift, recorded, lastCounter, queue, faults, calm>>
  BY DEF FindShift, At
<1>2. faults' \in 0 .. MaxFaults /\ calm' \in BOOLEAN /\ (calm' => calm)
  BY <1>1, FaultsStay DEF SyncInv
<1>3. \A t : ~Behind(request[r], t)
  BY <1>1, NotBehind DEF At
<1>4. CASE shift[s].status # "none"
  <2>1. Result(r, TRUE) /\ Taken(Doing(r))
    BY <1>1, <1>4 DEF FindShift, Taken
  <2> QED
    BY <1>1, <1>2, <1>3, <2>1, QuietResult
<1>5. CASE shift[s].status = "none" /\ AnotherOpen(s)
  <2>1. Result(r, FALSE)
    BY <1>5 DEF FindShift
  <2> QED
    BY <1>1, <1>2, <1>3, <2>1, QuietResult
<1>6. CASE shift[s].status = "none" /\ ~AnotherOpen(s)
  <2>1. GoTo(r, "insert") /\ "insert" \in Working
    BY <1>6 DEF FindShift, Working
  <2> QED
    BY <1>1, <2>1, QuietStep
<1> QED
  BY <1>4, <1>5, <1>6

LEMMA FindDocumentKeeps ==
  ASSUME SyncInv, NEW r \in Requests, FindDocument(r)
  PROVE  SyncInv'
<1> DEFINE o == Doing(r)
           status == shift[ShiftOf(o)].status
<1>1. /\ At(r, "next") /\ o \in Documents /\ request[r].at \in Working \cup {"next"}
      /\ UNCHANGED <<shift, recorded, lastCounter, queue, faults, calm>>
  BY DEF FindDocument, At
<1>2. faults' \in 0 .. MaxFaults /\ calm' \in BOOLEAN /\ (calm' => calm)
  BY <1>1, FaultsStay DEF SyncInv
<1>3. \A t : ~Behind(request[r], t)
  BY <1>1, NotBehind DEF At
<1>4. \/ Result(r, FALSE)
      \/ Result(r, TRUE) /\ o \in recorded /\ Kind(o) # "sale"
      \/ GoTo(r, "count") /\ o \in recorded /\ Kind(o) = "sale"
      \/ GoTo(r, "record")
  BY DEF FindDocument
<1>5. CASE Result(r, FALSE)
  BY <1>1, <1>2, <1>3, <1>5, QuietResult
<1>6. CASE Result(r, TRUE) /\ o \in recorded /\ Kind(o) # "sale"
  <2>1. Taken(o)
    BY <1>1, <1>6 DEF Taken, Documents
  <2> QED
    BY <1>1, <1>2, <1>3, <1>6, <2>1, QuietResult
<1>7. CASE GoTo(r, "count") /\ o \in recorded /\ Kind(o) = "sale"
  <2>1. "count" \in Working
    BY DEF Working
  <2> QED
    BY <1>1, <1>7, <2>1, QuietStep
<1>8. CASE GoTo(r, "record")
  <2>1. "record" \in Working
    BY DEF Working
  <2> QED
    BY <1>1, <1>8, <2>1, QuietStep
<1> QED
  BY <1>4, <1>5, <1>6, <1>7, <1>8

LEMMA RefuseKeeps ==
  ASSUME SyncInv, NEW r \in Requests, Refuse(r)
  PROVE  SyncInv'
<1>1. /\ At(r, "record") /\ request[r].at \in Working \cup {"next"} /\ Result(r, FALSE)
      /\ UNCHANGED <<shift, recorded, lastCounter, queue>>
  BY DEF Refuse, At, Working
<1>2. faults' \in 0 .. MaxFaults /\ calm' \in BOOLEAN /\ (calm' => calm)
  BY FaultType DEF Refuse, SyncInv, TypeOK
<1>3. \A t : ~Behind(request[r], t)
  BY <1>1, NotBehind DEF At
<1> QED
  BY <1>1, <1>2, <1>3, QuietResult

LEMMA FailKeeps ==
  ASSUME SyncInv, NEW r \in Requests, Fail(r)
  PROVE  SyncInv'
<1>1. /\ request[r].at \in Working \cup {"next"} /\ Result(r, FALSE) /\ ~calm'
      /\ UNCHANGED <<shift, recorded, lastCounter, queue>>
  BY DEF Fail, Working
<1>2. faults' \in 0 .. MaxFaults /\ calm' \in BOOLEAN
  BY FaultType DEF Fail, SyncInv
<1> QED
  BY <1>1, <1>2, QuietResult

LEMMA CheckClosedKeeps ==
  ASSUME SyncInv, NEW r \in Requests, CheckClosed(r)
  PROVE  SyncInv'
<1> DEFINE s == ShiftOf(Doing(r))
<1>1. /\ At(r, "check") /\ request[r].at = "check" /\ request[r].at \in Working \cup {"next"} /\ ~At(r, "away")
      /\ UNCHANGED <<shift, recorded, lastCounter, queue, faults, calm>>
  BY DEF CheckClosed, At, Working
<1>2. faults' \in 0 .. MaxFaults /\ calm' \in BOOLEAN /\ (calm' => calm)
  BY <1>1, FaultsStay DEF SyncInv
<1>3. request[r] \in Row /\ KnownRow(request[r])
  BY <1>1, DoingKnown DEF SyncInv, Known
<1>4. Doing(r) \in Documents /\ Taken(Doing(r))
  BY <1>1, <1>3 DEF KnownRow, Doing
<1>5. CASE shift[s].status = "closed"
  <2>1. PICK row : row = [request[r] EXCEPT !.at = "recalculate", !.unread = Sources]
    OBVIOUS
  <2>2. Continue(r, row)
    BY <1>5, <2>1 DEF CheckClosed
  <2>3. /\ row \in Row /\ row.at = "recalculate" /\ row.todo = request[r].todo /\ row.done = request[r].done
        /\ row.unread = Sources
    BY <1>3, <2>1 DEF Row, Working
  <2>4. KnownRow(row)
    BY <1>1, <1>3, <1>4, <2>3 DEF KnownRow, Doing, Working
  <2>5. ReadRow(row) /\ \A t : Behind(request[r], t) => Behind(row, t)
    BY <2>3 DEF ReadRow, Behind
  <2> QED
    BY <1>1, <1>2, <2>2, <2>3, <2>4, <2>5, QuietKeeps
<1>6. CASE shift[s].status # "closed"
  <2>1. Result(r, TRUE)
    BY <1>6 DEF CheckClosed
  <2>2. \A t \in Shifts : shift[t].status = "closed" => ~Behind(request[r], t)
    BY <1>6 DEF Behind, Doing
  <2> QED
    BY <1>1, <1>2, <1>4, <2>1, <2>2, QuietResult
<1> QED
  BY <1>5, <1>6

LEMMA StartCloseKeeps ==
  ASSUME SyncInv, NEW r \in Requests, StartClose(r)
  PROVE  SyncInv'
<1> DEFINE status == shift[ShiftOf(Doing(r))].status
<1>1. /\ At(r, "next") /\ request[r].at = "next" /\ request[r].at \in Working \cup {"next"} /\ ~At(r, "away")
      /\ Kind(Doing(r)) = "close"
      /\ UNCHANGED <<shift, recorded, lastCounter, queue, faults, calm>>
  BY DEF StartClose, At
<1>2. faults' \in 0 .. MaxFaults /\ calm' \in BOOLEAN /\ (calm' => calm)
  BY <1>1, FaultsStay DEF SyncInv
<1>3. request[r] \in Row /\ KnownRow(request[r])
  BY <1>1, DoingKnown DEF SyncInv, Known
<1>4. \A t : ~Behind(request[r], t)
  BY <1>1, NotBehind DEF At
<1>5. CASE status = "open"
  <2>1. PICK row : row = [request[r] EXCEPT !.at = "close", !.unread = Sources]
    OBVIOUS
  <2>2. Continue(r, row)
    BY <1>5, <2>1 DEF StartClose
  <2>3. /\ row \in Row /\ row.at = "close" /\ row.todo = request[r].todo /\ row.done = request[r].done
        /\ row.unread = Sources
    BY <1>3, <2>1 DEF Row, Working
  <2>4. KnownRow(row)
    BY <1>1, <1>3, <2>3 DEF KnownRow, Doing, Working
  <2>5. ReadRow(row)
    BY <2>3 DEF ReadRow
  <2> QED
    BY <1>1, <1>2, <1>4, <2>2, <2>3, <2>4, <2>5, QuietKeeps
<1>6. CASE status # "open"
  <2>1. CASE status = "closed"
    <3>1. Result(r, TRUE) /\ Taken(Doing(r))
      BY <1>1, <1>6, <2>1 DEF StartClose, Taken
    <3> QED
      BY <1>1, <1>2, <1>4, <3>1, QuietResult
  <2>2. CASE status # "closed"
    <3>1. Result(r, FALSE)
      BY <1>1, <1>6, <2>2 DEF StartClose
    <3> QED
      BY <1>1, <1>2, <1>4, <3>1, QuietResult
  <2> QED
    BY <2>1, <2>2
<1> QED
  BY <1>5, <1>6

LEMMA ReadFiguresKeeps ==
  ASSUME SyncInv, NEW r \in Requests, ReadFigures(r)
  PROVE  SyncInv'
<1>1. UNCHANGED <<shift, recorded, lastCounter, queue, faults, calm>>
  BY DEF ReadFigures
<1>2. faults' \in 0 .. MaxFaults /\ calm' \in BOOLEAN /\ (calm' => calm)
  BY <1>1, FaultsStay DEF SyncInv
<1>3. PICK kind \in request[r].unread :
        Continue(r, [request[r] EXCEPT !.unread = @ \ {kind},
                                       !.read[kind] = Figure(ShiftOf(Doing(r)), kind, recorded)])
  BY DEF ReadFigures
<1>4. KnownRow(request[r]) /\ request[r].at \in {"recalculate", "close"}
  BY <1>3 DEF SyncInv, Known, KnownRow
<1>5. request[r].at \in Working \cup {"next"} /\ ~At(r, "away")
  BY <1>4 DEF Working, At
<1>6. request[r] \in Row
  BY <1>5, DoingKnown DEF SyncInv
<1>7. PICK figure : figure = Figure(ShiftOf(Doing(r)), kind, recorded)
  OBVIOUS
<1>8. figure \in Int
  <2>1. recorded \in SUBSET Ops
    BY DEF SyncInv, TypeOK, Documents
  <2> QED
    BY <1>7, <2>1, FigureType
<1>9. PICK row : row = [request[r] EXCEPT !.unread = @ \ {kind}, !.read[kind] = figure]
  OBVIOUS
<1>10. Continue(r, row)
  BY <1>3, <1>7, <1>9
<1>11. kind \in Sources
  BY <1>3, <1>6 DEF Row
<1>12. /\ row \in Row /\ row.at = request[r].at /\ row.todo = request[r].todo /\ row.done = request[r].done
       /\ row.unread = request[r].unread \ {kind} /\ row.new = request[r].new
       /\ row.read = [request[r].read EXCEPT ![kind] = figure]
  BY <1>6, <1>8, <1>9, <1>11 DEF Row
<1>13. KnownRow(row)
  BY <1>4, <1>12 DEF KnownRow
<1>14. \A t : Behind(request[r], t) => Behind(row, t)
  BY <1>12 DEF Behind
<1>15. ASSUME calm PROVE ReadRow(row)
  <2>1. ReadRow(request[r])
    BY <1>15 DEF SyncInv, WhileCalm, FiguresRead
  <2>2. row.read[kind] = Figure(ShiftOf(Earliest(row.todo)), kind, recorded)
    BY <1>6, <1>7, <1>11, <1>12 DEF Doing, Row
  <2>3. ASSUME NEW k \in Sources \ row.unread, k # kind PROVE row.read[k] = Figure(ShiftOf(Earliest(row.todo)), k, recorded)
    <3>1. k \in Sources \ request[r].unread
      BY <1>12, <2>3
    <3>2. row.read[k] = request[r].read[k]
      BY <1>6, <1>12, <2>3, <3>1 DEF Row
    <3> QED
      BY <1>4, <1>12, <2>1, <3>1, <3>2 DEF ReadRow
  <2> QED
    BY <2>2, <2>3 DEF ReadRow
<1> QED
  BY <1>1, <1>2, <1>5, <1>10, <1>12, <1>13, <1>14, <1>15, QuietKeeps

(* A request that is away knows nothing and reads nothing *)
LEMMA AwayRow ==
  /\ Away \in Row /\ Away.at = "away" /\ KnownRow(Away) /\ ReadRow(Away)
  /\ \A s : ~Behind(Away, s)
<1>1. Away \in Row
  BY DEF Away, Row, NoFigures, Waiting, Sources
<1>2. Away.at = "away" /\ Away.done = {} /\ Away.unread = {}
  BY DEF Away
<1> QED
  BY <1>1, <1>2 DEF KnownRow, ReadRow, Behind, Working

LEMMA StopKeeps ==
  ASSUME SyncInv, NEW r \in Requests, Stop(r)
  PROVE  SyncInv'
<1>1. /\ ~At(r, "away") /\ Continue(r, Away) /\ ~calm'
      /\ UNCHANGED <<shift, recorded, lastCounter, queue>>
  BY DEF Stop
<1>2. faults' \in 0 .. MaxFaults /\ calm' \in BOOLEAN
  BY FaultType DEF Stop, SyncInv
<1> QED
  BY <1>1, <1>2, AwayRow, QuietKeeps

LEMMA LoseAnswerKeeps ==
  ASSUME SyncInv, NEW r \in Requests, LoseAnswer(r)
  PROVE  SyncInv'
<1>1. /\ At(r, "answer") /\ ~At(r, "away") /\ Continue(r, Away)
      /\ UNCHANGED <<shift, recorded, lastCounter, queue, calm>>
  BY DEF LoseAnswer, At
<1>2. faults' \in 0 .. MaxFaults /\ calm' \in BOOLEAN /\ (calm' => calm)
  BY FaultType DEF LoseAnswer, SyncInv, TypeOK
<1>3. \A t : ~Behind(request[r], t)
  BY <1>1 DEF Behind, At
<1> QED
  BY <1>1, <1>2, <1>3, AwayRow, QuietKeeps

-----------------------------------------------------------------------------
(* An operation that is over and has written a table: what it says is on the server *)
LEMMA WrittenResult ==
  ASSUME SyncInv, NEW r \in Requests, request[r].at \in Working, Result(r, TRUE),
         ServerRows', Grows, UNCHANGED <<queue, faults, calm>>, OneOpenShift',
         NEW o, o = Doing(r), Taken(o)',
         calm => \A s \in Shifts : shift'[s].status = "closed" => Right(s)'
  PROVE  SyncInv'
<1>1. TypeOK /\ Known /\ WhileCalm /\ ~At(r, "away") /\ request[r].at \in Working \cup {"next"}
  BY DEF SyncInv, At, Working
<1>2. PICK row : Over(row, r, TRUE)
  BY <1>1, ResultRow
<1>3. row \in Row /\ Continue(r, row) /\ row.at \in {"next", "answer"} /\ row.unread = {}
      /\ (row.at = "next" => row.todo # {})
  BY <1>2 DEF Over
<1>4. ServerRows /\ \A q \in request[r].done : q \in Ops /\ Taken(q)
  BY <1>1, TypeParts DEF Known, KnownRow, Rows, Row
<1>5. \A q \in request[r].done : Taken(q)'
  BY <1>4, TakenStays
<1>6. row.done \subseteq request[r].done \cup {o}
  BY <1>2 DEF Over
<1>7. \A q \in row.done : Taken(q)'
  BY <1>5, <1>6
<1>8. KnownRow(row)' /\ ReadRow(row)'
  BY <1>3, <1>7 DEF KnownRow, ReadRow, Working
<1>9. WhileCalm'
  BY <1>1, <1>3, <1>8, CalmStays
<1>10. faults' \in 0 .. MaxFaults /\ calm' \in BOOLEAN
  BY <1>1, FaultsStay
<1> QED
  BY <1>3, <1>8, <1>9, <1>10, StepKeeps

LEMMA InsertShiftKeeps ==
  ASSUME SyncInv, NEW r \in Requests, InsertShift(r)
  PROVE  SyncInv'
<1>1. PICK o : o = Doing(r)
  OBVIOUS
<1>2. PICK s : s = ShiftOf(o)
  OBVIOUS
<1>3. /\ At(r, "insert") /\ request[r].at = "insert" /\ request[r].at \in Working /\ request[r].at \in Working \cup {"next"}
      /\ ~At(r, "away")
      /\ UNCHANGED <<recorded, lastCounter, queue, faults, calm>>
  BY DEF InsertShift, At, Working
<1>4. TypeOK /\ ServerRows /\ WhileCalm /\ OneOpenShift
  BY TypeParts DEF SyncInv
<1>5. Kind(o) = "open" /\ o \in Ops /\ s \in Shifts
  <2>1. KnownRow(request[r])
    BY DEF SyncInv, Known
  <2>2. o \in Ops
    BY <1>1, <1>3, DoingKnown DEF SyncInv
  <2> QED
    BY <1>1, <1>2, <1>3, <2>1, <2>2, OpsKnown DEF KnownRow, Doing
<1>6. \A t : ~Behind(request[r], t)
  BY <1>3, NotBehind
<1>7. \/ /\ shift[s].status = "none" /\ ~AnotherOpen(s)
         /\ shift' = [shift EXCEPT ![s].status = "open"] /\ Result(r, TRUE)
      \/ /\ shift[s].status # "none" \/ AnotherOpen(s)
         /\ Result(r, shift[s].status # "none") /\ UNCHANGED shift
  BY <1>1, <1>2 DEF InsertShift
<1>8. CASE /\ shift[s].status = "none" /\ ~AnotherOpen(s)
           /\ shift' = [shift EXCEPT ![s].status = "open"] /\ Result(r, TRUE)
  <2>1. ServerRows'
    BY <1>3, <1>4, <1>8 DEF ServerRows
  <2>2. shift'[s].status = "open" /\ \A t \in Shifts \ {s} : shift'[t] = shift[t]
    BY <1>4, <1>5, <1>8 DEF ServerRows
  <2>3. Grows
    BY <1>3, <1>4, <1>8, <2>2 DEF Grows, ServerRows
  <2>4. OneOpenShift'
    BY <1>4, <1>8, <2>2 DEF OneOpenShift, AnotherOpen
  <2>5. Taken(o)'
    BY <1>2, <1>5, <2>2 DEF Taken
  <2>6. ASSUME calm, NEW t \in Shifts, shift'[t].status = "closed" PROVE Right(t)'
    <3>1. shift'[t] = shift[t]
      BY <2>2, <2>6
    <3>2. Right(t)
      BY <1>3, <1>4, <1>6, <2>6, <3>1, OneBehind
    <3> QED
      BY <1>3, <3>1, <3>2 DEF Right
  <2> QED
    BY <1>1, <1>3, <1>8, <2>1, <2>3, <2>4, <2>5, <2>6, WrittenResult
<1>9. CASE /\ shift[s].status # "none" \/ AnotherOpen(s)
           /\ Result(r, shift[s].status # "none") /\ UNCHANGED shift
  <2>1. faults' \in 0 .. MaxFaults /\ calm' \in BOOLEAN /\ (calm' => calm)
    BY <1>3, <1>4, FaultsStay
  <2>2. PICK done \in BOOLEAN : done <=> shift[s].status # "none"
    OBVIOUS
  <2>3. done => Taken(o)
    BY <1>2, <1>5, <2>2 DEF Taken
  <2>4. CASE done
    <3>1. Result(r, TRUE)
      BY <1>9, <2>2, <2>4
    <3> QED
      BY <1>1, <1>3, <1>6, <1>9, <2>1, <2>3, <2>4, <3>1, QuietResult
  <2>5. CASE ~done
    <3>1. Result(r, FALSE)
      BY <1>9, <2>2, <2>5
    <3> QED
      BY <1>1, <1>3, <1>6, <1>9, <2>1, <2>5, <3>1, QuietResult
  <2> QED
    BY <2>4, <2>5
<1> QED
  BY <1>7, <1>8, <1>9

(* What a request has read to the end is what the shift's documents add up to *)
LEMMA ReadToTheEnd ==
  ASSUME SyncInv, calm, NEW r \in Requests, request[r].at \in {"recalculate", "close"}, request[r].unread = {}
  PROVE  Expected(request[r].read) = Expected(FiguresOf(ShiftOf(Doing(r)), recorded))
<1>1. request[r] \in Row
  BY TypeParts DEF SyncInv, Rows
<1>2. request[r].read \in [Sources -> Int]
  BY <1>1 DEF Row
<1>3. \A kind \in Sources : request[r].read[kind] = Figure(ShiftOf(Doing(r)), kind, recorded)
  BY DEF SyncInv, WhileCalm, FiguresRead, ReadRow, Doing
<1> QED
  BY <1>2, <1>3, ExpectedOfFigures

(* The shift of the operation gets the figures that were read, the others stay *)
LEMMA FiguresWritten ==
  ASSUME SyncInv, calm, NEW r \in Requests, request[r].at \in {"recalculate", "close"}, request[r].unread = {},
         NEW s, s = ShiftOf(Doing(r)), recorded' = recorded,
         shift'[s].expected = Expected(request[r].read),
         \A t \in Shifts \ {s} : shift'[t] = shift[t],
         NEW t \in Shifts, shift'[t].status = "closed"
  PROVE  Right(t)'
<1>1. CASE t = s
  <2>1. PICK figures : figures = Expected(FiguresOf(s, recorded))
    OBVIOUS
  <2>2. shift'[s].expected = figures
    BY <2>1, ReadToTheEnd
  <2>3. figures = Expected(FiguresOf(s, recorded))'
    BY <2>1
  <2> QED
    BY <1>1, <2>2, <2>3 DEF Right
<1>2. CASE t # s
  <2>1. shift'[t] = shift[t] /\ ~At(r, "away")
    BY <1>2 DEF At
  <2>2. ~Behind(request[r], t)
    BY <1>2 DEF Behind, Doing
  <2>3. Right(t)
    BY <2>1, <2>2, OneBehind DEF SyncInv
  <2> QED
    BY <2>1, <2>3 DEF Right
<1> QED
  BY <1>1, <1>2

LEMMA RecalculateKeeps ==
  ASSUME SyncInv, NEW r \in Requests, Recalculate(r)
  PROVE  SyncInv'
<1>1. PICK o : o = Doing(r)
  OBVIOUS
<1>2. PICK s : s = ShiftOf(o)
  OBVIOUS
<1>3. PICK expected : expected = Expected(request[r].read)
  OBVIOUS
<1>4. /\ request[r].at = "recalculate" /\ request[r].at \in Working /\ request[r].at \in Working \cup {"next"}
      /\ request[r].unread = {} /\ Result(r, TRUE)
      /\ UNCHANGED <<recorded, lastCounter, queue, faults, calm>>
  BY DEF Recalculate, At, Working
<1>5. shift' = [shift EXCEPT ![s].expected = expected, ![s].late = @ + 1]
  BY <1>1, <1>2, <1>3 DEF Recalculate
<1>6. TypeOK /\ ServerRows /\ OneOpenShift /\ KnownRow(request[r])
  BY TypeParts DEF SyncInv, Known
<1>7. o \in Ops /\ s \in Shifts /\ request[r] \in Row
  BY <1>1, <1>2, <1>4, DoingKnown, OpsKnown DEF SyncInv
<1>8. expected \in Int
  BY <1>3, <1>7, ExpectedType DEF Row
<1>9. Taken(o)
  BY <1>1, <1>4, <1>6 DEF KnownRow, Doing
<1>10. ServerRows'
  <2>1. PICK late : late = shift[s].late + 1
    OBVIOUS
  <2>2. late \in Nat
    BY <1>6, <1>7, <2>1 DEF ServerRows
  <2>3. shift' = [shift EXCEPT ![s] = [shift[s] EXCEPT !.expected = expected, !.late = late]]
    BY <1>5, <1>6, <1>7, <2>1 DEF ServerRows
  <2> QED
    BY <1>4, <1>6, <1>7, <1>8, <2>2, <2>3 DEF ServerRows
<1>11. /\ shift'[s].expected = expected /\ shift'[s].status = shift[s].status
       /\ \A t \in Shifts \ {s} : shift'[t] = shift[t]
  BY <1>5, <1>6, <1>7 DEF ServerRows
<1>12. Grows
  BY <1>4, <1>6, <1>11 DEF Grows, ServerRows
<1>13. Taken(o)'
  BY <1>6, <1>7, <1>9, <1>10, <1>12, TakenStays
<1>14. \A t \in Shifts : shift'[t].status = shift[t].status
  BY <1>11
<1>15. OneOpenShift'
  BY <1>6, <1>14 DEF OneOpenShift
<1>16. ASSUME calm, NEW t \in Shifts, shift'[t].status = "closed" PROVE Right(t)'
  BY <1>1, <1>2, <1>3, <1>4, <1>11, <1>16, FiguresWritten
<1> QED
  BY <1>1, <1>4, <1>10, <1>12, <1>13, <1>15, <1>16, WrittenResult

LEMMA CloseKeeps ==
  ASSUME SyncInv, NEW r \in Requests, Close(r)
  PROVE  SyncInv'
<1>1. PICK o : o = Doing(r)
  OBVIOUS
<1>2. PICK s : s = ShiftOf(o)
  OBVIOUS
<1>3. PICK expected : expected = Expected(request[r].read)
  OBVIOUS
<1>4. /\ request[r].at = "close" /\ request[r].at \in Working /\ request[r].at \in Working \cup {"next"}
      /\ request[r].unread = {} /\ Result(r, TRUE)
      /\ UNCHANGED <<recorded, lastCounter, queue, faults, calm>>
  BY DEF Close, At, Working
<1>5. shift' = [shift EXCEPT ![s].status = "closed", ![s].expected = expected]
  BY <1>1, <1>2, <1>3 DEF Close
<1>6. TypeOK /\ ServerRows /\ OneOpenShift /\ KnownRow(request[r])
  BY TypeParts DEF SyncInv, Known
<1>7. o \in Ops /\ s \in Shifts /\ request[r] \in Row
  BY <1>1, <1>2, <1>4, DoingKnown, OpsKnown DEF SyncInv
<1>8. expected \in Int
  BY <1>3, <1>7, ExpectedType DEF Row
<1>9. Kind(o) = "close"
  BY <1>1, <1>4, <1>6 DEF KnownRow, Doing
<1>10. ServerRows'
  BY <1>4, <1>5, <1>6, <1>8 DEF ServerRows
<1>11. /\ shift'[s].expected = expected /\ shift'[s].status = "closed"
       /\ \A t \in Shifts \ {s} : shift'[t] = shift[t]
  BY <1>5, <1>6, <1>7 DEF ServerRows
<1>12. Grows
  BY <1>4, <1>6, <1>11 DEF Grows, ServerRows
<1>13. Taken(o)'
  BY <1>2, <1>9, <1>11 DEF Taken
<1>14. \A t \in Shifts : shift'[t].status = "open" => shift[t].status = "open"
  BY <1>11
<1>15. OneOpenShift'
  BY <1>6, <1>14 DEF OneOpenShift
<1>16. ASSUME calm, NEW t \in Shifts, shift'[t].status = "closed" PROVE Right(t)'
  BY <1>1, <1>2, <1>3, <1>4, <1>11, <1>16, FiguresWritten
<1> QED
  BY <1>1, <1>4, <1>10, <1>12, <1>13, <1>15, <1>16, WrittenResult

LEMMA RecordKeeps ==
  ASSUME SyncInv, NEW r \in Requests, Record(r)
  PROVE  SyncInv'
<1>1. PICK o : o = Doing(r)
  OBVIOUS
<1>2. /\ request[r].at = "record" /\ request[r].at \in Working /\ request[r].at \in Working \cup {"next"} /\ ~At(r, "away")
      /\ UNCHANGED <<shift, lastCounter, queue, faults, calm>>
  BY DEF Record, At, Working
<1>3. faults' \in 0 .. MaxFaults /\ calm' \in BOOLEAN /\ (calm' => calm)
  BY <1>2, FaultsStay DEF SyncInv
<1>4. TypeOK /\ ServerRows /\ Known /\ WhileCalm /\ OneOpenShift /\ KnownRow(request[r])
  BY TypeParts DEF SyncInv, Known
<1>5. o \in Documents /\ request[r] \in Row /\ o \in Ops
  BY <1>1, <1>2, <1>4, DoingKnown DEF KnownRow, Doing, Documents
<1>6. \A t : ~Behind(request[r], t)
  BY <1>2, NotBehind
<1>7. CASE o \in recorded
  <2>1. Result(r, FALSE) /\ UNCHANGED recorded
    BY <1>1, <1>7 DEF Record
  <2> QED
    BY <1>2, <1>3, <1>6, <2>1, QuietResult
<1>8. CASE o \notin recorded
  <2>1. PICK where : where = IF Kind(o) = "sale" THEN "count" ELSE "check"
    OBVIOUS
  <2>2. PICK row : row = [request[r] EXCEPT !.new = TRUE, !.at = where]
    OBVIOUS
  <2>3. recorded' = recorded \cup {o} /\ Continue(r, row)
    BY <1>1, <1>8, <2>1, <2>2 DEF Record
  <2>4. /\ row \in Row /\ row.at = where /\ row.new /\ row.todo = request[r].todo /\ row.done = request[r].done
        /\ row.unread = request[r].unread
    BY <1>5, <2>1, <2>2 DEF Row, Working
  <2>5. ServerRows'
    BY <1>2, <1>4, <1>5, <2>3 DEF ServerRows
  <2>6. Grows
    BY <1>2, <1>4, <2>3 DEF Grows, ServerRows
  <2>7. \A q \in row.done : Taken(q)'
    <3>1. \A q \in row.done : q \in Ops /\ Taken(q)
      BY <1>4, <1>5, <2>4 DEF KnownRow, Row
    <3> QED
      BY <1>4, <2>5, <2>6, <3>1, TakenStays
  <2>8. o = Earliest(row.todo) /\ o \in recorded' /\ row.unread = {} /\ row.todo # {}
    BY <1>1, <1>2, <1>4, <2>3, <2>4 DEF Doing, KnownRow, Working
  <2>9. Kind(o) # "sale" => Taken(o)'
    BY <1>5, <2>3 DEF Taken, Documents
  <2>10. KnownRow(row)'
    <3>1. CASE Kind(o) = "sale"
      BY <2>1, <2>4, <2>7, <2>8, <3>1 DEF KnownRow
    <3>2. CASE Kind(o) # "sale"
      BY <1>5, <2>1, <2>4, <2>7, <2>8, <2>9, <3>2 DEF KnownRow
    <3> QED
      BY <3>1, <3>2
  <2>11. ReadRow(row)'
    BY <2>1, <2>4 DEF ReadRow
  <2>12. ASSUME calm', NEW t \in Shifts, shift'[t].status = "closed" PROVE Right(t)' \/ Behind(row, t)
    <3>1. CASE t = ShiftOf(o)
      BY <2>1, <2>4, <2>8, <3>1 DEF Behind
    <3>2. CASE t # ShiftOf(o)
      <4>1. Right(t)
        BY <1>2, <1>3, <1>4, <1>6, <2>12, OneBehind
      <4>2. PICK docs : docs = recorded
        OBVIOUS
      <4>3. \A kind \in Sources : Figure(t, kind, docs \cup {o}) = Figure(t, kind, docs)
        BY <3>2, FigureOfOthers
      <4>4. FiguresOf(t, docs \cup {o}) = FiguresOf(t, docs)
        BY <4>3 DEF FiguresOf
      <4>5. shift'[t].expected = Expected(FiguresOf(t, docs \cup {o}))
        BY <1>2, <4>1, <4>2, <4>4 DEF Right
      <4>6. recorded' = docs \cup {o}
        BY <2>3, <4>2
      <4>7. Right(t)'
        BY <4>5, <4>6 DEF Right
      <4> QED
        BY <4>7
    <3> QED
      BY <3>1, <3>2
  <2>13. WhileCalm'
    BY <1>2, <1>3, <1>4, <2>3, <2>4, <2>11, <2>12, CalmStays
  <2>14. OneOpenShift'
    BY <1>2, <1>4 DEF OneOpenShift
  <2> QED
    BY <1>2, <1>3, <2>3, <2>4, <2>5, <2>6, <2>10, <2>13, <2>14, StepKeeps
<1> QED
  BY <1>7, <1>8

LEMMA RaiseCounterKeeps ==
  ASSUME SyncInv, NEW r \in Requests, RaiseCounter(r)
  PROVE  SyncInv'
<1>1. PICK o : o = Doing(r)
  OBVIOUS
<1>2. /\ request[r].at = "count" /\ request[r].at \in Working /\ request[r].at \in Working \cup {"next"} /\ ~At(r, "away")
      /\ UNCHANGED <<shift, recorded, queue, faults, calm>>
  BY DEF RaiseCounter, At, Working
<1>3. faults' \in 0 .. MaxFaults /\ calm' \in BOOLEAN /\ (calm' => calm)
  BY <1>2, FaultsStay DEF SyncInv
<1>4. TypeOK /\ ServerRows /\ Known /\ WhileCalm /\ OneOpenShift /\ KnownRow(request[r])
  BY TypeParts DEF SyncInv, Known
<1>5. request[r] \in Row /\ o \in Ops /\ Kind(o) = "sale" /\ o \in recorded
  BY <1>1, <1>2, <1>4, DoingKnown DEF KnownRow, Doing
<1>6. PICK number : number = Operations[o].number
  OBVIOUS
<1>7. number \in Nat /\ lastCounter \in Nat
  BY <1>4, <1>5, <1>6, OpsKnown DEF ServerRows
<1>8. lastCounter' = Larger(lastCounter, number)
  BY <1>1, <1>6 DEF RaiseCounter
<1>9. lastCounter' \in Nat /\ lastCounter' >= lastCounter /\ lastCounter' >= number
  BY <1>7, <1>8 DEF Larger
<1>10. ServerRows'
  BY <1>2, <1>4, <1>9 DEF ServerRows
<1>11. Grows
  BY <1>2, <1>9 DEF Grows
<1>12. Taken(o)'
  BY <1>2, <1>5, <1>6, <1>9 DEF Taken
<1>13. OneOpenShift'
  BY <1>2, <1>4 DEF OneOpenShift
<1>14. ASSUME NEW t, Right(t) PROVE Right(t)'
  BY <1>2, <1>14 DEF Right
<1>15. CASE request[r].new
  <2>1. PICK row : row = [request[r] EXCEPT !.at = "check"]
    OBVIOUS
  <2>2. Continue(r, row)
    BY <1>15, <2>1 DEF RaiseCounter, GoTo
  <2>3. /\ row \in Row /\ row.at = "check" /\ row.todo = request[r].todo /\ row.done = request[r].done
        /\ row.unread = request[r].unread
    BY <1>5, <2>1 DEF Row, Working
  <2>4. \A q \in row.done : Taken(q)'
    <3>1. \A q \in row.done : q \in Ops /\ Taken(q)
      BY <1>4, <1>5, <2>3 DEF KnownRow, Row
    <3> QED
      BY <1>4, <1>10, <1>11, <3>1, TakenStays
  <2>5. o = Earliest(row.todo) /\ o \in Documents /\ row.unread = {} /\ row.todo # {}
    BY <1>1, <1>2, <1>4, <1>5, <2>3 DEF Doing, KnownRow, Working, Documents
  <2>6. KnownRow(row)'
    BY <1>12, <2>3, <2>4, <2>5 DEF KnownRow
  <2>7. ReadRow(row)'
    BY <2>3 DEF ReadRow
  <2>8. ASSUME calm', NEW t \in Shifts, shift'[t].status = "closed" PROVE Right(t)' \/ Behind(row, t)
    <3>1. Right(t) \/ Behind(request[r], t)
      BY <1>2, <1>3, <1>4, <2>8, OneBehind
    <3>2. Behind(request[r], t) => Behind(row, t)
      BY <2>3 DEF Behind
    <3> QED
      BY <1>14, <3>1, <3>2
  <2>9. WhileCalm'
    BY <1>2, <1>3, <1>4, <2>2, <2>3, <2>7, <2>8, CalmStays
  <2> QED
    BY <1>2, <1>3, <1>10, <1>11, <1>13, <2>2, <2>3, <2>6, <2>9, StepKeeps
<1>16. CASE ~request[r].new
  <2>1. Result(r, TRUE)
    BY <1>16 DEF RaiseCounter
  <2>2. \A t : ~Behind(request[r], t)
    BY <1>2, <1>16 DEF Behind
  <2>3. ASSUME calm, NEW t \in Shifts, shift'[t].status = "closed" PROVE Right(t)'
    <3>1. Right(t)
      BY <1>2, <1>4, <2>2, <2>3, OneBehind
    <3> QED
      BY <1>14, <3>1
  <2> QED
    BY <1>1, <1>2, <1>10, <1>11, <1>12, <1>13, <2>1, <2>3, WrittenResult
<1> QED
  BY <1>15, <1>16

-----------------------------------------------------------------------------
(* The head of a queue that is not empty holds an operation: the earliest one *)
LEMMA HeadOfQueue ==
  ASSUME NEW os \in SUBSET Ops, os # {}
  PROVE  FirstOf(os) # {} /\ FirstOf(os) \in SUBSET Ops
<1>1. os \subseteq Nat
  BY OpsKnown
<1>2. PICK o \in os : \A q \in os : <<q, o>> \notin OpToRel(<, Nat)
  BY <1>1, WFMin, NatLessThanWellFounded, Zenon
<1>3. \A q \in os : ~(q < o)
  BY <1>1, <1>2, Zenon DEF OpToRel
<1>4. {q \in os : q < o} = {}
  BY <1>3
<1>5. Cardinality({q \in os : q < o}) = 0
  BY <1>4, FS_EmptySet
<1>6. 0 < MaxOperations
  BY SyncAssumption
<1>7. o \in FirstOf(os)
  BY <1>5, <1>6 DEF FirstOf
<1> QED
  BY <1>7 DEF FirstOf

LEMMA SendKeeps ==
  ASSUME SyncInv, NEW r \in Requests, Send(r)
  PROVE  SyncInv'
<1>1. /\ request[r].at = "away" /\ queue # {}
      /\ calm' = (calm /\ \A q \in Requests : At(q, "away"))
      /\ UNCHANGED <<shift, recorded, lastCounter, queue, faults>>
  BY DEF Send, At
<1>2. TypeOK /\ ServerRows /\ Rows /\ OneOpenShift /\ WhileCalm
  BY TypeParts DEF SyncInv
<1>3. PICK todo : todo = FirstOf(queue)
  OBVIOUS
<1>4. todo # {} /\ todo \in SUBSET Ops
  BY <1>1, <1>2, <1>3, HeadOfQueue DEF TypeOK
<1>5. PICK row : row = [Away EXCEPT !.at = "next", !.todo = todo]
  OBVIOUS
<1>6. Continue(r, row)
  BY <1>3, <1>5 DEF Send
<1>7. row \in Row /\ row.at = "next" /\ row.todo = todo /\ row.done = {} /\ row.unread = {}
  BY <1>4, <1>5, AwayRow DEF Row, Waiting, Away
<1>8. ServerRows' /\ Grows /\ OneOpenShift'
  BY <1>1, <1>2 DEF ServerRows, Grows, OneOpenShift
<1>9. KnownRow(row)'
  BY <1>4, <1>7 DEF KnownRow
<1>10. calm' \in BOOLEAN /\ faults' \in 0 .. MaxFaults
  BY <1>1, <1>2 DEF TypeOK
<1>11. request'[r] = row /\ \A q \in Requests \ {r} : request'[q] = request[q]
  BY <1>2, <1>6, <1>7, RowWritten
<1>12. WhileCalm'
  <2> SUFFICES ASSUME calm' PROVE Alone' /\ FiguresRead' /\ ClosedRight'
    BY DEF WhileCalm
  <2>1. calm /\ \A q \in Requests : request[q].at = "away"
    BY <1>1 DEF At
  <2>2. Alone'
    BY <1>11, <2>1 DEF Alone, At
  <2>3. FiguresRead'
    <3> SUFFICES ASSUME NEW q \in Requests PROVE ReadRow(request[q])'
      BY DEF FiguresRead
    <3>1. request'[q].at \in {"away", "next"}
      BY <1>7, <1>11, <2>1
    <3> QED
      BY <3>1 DEF ReadRow
  <2>4. ClosedRight'
    <3> SUFFICES ASSUME NEW s \in Shifts, shift'[s].status = "closed" PROVE Right(s)'
      BY DEF ClosedRight
    <3>1. \A q \in Requests : ~Behind(request[q], s)
      BY <2>1 DEF Behind
    <3>2. Right(s)
      BY <1>1, <1>2, <2>1, <3>1 DEF WhileCalm, ClosedRight
    <3> QED
      BY <1>1, <3>2 DEF Right
  <2> QED
    BY <2>2, <2>3, <2>4
<1> QED
  BY <1>1, <1>6, <1>7, <1>8, <1>9, <1>10, <1>12, StepKeeps

LEMMA AnswerKeeps ==
  ASSUME SyncInv, NEW r \in Requests, Answer(r)
  PROVE  SyncInv'
<1>1. /\ request[r].at = "answer" /\ ~At(r, "away") /\ Continue(r, Away) /\ queue' = queue \ request[r].done
      /\ UNCHANGED <<shift, recorded, lastCounter, faults, calm>>
  BY DEF Answer, At
<1>2. TypeOK /\ ServerRows /\ Rows /\ Known /\ WhileCalm /\ OneOpenShift /\ DroppedIsRecorded
  BY TypeParts DEF SyncInv
<1>3. ServerRows' /\ Grows /\ OneOpenShift'
  BY <1>1, <1>2 DEF ServerRows, Grows, OneOpenShift
<1>4. Away \in Row /\ KnownRow(Away) /\ ReadRow(Away)
  BY AwayRow
<1>5. KnownRow(Away)' /\ ReadRow(Away)'
  BY <1>1, <1>4 DEF KnownRow, Taken, ReadRow
<1>6. Known'
  BY <1>1, <1>2, <1>3, <1>4, <1>5, RowKnown
<1>7. TypeOK'
  <2>1. Rows'
    BY <1>1, <1>2, <1>4, RowWritten
  <2> QED
    BY <1>1, <1>2, <1>3, <2>1, TypePartsNext DEF TypeOK
<1>8. DroppedIsRecorded'
  <2> SUFFICES ASSUME NEW o \in Ops, o \notin queue' PROVE Taken(o)'
    BY DEF DroppedIsRecorded
  <2>1. Taken(o)
    BY <1>1, <1>2 DEF DroppedIsRecorded, Known, KnownRow
  <2> QED
    BY <1>2, <1>3, <2>1, TakenStays
<1>9. WhileCalm'
  <2>1. ASSUME calm', NEW s \in Shifts, shift'[s].status = "closed" PROVE Right(s)'
    <3>1. ~Behind(request[r], s)
      BY <1>1 DEF Behind
    <3>2. Right(s)
      BY <1>1, <1>2, <2>1, <3>1, OneBehind
    <3> QED
      BY <1>1, <3>2 DEF Right
  <2> QED
    BY <1>1, <1>2, <1>4, <1>5, <2>1, CalmStays
<1> QED
  BY <1>3, <1>6, <1>7, <1>8, <1>9 DEF SyncInv

-----------------------------------------------------------------------------
LEMMA SyncInit == Init => SyncInv
<1> SUFFICES ASSUME Init PROVE SyncInv
  OBVIOUS
<1>1. request = [r \in Requests |-> Away] /\ \A r \in Requests : request[r] = Away
  BY DEF Init
<1>2. TypeOK
  <2>1. Rows
    BY <1>1, AwayRow DEF Rows
  <2>2. ServerRows
    BY DEF Init, ServerRows
  <2>3. faults \in 0 .. MaxFaults /\ queue \subseteq Ops /\ calm \in BOOLEAN
    BY SyncAssumption DEF Init
  <2> QED
    BY <2>1, <2>2, <2>3, TypeParts
<1>3. OneOpenShift /\ DroppedIsRecorded
  BY DEF Init, OneOpenShift, DroppedIsRecorded
<1>4. Known
  BY <1>1, AwayRow DEF Known
<1>5. WhileCalm
  <2>1. Alone
    BY <1>1, AwayRow DEF Alone, At
  <2>2. FiguresRead
    BY <1>1, AwayRow DEF FiguresRead
  <2>3. ClosedRight
    BY DEF Init, ClosedRight
  <2> QED
    BY <2>1, <2>2, <2>3 DEF WhileCalm
<1> QED
  BY <1>2, <1>3, <1>4, <1>5 DEF SyncInv

LEMMA SyncStutters == SyncInv /\ UNCHANGED vars => SyncInv'
<1> SUFFICES ASSUME SyncInv, UNCHANGED vars PROVE SyncInv'
  OBVIOUS
<1>1. UNCHANGED <<shift, recorded, lastCounter, queue, request, faults, calm>>
  BY DEF vars
<1>2. TypeOK' /\ OneOpenShift'
  BY <1>1 DEF SyncInv, TypeOK, OneOpenShift
<1>3. DroppedIsRecorded' /\ Known'
  BY <1>1 DEF SyncInv, DroppedIsRecorded, Known, KnownRow, Taken
<1>4. Alone' <=> Alone
  BY <1>1 DEF Alone, At
<1>5. FiguresRead' <=> FiguresRead
  BY <1>1 DEF FiguresRead, ReadRow
<1>6. ClosedRight' <=> ClosedRight
  BY <1>1 DEF ClosedRight, Right, Behind
<1>7. WhileCalm'
  BY <1>1, <1>4, <1>5, <1>6 DEF SyncInv, WhileCalm
<1> QED
  BY <1>2, <1>3, <1>7 DEF SyncInv

LEMMA SyncKeeps == SyncInv /\ [Next]_vars => SyncInv'
<1> SUFFICES ASSUME SyncInv, [Next]_vars PROVE SyncInv'
  OBVIOUS
<1>1. CASE UNCHANGED vars
  BY <1>1, SyncStutters
<1>2. CASE Next
  <2>1. PICK r \in Requests : Send(r) \/ Step(r) \/ Refuse(r) \/ Fail(r) \/ Stop(r) \/ LoseAnswer(r)
    BY <1>2 DEF Next
  <2>2. CASE Step(r)
    BY <2>2, FindShiftKeeps, InsertShiftKeeps, FindDocumentKeeps, RecordKeeps, RaiseCounterKeeps, CheckClosedKeeps,
       ReadFiguresKeeps, RecalculateKeeps, StartCloseKeeps, CloseKeeps, AnswerKeeps DEF Step
  <2> QED
    BY <2>1, <2>2, SendKeeps, RefuseKeeps, FailKeeps, StopKeeps, LoseAnswerKeeps
<1> QED
  BY <1>1, <1>2

(* No upload of a queue, whatever overlaps, stops, fails or is lost, leaves a    *)
(* device with two open shifts; and as long as no two uploads overlap and none    *)
(* stops between two statements, a closed shift carries the figures of its        *)
(* documents whenever no upload is at work, also of those that arrived after it   *)
(* was closed (closeShift, recalculateIfClosed).                                  *)
THEOREM ShiftsCorrect == Spec => []ShiftsAddUp
<1>1. SyncInv => ShiftsAddUp
  <2> SUFFICES ASSUME SyncInv PROVE ShiftsAddUp
    OBVIOUS
  <2>1. ASSUME calm, \A r \in Requests : At(r, "away"), NEW s \in Shifts, shift[s].status = "closed"
        PROVE  shift[s].expected = Expected(FiguresOf(s, recorded))
    <3>1. \A r \in Requests : ~Behind(request[r], s)
      BY <2>1 DEF Behind, At
    <3> QED
      BY <2>1, <3>1 DEF SyncInv, WhileCalm, ClosedRight, Right
  <2> QED
    BY <2>1 DEF SyncInv, ShiftsAddUp, FiguresFollowDocuments
<1> QED
  BY <1>1, SyncInit, SyncKeeps, PTL DEF Spec

(* Whatever the screen has dropped from its queue is on the server, and the       *)
(* counter covers the numbers of those sales, whatever was interrupted, repeated   *)
(* or overlapped (syncDevice, raiseCounter).                                       *)
THEOREM NothingDropped == Spec => []DroppedIsRecorded
<1>1. SyncInv => DroppedIsRecorded
  BY DEF SyncInv
<1> QED
  BY <1>1, SyncInit, SyncKeeps, PTL DEF Spec

-----------------------------------------------------------------------------
(***************************************************************************)
(* The restaurant.  What a request is about to save fits the row it was read *)
(* from: a ticket's times are those of its new status, whatever the status   *)
(* has become meanwhile; and while no two requests about tables overlap, the *)
(* names about to be saved are still free.                                   *)
(***************************************************************************)
FitTimes(x) ==
  CASE x.status = "new" -> ~x.started /\ x.readyAt = Unset /\ ~x.served
    [] x.status = "preparing" -> x.started /\ x.readyAt = Unset /\ ~x.served
    [] x.status = "ready" -> x.started /\ x.readyAt # Unset /\ ~x.served
    [] x.status = "served" -> x.readyAt # Unset /\ x.served
    [] OTHER -> x.readyAt = Unset /\ ~x.served

Clash(x, y) ==
  /\ ~x.removed /\ ~y.removed
  /\ x.branchId = y.branchId \/ AllHalls \in {x.branchId, y.branchId}
  /\ x.name = y.name

TicketRows ==
  /\ Sent \subseteq Tickets
  /\ \A k \in Sent : tickets[k] \in KitchenOrder /\ FitTimes(tickets[k])
TableRows == DOMAIN tables \subseteq Tables /\ \A t \in DOMAIN tables : tables[t] \in DiningTable
SentClocks == sentClock \in [Tickets -> TimeOrUnset] /\ kitchenTime \in 0 .. LastKitchenTime

PendingStatus(step) ==
  step.at = "status" => step.of \in Sent /\ step.row \in KitchenOrder /\ FitTimes(step.row)
PendingTables(step) ==
  step.at = "tables" => DOMAIN step.rows \subseteq Tables /\ \A t \in DOMAIN step.rows : step.rows[t] \in DiningTable
PendingSteps ==
  /\ staff = [a \in Staff |-> staff[a]]
  /\ \A a \in Staff : PendingStatus(staff[a]) /\ PendingTables(staff[a])

FreeNames(rows) ==
  /\ \A t \in DOMAIN rows, u \in DOMAIN tables \ DOMAIN rows : ~Clash(rows[t], tables[u])
  /\ \A t, u \in DOMAIN rows : t # u => ~Clash(rows[t], rows[u])
WhileQuiet ==
  quiet => /\ \A t, u \in DOMAIN tables : t # u => ~Clash(tables[t], tables[u])
           /\ \A a, b \in Staff : AtTables(a) /\ AtTables(b) => a = b
           /\ \A a \in Staff : AtTables(a) => FreeNames(staff[a].rows)

KitchenInv == TableRows /\ TicketRows /\ SentClocks /\ PendingSteps /\ WhileQuiet

(* A clash is of both sides *)
LEMMA ClashIsMutual ==
  ASSUME NEW x, NEW y, Clash(x, y) PROVE Clash(y, x)
BY DEF Clash

LEMMA KitchenInitially == KitchenInit => KitchenInv
<1> SUFFICES ASSUME KitchenInit PROVE KitchenInv
  OBVIOUS
<1>1. TableRows /\ TicketRows
  BY DEF KitchenInit, TableRows, TicketRows, Sent
<1>2. SentClocks
  BY KitchenAssumption DEF KitchenInit, SentClocks, TimeOrUnset, KitchenAssumption
<1>3. \A a \in Staff : staff[a].at = "none"
  BY DEF KitchenInit, AtEase
<1>4. PendingSteps
  BY <1>3 DEF KitchenInit, PendingSteps, PendingStatus, PendingTables
<1>5. WhileQuiet
  BY <1>3 DEF KitchenInit, WhileQuiet, AtTables
<1> QED
  BY <1>1, <1>2, <1>4, <1>5 DEF KitchenInv

(* What leaves the tables' requests alone keeps their names apart *)
LEMMA QuietTables ==
  ASSUME WhileQuiet, UNCHANGED <<tables, quiet>>,
         \A a \in Staff : AtTables(a)' => AtTables(a) /\ staff'[a] = staff[a]
  PROVE  WhileQuiet'
BY DEF WhileQuiet, AtTables, FreeNames

LEMMA TakeUpTablesKeeps ==
  ASSUME KitchenInv, NEW a \in Staff, NEW rows, TakeUpTables(a, rows),
         DOMAIN rows \subseteq Tables, \A t \in DOMAIN rows : rows[t] \in DiningTable,
         quiet => FreeNames(rows)
  PROVE  KitchenInv'
<1> DEFINE step == [at |-> "tables", rows |-> rows]
<1>1. staff' = [staff EXCEPT ![a] = step] /\ UNCHANGED <<tables, tickets, sentClock, kitchenTime>>
  BY DEF TakeUpTables, TakeUp
<1>2. step.at = "tables" /\ step.rows = rows
  OBVIOUS
<1> HIDE DEF step
<1>3. staff'[a] = step /\ \A b \in Staff \ {a} : staff'[b] = staff[b]
  BY <1>1 DEF KitchenInv, PendingSteps
<1>4. TableRows' /\ TicketRows' /\ SentClocks'
  BY <1>1 DEF KitchenInv, TableRows, TicketRows, SentClocks, Sent
<1>5. PendingSteps'
  <2>1. PendingStatus(step)' /\ PendingTables(step)'
    BY <1>2 DEF PendingStatus, PendingTables
  <2>2. \A b \in Staff : PendingStatus(staff[b])' /\ PendingTables(staff[b])'
    BY <1>1, <1>3, <2>1 DEF KitchenInv, PendingSteps, PendingStatus, PendingTables, Sent
  <2> QED
    BY <1>1, <2>2 DEF KitchenInv, PendingSteps
<1>6. WhileQuiet'
  <2> SUFFICES ASSUME quiet' PROVE WhileQuiet'
    BY DEF WhileQuiet
  <2>1. quiet /\ \A b \in Staff : ~AtTables(b)
    BY DEF TakeUpTables
  <2>2. \A b \in Staff : AtTables(b)' => b = a
    BY <1>3, <2>1 DEF AtTables
  <2>3. FreeNames(staff[a].rows)'
    BY <1>1, <1>2, <1>3, <2>1 DEF FreeNames
  <2> QED
    BY <1>1, <2>1, <2>2, <2>3 DEF KitchenInv, WhileQuiet
<1> QED
  BY <1>4, <1>5, <1>6 DEF KitchenInv

LEMMA BeginCreateTablesKeeps ==
  ASSUME KitchenInv, NEW a \in Staff, NEW b \in Halls \cup {AllHalls},
         NEW new \in SUBSET Tables, NEW named \in [new -> Names], BeginCreateTables(a, b, named)
  PROVE  KitchenInv'
<1> DEFINE rows == [t \in DOMAIN named |-> [name |-> named[t], branchId |-> b, removed |-> FALSE]]
<1>1. DOMAIN rows = new /\ \A t \in new : rows[t] = [name |-> named[t], branchId |-> b, removed |-> FALSE]
  OBVIOUS
<1>2. \A t \in new : rows[t].name = named[t] /\ rows[t].branchId = b /\ ~rows[t].removed /\ rows[t] \in DiningTable
  BY <1>1 DEF DiningTable
<1>3. TakeUpTables(a, rows)
  BY DEF BeginCreateTables
<1>4. new \cap DOMAIN tables = {}
  BY DEF BeginCreateTables
<1> HIDE DEF rows
<1>5. FreeNames(rows)
  <2>1. ASSUME NEW t \in DOMAIN rows, NEW u \in DOMAIN tables \ DOMAIN rows, Clash(rows[t], tables[u])
        PROVE  FALSE
    <3>1. u \in SameScope(b) \ {t}
      BY <1>1, <1>2, <2>1 DEF SameScope, Clash
    <3>2. tables[u].name # named[t]
      BY <1>1, <3>1 DEF BeginCreateTables, NameFree
    <3> QED
      BY <1>1, <1>2, <2>1, <3>2 DEF Clash
  <2>2. ASSUME NEW t \in DOMAIN rows, NEW u \in DOMAIN rows, t # u, Clash(rows[t], rows[u])
        PROVE  FALSE
    BY <1>1, <1>2, <2>2 DEF Clash, BeginCreateTables
  <2> QED
    BY <2>1, <2>2 DEF FreeNames
<1> QED
  BY <1>1, <1>2, <1>3, <1>5, TakeUpTablesKeeps

LEMMA BeginUpdateTableKeeps ==
  ASSUME KitchenInv, NEW a \in Staff, NEW b \in Halls \cup {AllHalls}, NEW t \in Tables, NEW name \in Names,
         BeginUpdateTable(a, t, name, b)
  PROVE  KitchenInv'
<1> DEFINE row == [name |-> name, branchId |-> b, removed |-> FALSE]
           rows == [x \in {t} |-> row]
<1>1. row.name = name /\ row.branchId = b /\ ~row.removed /\ row \in DiningTable
  BY DEF DiningTable
<1>2. TakeUpTables(a, rows)
  BY DEF BeginUpdateTable
<1> HIDE DEF row
<1>3. DOMAIN rows = {t} /\ rows[t] = row
  OBVIOUS
<1> HIDE DEF rows
<1>4. FreeNames(rows)
  <2>1. ASSUME NEW u \in DOMAIN tables \ {t}, Clash(row, tables[u])
        PROVE  FALSE
    <3>1. u \in SameScope(b) \ {t}
      BY <1>1, <2>1 DEF SameScope, Clash
    <3>2. tables[u].name # name
      BY <3>1 DEF BeginUpdateTable, NameFree
    <3> QED
      BY <1>1, <2>1, <3>2 DEF Clash
  <2> QED
    BY <1>3, <2>1 DEF FreeNames
<1> QED
  BY <1>1, <1>2, <1>3, <1>4, TakeUpTablesKeeps

(* A request that ends leaves the others as they are *)
LEMMA LayingDown ==
  ASSUME PendingSteps, NEW a \in Staff, LayDown(a), Sent \subseteq Sent'
  PROVE  /\ PendingSteps'
         /\ staff'[a].at = "none"
         /\ \A b \in Staff \ {a} : staff'[b] = staff[b]
<1>1. AtEase.at = "none"
  BY DEF AtEase
<1>2. staff'[a] = AtEase /\ \A b \in Staff \ {a} : staff'[b] = staff[b]
  BY DEF PendingSteps, LayDown
<1>3. \A b \in Staff : PendingStatus(staff[b])' /\ PendingTables(staff[b])'
  BY <1>1, <1>2 DEF PendingSteps, PendingStatus, PendingTables
<1>4. staff' = [b \in Staff |-> staff'[b]]
  BY DEF PendingSteps, LayDown
<1> QED
  BY <1>1, <1>2, <1>3, <1>4 DEF PendingSteps

LEMMA SaveTablesKeeps ==
  ASSUME KitchenInv, NEW a \in Staff, SaveTables(a)
  PROVE  KitchenInv'
<1>1. PICK rows : rows = staff[a].rows
  OBVIOUS
<1>2. AtTables(a) /\ LayDown(a) /\ UNCHANGED <<tickets, sentClock, kitchenTime, quiet>>
  BY DEF SaveTables
<1>3. DOMAIN tables' = DOMAIN tables \cup DOMAIN rows
  BY <1>1 DEF SaveTables
<1>4. \A t \in DOMAIN tables' : tables'[t] = IF t \in DOMAIN rows THEN rows[t] ELSE tables[t]
  BY <1>1 DEF SaveTables
<1>5. DOMAIN rows \subseteq Tables /\ \A t \in DOMAIN rows : rows[t] \in DiningTable
  BY <1>1, <1>2 DEF KitchenInv, PendingSteps, PendingTables, AtTables
<1>6. TableRows'
  BY <1>3, <1>4, <1>5 DEF KitchenInv, TableRows
<1>7. TicketRows' /\ SentClocks' /\ Sent' = Sent
  BY <1>2 DEF KitchenInv, TicketRows, SentClocks, Sent
<1>8. /\ PendingSteps' /\ staff'[a].at = "none"
      /\ \A b \in Staff \ {a} : staff'[b] = staff[b]
  BY <1>2, <1>7, LayingDown DEF KitchenInv
<1>9. WhileQuiet'
  <2> SUFFICES ASSUME quiet' PROVE WhileQuiet'
    BY DEF WhileQuiet
  <2>1. FreeNames(rows) /\ \A t, u \in DOMAIN tables : t # u => ~Clash(tables[t], tables[u])
    BY <1>1, <1>2 DEF KitchenInv, WhileQuiet
  <2>2. \A b \in Staff : ~AtTables(b)'
    BY <1>2, <1>8 DEF KitchenInv, WhileQuiet, AtTables
  <2>3. ASSUME NEW t \in DOMAIN tables', NEW u \in DOMAIN tables', t # u
        PROVE  ~Clash(tables'[t], tables'[u])
    <3>1. CASE t \in DOMAIN rows /\ u \in DOMAIN rows
      BY <1>4, <2>1, <2>3, <3>1 DEF FreeNames
    <3>2. CASE t \in DOMAIN rows /\ u \notin DOMAIN rows
      BY <1>3, <1>4, <2>1, <3>2 DEF FreeNames
    <3>3. CASE t \notin DOMAIN rows /\ u \in DOMAIN rows
      <4>1. ~Clash(rows[u], tables[t])
        BY <1>3, <2>1, <3>3 DEF FreeNames
      <4>2. tables'[t] = tables[t] /\ tables'[u] = rows[u]
        BY <1>4, <3>3
      <4> QED
        BY <4>1, <4>2, ClashIsMutual
    <3>4. CASE t \notin DOMAIN rows /\ u \notin DOMAIN rows
      BY <1>3, <1>4, <2>1, <2>3, <3>4
    <3> QED
      BY <3>1, <3>2, <3>3, <3>4
  <2> QED
    BY <2>2, <2>3 DEF WhileQuiet, Clash
<1> QED
  BY <1>6, <1>7, <1>8, <1>9 DEF KitchenInv

LEMMA RemoveTableKeeps ==
  ASSUME KitchenInv, NEW t \in Tables, RemoveTable(t)
  PROVE  KitchenInv'
<1>1. /\ DOMAIN tables' = DOMAIN tables
      /\ \A u \in DOMAIN tables \ {t} : tables'[u] = tables[u]
      /\ tables'[t] = [tables[t] EXCEPT !.removed = TRUE]
      /\ t \in DOMAIN tables
  BY DEF RemoveTable
<1>2. UNCHANGED <<tickets, sentClock, staff, kitchenTime, quiet>>
  BY DEF RemoveTable
<1>3. tables[t] \in DiningTable
  BY <1>1 DEF KitchenInv, TableRows
<1>4. tables'[t].removed /\ tables'[t] \in DiningTable
  BY <1>1, <1>3 DEF DiningTable
<1>5. \A x : \A u \in DOMAIN tables : Clash(x, tables'[u]) => u # t /\ Clash(x, tables[u])
  BY <1>1, <1>4 DEF Clash
<1>6. \A x : \A u \in DOMAIN tables : Clash(tables'[u], x) => u # t /\ Clash(tables[u], x)
  BY <1>1, <1>4 DEF Clash
<1>7. TableRows'
  BY <1>1, <1>4 DEF KitchenInv, TableRows
<1>8. TicketRows' /\ SentClocks' /\ PendingSteps'
  BY <1>2 DEF KitchenInv, TicketRows, SentClocks, Sent, PendingSteps, PendingStatus, PendingTables
<1>9. WhileQuiet'
  <2> SUFFICES ASSUME quiet' PROVE WhileQuiet'
    BY DEF WhileQuiet
  <2>1. quiet
    BY <1>2
  <2>2. ASSUME NEW u \in DOMAIN tables', NEW v \in DOMAIN tables', u # v, Clash(tables'[u], tables'[v])
        PROVE  FALSE
    <3>1. Clash(tables[u], tables[v])
      BY <1>1, <1>5, <1>6, <2>2
    <3> QED
      BY <1>1, <2>1, <2>2, <3>1 DEF KitchenInv, WhileQuiet
  <2>3. ASSUME NEW a \in Staff, AtTables(a)'
        PROVE  FreeNames(staff[a].rows)'
    <3>1. PICK rows : rows = staff[a].rows /\ rows = staff'[a].rows
      BY <1>2
    <3>2. FreeNames(rows)
      BY <1>2, <2>1, <2>3, <3>1 DEF KitchenInv, WhileQuiet, AtTables
    <3>3. \A u \in DOMAIN tables' \ DOMAIN rows, x \in DOMAIN rows : ~Clash(rows[x], tables'[u])
      BY <1>1, <1>5, <3>2 DEF FreeNames
    <3>4. FreeNames(rows)'
      BY <3>2, <3>3 DEF FreeNames, Clash
    <3> QED
      BY <3>1, <3>4
  <2>4. \A a, b \in Staff : AtTables(a)' /\ AtTables(b)' => a = b
    BY <1>2, <2>1 DEF KitchenInv, WhileQuiet, AtTables
  <2> QED
    BY <2>2, <2>3, <2>4 DEF WhileQuiet, Clash
<1> QED
  BY <1>7, <1>8, <1>9 DEF KitchenInv

-----------------------------------------------------------------------------
LEMMA SendTicketKeeps ==
  ASSUME KitchenInv, NEW k \in Tickets, NEW at \in 0 .. LastKitchenTime, SendTicket(k, at)
  PROVE  KitchenInv'
<1>1. UNCHANGED <<tables, tickets, staff, kitchenTime, quiet>>
  BY DEF SendTicket
<1>2. SentClocks'
  BY KitchenAssumption DEF SendTicket, KitchenInv, SentClocks, TimeOrUnset
<1>3. TableRows' /\ TicketRows' /\ PendingSteps'
  BY <1>1 DEF KitchenInv, TableRows, TicketRows, Sent, PendingSteps, PendingStatus, PendingTables
<1>4. WhileQuiet'
  BY <1>1, QuietTables DEF KitchenInv, AtTables
<1> QED
  BY <1>2, <1>3, <1>4 DEF KitchenInv

LEMMA KitchenTickKeeps ==
  ASSUME KitchenInv, KitchenTick
  PROVE  KitchenInv'
<1>1. UNCHANGED <<tables, tickets, staff, sentClock, quiet>>
  BY DEF KitchenTick
<1>2. SentClocks'
  BY KitchenAssumption DEF KitchenTick, KitchenInv, SentClocks, TimeOrUnset, KitchenAssumption
<1>3. TableRows' /\ TicketRows' /\ PendingSteps'
  BY <1>1 DEF KitchenInv, TableRows, TicketRows, Sent, PendingSteps, PendingStatus, PendingTables
<1>4. WhileQuiet'
  BY <1>1, QuietTables DEF KitchenInv, AtTables
<1> QED
  BY <1>2, <1>3, <1>4 DEF KitchenInv

(* The time a ticket is recorded with is one of the till's or of now, and the    *)
(* board shows it, but for a ticket that is a day old to the tick               *)
LEMMA RecordTicketKeeps ==
  ASSUME KitchenInv, NEW k \in Tickets, RecordTicket(k)
  PROVE  KitchenInv' /\ NewOnBoard
<1> DEFINE row == [status |-> "new", started |-> FALSE, readyAt |-> Unset, served |-> FALSE,
                   sentAt |-> SentTime(sentClock[k])]
<1>1. UNCHANGED <<tables, sentClock, staff, kitchenTime, quiet>> /\ k \notin Sent
  BY DEF RecordTicket
<1>2. /\ Sent' = Sent \cup {k} /\ tickets'[k] = row
      /\ \A x \in Sent : tickets'[x] = tickets[x]
  BY <1>1 DEF RecordTicket, Sent
<1>3. sentClock[k] \in 0 .. LastKitchenTime /\ kitchenTime \in 0 .. LastKitchenTime
  BY DEF KitchenInv, SentClocks, TimeOrUnset, RecordTicket
<1>4. SentTime(sentClock[k]) \in 0 .. LastKitchenTime
  BY <1>3 DEF SentTime
<1>5. sentClock[k] # kitchenTime - Day => SentTime(sentClock[k]) > kitchenTime - Day
  BY <1>3, KitchenAssumption DEF SentTime, KitchenAssumption
<1>6. row \in KitchenOrder /\ FitTimes(row) /\ row.status = "new" /\ row.sentAt = SentTime(sentClock[k])
  BY <1>4 DEF KitchenOrder, Statuses, TimeOrUnset, FitTimes
<1> HIDE DEF row
<1>7. TicketRows'
  BY <1>2, <1>6 DEF KitchenInv, TicketRows
<1>8. TableRows' /\ SentClocks'
  BY <1>1 DEF KitchenInv, TableRows, SentClocks
<1>9. PendingSteps'
  BY <1>1, <1>2 DEF KitchenInv, PendingSteps, PendingStatus, PendingTables
<1>10. WhileQuiet'
  BY <1>1, QuietTables DEF KitchenInv, AtTables
<1>11. NewOnBoard
  <2> SUFFICES ASSUME NEW x \in DOMAIN tickets' \ Sent, sentClock[x] # kitchenTime - Day PROVE OnBoard(x)'
    BY DEF NewOnBoard
  <2>1. x = k
    BY <1>2 DEF Sent
  <2>2. tickets'[k].status = "new" /\ tickets'[k].sentAt > kitchenTime' - Day
    BY <1>1, <1>2, <1>5, <1>6, <2>1
  <2> QED
    BY <2>1, <2>2 DEF OnBoard
<1> QED
  BY <1>7, <1>8, <1>9, <1>10, <1>11 DEF KitchenInv

LEMMA CloseOrderKeeps ==
  ASSUME KitchenInv, NEW o \in Orders, CloseOrder(o)
  PROVE  KitchenInv'
<1>1. UNCHANGED <<tables, sentClock, staff, kitchenTime, quiet>>
  BY DEF CloseOrder
<1>2. /\ Sent' = Sent
      /\ \A k \in Sent : tickets'[k] = IF OrderOf[k] = o /\ tickets[k].status = "ready"
           THEN [tickets[k] EXCEPT !.status = "served", !.served = TRUE] ELSE tickets[k]
  BY DEF CloseOrder, Sent
<1>3. ASSUME NEW k \in Sent
      PROVE  tickets'[k] \in KitchenOrder /\ FitTimes(tickets'[k])
  <2>1. PICK x : x = tickets[k]
    OBVIOUS
  <2>2. x \in KitchenOrder /\ FitTimes(x)
    BY <2>1 DEF KitchenInv, TicketRows
  <2>3. CASE OrderOf[k] = o /\ x.status = "ready"
    <3> DEFINE y == [x EXCEPT !.status = "served", !.served = TRUE]
    <3>1. y.status = "served" /\ y.served /\ y.readyAt = x.readyAt /\ y \in KitchenOrder
      BY <2>2 DEF KitchenOrder, Statuses
    <3>2. x.readyAt # Unset
      BY <2>2, <2>3 DEF FitTimes
    <3>3. tickets'[k] = y
      BY <1>2, <2>1, <2>3
    <3> HIDE DEF y
    <3> QED
      BY <3>1, <3>2, <3>3 DEF FitTimes
  <2>4. CASE ~(OrderOf[k] = o /\ x.status = "ready")
    BY <1>2, <2>1, <2>2, <2>4
  <2> QED
    BY <2>3, <2>4
<1>4. TicketRows'
  BY <1>2, <1>3 DEF KitchenInv, TicketRows
<1>5. TableRows' /\ SentClocks' /\ PendingSteps'
  BY <1>1, <1>2 DEF KitchenInv, TableRows, SentClocks, PendingSteps, PendingStatus, PendingTables
<1>6. WhileQuiet'
  BY <1>1, QuietTables DEF KitchenInv, AtTables
<1> QED
  BY <1>4, <1>5, <1>6 DEF KitchenInv

(* A status is applied to a row whose times fit, so they fit the new status     *)
LEMMA AppliedFits ==
  ASSUME NEW x \in KitchenOrder, FitTimes(x), NEW status \in Statuses,
         status \in Transitions[x.status] \/ status = "served",
         kitchenTime \in 0 .. LastKitchenTime
  PROVE  Applied(x, status) \in KitchenOrder /\ FitTimes(Applied(x, status))
<1> DEFINE y == Applied(x, status)
<1>1. PICK ready, started, served :
        /\ ready = CASE status = "preparing" -> Unset [] status = "ready" -> kitchenTime
                     [] status = "served" -> OrNow(x.readyAt) [] OTHER -> x.readyAt
        /\ started = (status # "new" /\ (x.started \/ status \in {"preparing", "ready"}))
        /\ served = (status # "ready" /\ (x.served \/ status = "served"))
  OBVIOUS
<1>2. x.readyAt \in TimeOrUnset /\ x.started \in BOOLEAN /\ x.served \in BOOLEAN /\ x.status \in Statuses
      /\ x.sentAt \in 0 .. LastKitchenTime
  BY DEF KitchenOrder
<1>3. x = [status |-> x.status, started |-> x.started, readyAt |-> x.readyAt, served |-> x.served, sentAt |-> x.sentAt]
  BY DEF KitchenOrder
<1>4. y = [x EXCEPT !.status = status, !.started = started, !.readyAt = ready, !.served = served]
  BY <1>1, Zenon DEF Applied
<1>5. y = [status |-> status, started |-> started, readyAt |-> ready, served |-> served, sentAt |-> x.sentAt]
  BY <1>3, <1>4
<1>6. ready \in TimeOrUnset
  BY <1>1, <1>2 DEF OrNow, TimeOrUnset
<1>7. y.status = status /\ y.readyAt = ready /\ y.started = started /\ y.served = served
  BY <1>5
<1>8. started \in BOOLEAN /\ served \in BOOLEAN
  BY <1>1
<1>9. y \in KitchenOrder
  BY <1>2, <1>5, <1>6, <1>8 DEF KitchenOrder
<1>10. ready # Unset <=> status \in {"ready", "served"} \/ (status \in {"new", "cancelled"} /\ x.readyAt # Unset)
  BY <1>1 DEF Statuses, OrNow, Unset
<1>11. \/ x.status = "new" /\ status \in {"preparing", "ready", "cancelled"}
       \/ x.status = "preparing" /\ status \in {"new", "ready", "cancelled"}
       \/ x.status = "ready" /\ status = "preparing"
       \/ x.status = "served" /\ status = "ready"
       \/ status = "served"
  <2>1. CASE x.status = "new"
    BY <2>1 DEF Transitions
  <2>2. CASE x.status = "preparing"
    BY <2>2 DEF Transitions
  <2>3. CASE x.status = "ready"
    BY <2>3 DEF Transitions
  <2>4. CASE x.status = "served"
    BY <2>4 DEF Transitions
  <2>5. CASE x.status = "cancelled"
    BY <2>5 DEF Transitions
  <2> QED
    BY <1>2, <2>1, <2>2, <2>3, <2>4, <2>5 DEF Statuses
<1>12. FitTimes(y)
  BY <1>1, <1>2, <1>7, <1>10, <1>11 DEF FitTimes
<1> QED
  BY <1>9, <1>12

(* updateStatus and serveFromDevice *)
LEMMA BeginRowKeeps ==
  ASSUME KitchenInv, NEW a \in Staff, NEW k \in Sent, NEW row \in KitchenOrder, FitTimes(row),
         TakeUp(a, [at |-> "status", of |-> k, row |-> row]),
         UNCHANGED <<tables, tickets, sentClock, kitchenTime, quiet>>
  PROVE  KitchenInv'
<1> DEFINE step == [at |-> "status", of |-> k, row |-> row]
<1>1. staff[a].at = "none" /\ staff' = [staff EXCEPT ![a] = step]
  BY DEF TakeUp
<1>2. step.at = "status" /\ step.of = k /\ step.row = row
  OBVIOUS
<1> HIDE DEF step
<1>3. staff'[a] = step /\ \A b \in Staff \ {a} : staff'[b] = staff[b]
  BY <1>1 DEF KitchenInv, PendingSteps
<1>4. TableRows' /\ TicketRows' /\ SentClocks' /\ Sent' = Sent
  BY DEF KitchenInv, TableRows, TicketRows, SentClocks, Sent
<1>5. PendingSteps'
  <2>1. PendingStatus(step)' /\ PendingTables(step)'
    BY <1>2, <1>4 DEF PendingStatus, PendingTables
  <2>2. \A b \in Staff : PendingStatus(staff[b])' /\ PendingTables(staff[b])'
    BY <1>3, <1>4, <2>1 DEF KitchenInv, PendingSteps, PendingStatus, PendingTables
  <2> QED
    BY <1>1, <2>2 DEF KitchenInv, PendingSteps
<1>6. WhileQuiet'
  BY <1>2, <1>3, QuietTables DEF KitchenInv, AtTables
<1> QED
  BY <1>4, <1>5, <1>6 DEF KitchenInv

LEMMA BeginStatusKeeps ==
  ASSUME KitchenInv, NEW a \in Staff, NEW k \in Tickets, NEW status \in Statuses, BeginStatus(a, k, status)
  PROVE  KitchenInv'
<1>1. k \in Sent /\ status \in Transitions[tickets[k].status]
  BY DEF BeginStatus
<1>2. Applied(tickets[k], status) \in KitchenOrder /\ FitTimes(Applied(tickets[k], status))
  BY <1>1, AppliedFits DEF KitchenInv, TicketRows, SentClocks
<1> QED
  BY <1>1, <1>2, BeginRowKeeps DEF BeginStatus

LEMMA BeginServeKeeps ==
  ASSUME KitchenInv, NEW a \in Staff, NEW k \in Tickets, BeginServe(a, k)
  PROVE  KitchenInv'
<1>1. k \in Sent
  BY DEF BeginServe
<1>2. Applied(tickets[k], "served") \in KitchenOrder /\ FitTimes(Applied(tickets[k], "served"))
  BY <1>1, AppliedFits DEF KitchenInv, TicketRows, SentClocks, Statuses
<1> QED
  BY <1>1, <1>2, BeginRowKeeps DEF BeginServe

LEMMA SaveStatusKeeps ==
  ASSUME KitchenInv, NEW a \in Staff, SaveStatus(a)
  PROVE  KitchenInv'
<1>1. PICK k, row : k = staff[a].of /\ row = staff[a].row
  OBVIOUS
<1>2. k \in Sent /\ row \in KitchenOrder /\ FitTimes(row)
  BY <1>1 DEF KitchenInv, PendingSteps, PendingStatus, SaveStatus
<1>3. tickets' = [tickets EXCEPT ![k] = row] /\ LayDown(a) /\ UNCHANGED <<tables, sentClock, kitchenTime, quiet>>
  BY <1>1 DEF SaveStatus
<1>4. Sent' = Sent /\ tickets'[k] = row /\ \A x \in Sent \ {k} : tickets'[x] = tickets[x]
  BY <1>2, <1>3 DEF Sent
<1>5. TicketRows'
  BY <1>2, <1>4 DEF KitchenInv, TicketRows
<1>6. /\ PendingSteps' /\ staff'[a].at = "none"
      /\ \A b \in Staff \ {a} : staff'[b] = staff[b]
  BY <1>3, <1>4, LayingDown DEF KitchenInv
<1>7. TableRows' /\ SentClocks'
  BY <1>3 DEF KitchenInv, TableRows, SentClocks
<1>8. WhileQuiet'
  BY <1>3, <1>6, QuietTables DEF KitchenInv, AtTables
<1> QED
  BY <1>5, <1>6, <1>7, <1>8 DEF KitchenInv

LEMMA KitchenStep ==
  ASSUME KitchenInv, [KitchenNext]_kitchenVars
  PROVE  KitchenInv' /\ [NewOnBoard]_kitchenVars
<1>1. CASE UNCHANGED kitchenVars
  <2>1. TableRows' /\ TicketRows' /\ SentClocks' /\ PendingSteps'
    BY <1>1 DEF KitchenInv, kitchenVars, TableRows, TicketRows, SentClocks, Sent, PendingSteps, PendingStatus, PendingTables
  <2>2. WhileQuiet'
    BY <1>1, QuietTables DEF KitchenInv, kitchenVars, AtTables
  <2> QED
    BY <1>1, <2>1, <2>2 DEF KitchenInv
<1>2. ASSUME Sent' = Sent
      PROVE  NewOnBoard
  BY <1>2 DEF NewOnBoard, Sent
<1>3. ASSUME NEW a \in Staff, NEW b \in Halls \cup {AllHalls}, NEW new \in SUBSET Tables, NEW named \in [new -> Names],
             BeginCreateTables(a, b, named)
      PROVE  KitchenInv' /\ NewOnBoard
  BY <1>2, <1>3, BeginCreateTablesKeeps DEF BeginCreateTables, TakeUpTables, Sent
<1>4. ASSUME NEW a \in Staff, NEW b \in Halls \cup {AllHalls}, NEW t \in Tables, NEW name \in Names,
             BeginUpdateTable(a, t, name, b)
      PROVE  KitchenInv' /\ NewOnBoard
  BY <1>2, <1>4, BeginUpdateTableKeeps DEF BeginUpdateTable, TakeUpTables, Sent
<1>5. ASSUME NEW a \in Staff, NEW k \in Tickets, NEW status \in Statuses, BeginStatus(a, k, status)
      PROVE  KitchenInv' /\ NewOnBoard
  BY <1>2, <1>5, BeginStatusKeeps DEF BeginStatus, Sent
<1>6. ASSUME NEW a \in Staff, NEW k \in Tickets, BeginServe(a, k)
      PROVE  KitchenInv' /\ NewOnBoard
  BY <1>2, <1>6, BeginServeKeeps DEF BeginServe, Sent
<1>7. ASSUME NEW a \in Staff, SaveTables(a)
      PROVE  KitchenInv' /\ NewOnBoard
  BY <1>2, <1>7, SaveTablesKeeps DEF SaveTables, Sent
<1>8. ASSUME NEW a \in Staff, SaveStatus(a)
      PROVE  KitchenInv' /\ NewOnBoard
  <2>1. Sent' = Sent
    BY <1>8 DEF SaveStatus, Sent
  <2> QED
    BY <1>2, <1>8, <2>1, SaveStatusKeeps
<1>9. ASSUME NEW t \in Tables, RemoveTable(t)
      PROVE  KitchenInv' /\ NewOnBoard
  BY <1>2, <1>9, RemoveTableKeeps DEF RemoveTable, Sent
<1>10. ASSUME NEW k \in Tickets, NEW at \in 0 .. LastKitchenTime, SendTicket(k, at)
       PROVE  KitchenInv' /\ NewOnBoard
  BY <1>2, <1>10, SendTicketKeeps DEF SendTicket, Sent
<1>11. ASSUME NEW o \in Orders, CloseOrder(o)
       PROVE  KitchenInv' /\ NewOnBoard
  <2>1. Sent' = Sent
    BY <1>11 DEF CloseOrder, Sent
  <2> QED
    BY <1>2, <1>11, <2>1, CloseOrderKeeps
<1>12. ASSUME KitchenTick
       PROVE  KitchenInv' /\ NewOnBoard
  BY <1>2, <1>12, KitchenTickKeeps DEF KitchenTick, Sent
<1> QED
  BY <1>1, <1>3, <1>4, <1>5, <1>6, <1>7, <1>8, <1>9, <1>10, <1>11, <1>12, RecordTicketKeeps DEF KitchenNext

(* RestaurantService, for any tickets, tables, clocks and overlapping requests:   *)
(* a ticket that arrives is on the kitchen's board, the times of a ticket are     *)
(* those of its status whoever moved it, and as long as no two requests about     *)
(* tables overlap, tables that are seen together have different names.            *)
THEOREM KitchenInOrder == KitchenSpec => BoardInOrder
<1>1. KitchenInv => KitchenTypeOK /\ TimesFollowStatus /\ NamesApart
  <2> SUFFICES ASSUME KitchenInv PROVE KitchenTypeOK /\ TimesFollowStatus /\ NamesApart
    OBVIOUS
  <2>1. KitchenTypeOK
    BY DEF KitchenInv, KitchenTypeOK, TableRows, TicketRows
  <2>2. TimesFollowStatus
    BY DEF KitchenInv, TicketRows, TimesFollowStatus, FitTimes
  <2>3. NamesApart
    BY DEF KitchenInv, WhileQuiet, NamesApart, Clash
  <2> QED
    BY <2>1, <2>2, <2>3
<1>2. KitchenInv /\ [KitchenNext]_kitchenVars => KitchenInv' /\ [NewOnBoard]_kitchenVars
  BY KitchenStep
<1> QED
  BY <1>1, <1>2, KitchenInitially, PTL DEF KitchenSpec, BoardInOrder

-----------------------------------------------------------------------------
(***************************************************************************)
(* What a till may do offline.  What was done with a right and waits for its *)
(* upload is allowed by the row as it is, and by each row that a request of   *)
(* the office is about to save: a right that goes, goes at a time after it.   *)
(* That holds while no two requests overlap; one that saves what it read      *)
(* before another request saved can lose the time at which the right went.    *)
(***************************************************************************)
EditShape(step) ==
  /\ step.at = "cashier" => step.of \in Cashiers /\ step.row \in PosCashier /\ ~step.row.deleted
  /\ step.at \in {"revoke", "remove"} => step.of \in Cashiers
  /\ step.at = "revoke" => step.time \in 0 .. LastStamp
  /\ step.at \in {"screen", "settings"} => step.row \in PosOptions
Edits ==
  /\ editor = [r \in Editors |-> editor[r]]
  /\ \A r \in Editors : EditShape(editor[r])
Clock ==
  /\ stamp \in 0 .. LastStamp /\ signedIn \in BOOLEAN
  /\ \A s \in DOMAIN offline : offline[s].doneAt < stamp

(* Returns of the cashier that wait for their upload, sales on credit that do    *)
Waits(s, c) == offline[s].kind = "return" /\ offline[s].cashier = c /\ offline[s].right
WaitsCredit(s) == offline[s].kind = "credit" /\ offline[s].right
ReturnsKept(row, c) == \A s \in DOMAIN offline : Waits(s, c) => CashierCouldReturn(row, offline[s].doneAt)
ReturnsBefore(c, time) == \A s \in DOMAIN offline : Waits(s, c) => offline[s].doneAt <= time
CreditRow(row, time) == "creditSales" \in row.features \/ (row.disabledAt # Never /\ time < row.disabledAt)
CreditKept(row) == \A s \in DOMAIN offline : WaitsCredit(s) => CreditRow(row, offline[s].doneAt)

EditKept(step) ==
  /\ step.at = "cashier" => ReturnsKept(step.row, step.of)
  /\ step.at = "revoke" => ReturnsBefore(step.of, step.time)
  /\ step.at = "remove" => ReturnsBefore(step.of, cashiers[step.of].returnRevokedAt)
  /\ step.at = "screen" => CreditKept(step.row)
  /\ step.at = "settings" => step.row = options
Between(o, time) == o.doneAt < o.issuedAt /\ o.doneAt <= time /\ time <= o.issuedAt
AtWork(r) == editor[r].at # "none"
JudgedRight ==
  \A s \in DOMAIN judged :
    LET o == judged[s].done
    IN  o.right /\ (o.cashier # NoCashier \/ o.kind = "credit") =>
          judged[s].accepted \/ Between(o, judged[s].lostAt)
WhileAlone ==
  alone => /\ \A q, r \in Editors : AtWork(q) /\ AtWork(r) => q = r
           /\ \A c \in Cashiers : ReturnsKept(cashiers[c], c)
           /\ CreditKept(options)
           /\ \A r \in Editors : EditKept(editor[r])
           /\ JudgedRight

RightsInv == RightsTypeOK /\ Edits /\ Clock /\ WhileAlone

LEMMA RightsInitially == RightsInit => RightsInv
<1> SUFFICES ASSUME RightsInit PROVE RightsInv
  OBVIOUS
<1>1. RightsTypeOK
  <2>1. cashiers \in [Cashiers -> PosCashier]
    BY DEF RightsInit, PosCashier, Times
  <2>2. options \in PosOptions
    BY DEF RightsInit, PosOptions, Times
  <2> QED
    BY <2>1, <2>2 DEF RightsInit, RightsTypeOK
<1>2. \A r \in Editors : editor[r].at = "none"
  BY DEF RightsInit, NoEdit
<1>3. Edits
  BY <1>2 DEF RightsInit, Edits, EditShape
<1>4. Clock
  <2>1. LastStamp \in Nat
    BY RightsAssumption DEF RightsAssumption
  <2>2. DOMAIN offline = {}
    BY DEF RightsInit
  <2>3. stamp \in 0 .. LastStamp
    BY <2>1 DEF RightsInit
  <2>4. signedIn \in BOOLEAN
    BY DEF RightsInit
  <2> QED
    BY <2>2, <2>3, <2>4 DEF Clock
<1>5. WhileAlone
  BY <1>2 DEF RightsInit, WhileAlone, AtWork, ReturnsKept, CreditKept, EditKept, JudgedRight
<1> QED
  BY <1>1, <1>3, <1>4, <1>5 DEF RightsInv

(* Promotions, sign-ins and downloads change no right *)
LEMMA RightsFrame ==
  ASSUME RightsInv, UNCHANGED <<cashiers, options, offline, judged, editor, stamp, alone>>, signedIn' \in BOOLEAN
  PROVE  RightsInv'
<1>1. RightsTypeOK'
  BY DEF RightsInv, RightsTypeOK
<1>2. Edits' /\ Clock'
  BY DEF RightsInv, Edits, EditShape, Clock
<1>3. WhileAlone'
  BY DEF RightsInv, WhileAlone, AtWork, ReturnsKept, ReturnsBefore, Waits, CreditKept, WaitsCredit, EditKept, JudgedRight
<1> QED
  BY <1>1, <1>2, <1>3 DEF RightsInv

(* A request of the office reads its row, and keeps what it is about to save     *)
LEMMA BeginEditKeeps ==
  ASSUME RightsInv, NEW r \in Editors, NEW step, BeginEdit(r, step), stamp' \in {stamp, stamp + 1},
         stamp' \in 0 .. LastStamp, EditShape(step), alone => EditKept(step)
  PROVE  RightsInv'
<1>1. /\ editor' = [editor EXCEPT ![r] = step] /\ editor[r].at = "none"
      /\ UNCHANGED <<cashiers, options, signedIn, offline, judged>>
  BY DEF BeginEdit, Editing
<1>2. editor'[r] = step /\ \A q \in Editors \ {r} : editor'[q] = editor[q]
  BY <1>1 DEF RightsInv, Edits
<1>3. RightsTypeOK'
  BY <1>1 DEF RightsInv, RightsTypeOK
<1>4. Edits'
  <2>1. \A q \in Editors : EditShape(editor'[q])
    BY <1>2 DEF RightsInv, Edits
  <2>2. editor' = [q \in Editors |-> editor'[q]]
    BY <1>1 DEF RightsInv, Edits
  <2> QED
    BY <2>1, <2>2 DEF Edits, EditShape
<1>5. Clock'
  BY <1>1 DEF RightsInv, Clock, RightsTypeOK, PosDone
<1>6. WhileAlone'
  <2> SUFFICES ASSUME alone' PROVE WhileAlone'
    BY DEF WhileAlone
  <2>1. alone /\ \A q \in Editors : editor[q].at = "none"
    BY DEF BeginEdit, Editing
  <2>2. \A q \in Editors : AtWork(q)' => q = r
    BY <1>2, <2>1 DEF AtWork
  <2>3. (\A c \in Cashiers : ReturnsKept(cashiers[c], c))' /\ CreditKept(options)' /\ JudgedRight'
    BY <1>1, <2>1 DEF RightsInv, WhileAlone, ReturnsKept, Waits, CreditKept, WaitsCredit, JudgedRight
  <2>4. EditKept(step)'
    BY <1>1, <2>1 DEF EditKept, ReturnsKept, ReturnsBefore, Waits, CreditKept, WaitsCredit
  <2>5. ASSUME NEW q \in Editors
        PROVE  EditKept(editor[q])'
    <3>1. CASE q = r
      BY <1>2, <2>4, <3>1
    <3>2. CASE q # r
      BY <1>2, <2>1, <3>2 DEF EditKept
    <3> QED
      BY <3>1, <3>2
  <2> QED
    BY <2>2, <2>3, <2>5 DEF WhileAlone
<1> QED
  BY <1>3, <1>4, <1>5, <1>6 DEF RightsInv

LEMMA BeginCashierKeeps ==
  ASSUME RightsInv, NEW r \in Editors, NEW c \in Cashiers, NEW canReturn \in BOOLEAN, NEW isActive \in BOOLEAN,
         BeginCashier(r, c, canReturn, isActive)
  PROVE  RightsInv'
<1>1. PICK row : row = cashiers[c]
  OBVIOUS
<1>2. PICK next : next = Updated(row, canReturn, isActive)
  OBVIOUS
<1> DEFINE step == [at |-> "cashier", of |-> c, row |-> next]
<1>3. BeginEdit(r, step)
  BY <1>1, <1>2 DEF BeginCashier
<1>4. step.at = "cashier" /\ step.of = c /\ step.row = next
  OBVIOUS
<1> HIDE DEF step
<1>5. stamp < LastStamp /\ stamp' = stamp + 1 /\ stamp \in 0 .. LastStamp /\ LastStamp \in Nat
  BY RightsAssumption DEF BeginCashier, TakeStamp, RightsInv, Clock, RightsAssumption
<1>6. row \in PosCashier /\ ~row.deleted
  BY <1>1 DEF RightsInv, RightsTypeOK, BeginCashier
<1>7. PICK time : time = CASE CouldReturn(row) /\ ~(canReturn /\ isActive) -> stamp
                           [] canReturn /\ isActive -> Never
                           [] OTHER -> row.returnRevokedAt
  OBVIOUS
<1>8. next = [canReturn |-> canReturn, isActive |-> isActive, deleted |-> FALSE, returnRevokedAt |-> time]
  BY <1>2, <1>7 DEF Updated
<1>9. row.returnRevokedAt \in Times /\ time \in Times
  BY <1>5, <1>6, <1>7 DEF PosCashier, Times
<1>10. next \in PosCashier /\ ~next.deleted
  BY <1>8, <1>9 DEF PosCashier
<1>11. ASSUME alone
       PROVE  ReturnsKept(next, c)
  <2> SUFFICES ASSUME NEW s \in DOMAIN offline, Waits(s, c) PROVE CashierCouldReturn(next, offline[s].doneAt)
    BY DEF ReturnsKept
  <2>1. CashierCouldReturn(row, offline[s].doneAt)
    BY <1>1, <1>11 DEF RightsInv, WhileAlone, ReturnsKept
  <2>2. offline[s].doneAt \in 0 .. LastStamp /\ offline[s].doneAt < stamp
    BY DEF RightsInv, RightsTypeOK, PosDone, Clock
  <2>3. CASE canReturn /\ isActive
    BY <1>8, <2>3 DEF CashierCouldReturn, MayReturnNow, CouldReturn
  <2>4. CASE ~(canReturn /\ isActive) /\ CouldReturn(row)
    <3>1. next.returnRevokedAt = stamp
      BY <1>7, <1>8, <2>4
    <3> QED
      BY <1>5, <2>2, <3>1 DEF CashierCouldReturn, Never
  <2>5. CASE ~(canReturn /\ isActive) /\ ~CouldReturn(row)
    <3>1. next.returnRevokedAt = row.returnRevokedAt
      BY <1>7, <1>8, <2>5
    <3> QED
      BY <2>1, <2>5, <3>1 DEF CashierCouldReturn, MayReturnNow
  <2> QED
    BY <2>3, <2>4, <2>5
<1>12. EditShape(step) /\ (alone => EditKept(step))
  BY <1>4, <1>10, <1>11 DEF EditShape, EditKept
<1> QED
  BY <1>3, <1>5, <1>12, BeginEditKeeps

LEMMA BeginRemovalKeeps ==
  ASSUME RightsInv, NEW r \in Editors, NEW c \in Cashiers, BeginRemoval(r, c)
  PROVE  RightsInv'
<1>1. PICK where : where = IF CouldReturn(cashiers[c]) THEN "revoke" ELSE "remove"
  OBVIOUS
<1> DEFINE step == [at |-> where, of |-> c, time |-> stamp]
<1>2. BeginEdit(r, step)
  BY <1>1 DEF BeginRemoval
<1>3. step.at = where /\ step.of = c /\ step.time = stamp
  OBVIOUS
<1> HIDE DEF step
<1>4. stamp < LastStamp /\ stamp' = stamp + 1 /\ stamp \in 0 .. LastStamp /\ LastStamp \in Nat
  BY RightsAssumption DEF BeginRemoval, TakeStamp, RightsInv, Clock, RightsAssumption
<1>5. ASSUME NEW s \in DOMAIN offline
      PROVE  offline[s].doneAt \in 0 .. LastStamp /\ offline[s].doneAt < stamp
  BY DEF RightsInv, RightsTypeOK, PosDone, Clock
<1>6. ReturnsBefore(c, stamp)
  BY <1>4, <1>5 DEF ReturnsBefore
<1>7. ASSUME alone, where = "remove"
      PROVE  ReturnsBefore(c, cashiers[c].returnRevokedAt)
  BY <1>1, <1>7 DEF ReturnsBefore, RightsInv, WhileAlone, ReturnsKept, CashierCouldReturn, MayReturnNow
<1>8. EditShape(step) /\ (alone => EditKept(step))
  BY <1>1, <1>3, <1>4, <1>6, <1>7 DEF EditShape, EditKept
<1> QED
  BY <1>2, <1>4, <1>8, BeginEditKeeps

LEMMA BeginScreenKeeps ==
  ASSUME RightsInv, NEW r \in Editors, NEW wanted \in Wanted, BeginScreen(r, wanted)
  PROVE  RightsInv'
<1>1. PICK features : features = Required(wanted)
  OBVIOUS
<1>2. PICK next : next = Switched(options, features)
  OBVIOUS
<1> DEFINE step == [at |-> "screen", row |-> next]
<1>3. BeginEdit(r, step)
  BY <1>1, <1>2 DEF BeginScreen
<1>4. step.at = "screen" /\ step.row = next
  OBVIOUS
<1> HIDE DEF step
<1>5. stamp < LastStamp /\ stamp' = stamp + 1 /\ stamp \in 0 .. LastStamp /\ LastStamp \in Nat
  BY RightsAssumption DEF BeginScreen, TakeStamp, RightsInv, Clock, RightsAssumption
<1>6. features \subseteq Features
  BY <1>1, RightsAssumption DEF Required, RightsAssumption
<1>7. PICK time : time = CASE "creditSales" \in features -> Never
                           [] "creditSales" \in options.features \ features -> stamp
                           [] OTHER -> options.disabledAt
  OBVIOUS
<1>8. next = [features |-> features, disabledAt |-> time]
  BY <1>2, <1>7 DEF Switched
<1>9. options.disabledAt \in Times /\ time \in Times
  BY <1>5, <1>7 DEF RightsInv, RightsTypeOK, PosOptions, Times
<1>10. next \in PosOptions
  BY <1>6, <1>8, <1>9 DEF PosOptions
<1>11. ASSUME alone
       PROVE  CreditKept(next)
  <2> SUFFICES ASSUME NEW s \in DOMAIN offline, WaitsCredit(s) PROVE CreditRow(next, offline[s].doneAt)
    BY DEF CreditKept
  <2>1. CreditRow(options, offline[s].doneAt)
    BY <1>11 DEF RightsInv, WhileAlone, CreditKept
  <2>2. offline[s].doneAt \in 0 .. LastStamp /\ offline[s].doneAt < stamp
    BY DEF RightsInv, RightsTypeOK, PosDone, Clock
  <2>3. CASE "creditSales" \in features
    BY <1>8, <2>3 DEF CreditRow
  <2>4. CASE "creditSales" \notin features /\ "creditSales" \in options.features
    <3>1. next.disabledAt = stamp
      BY <1>7, <1>8, <2>4
    <3> QED
      BY <1>5, <2>2, <3>1 DEF CreditRow, Never
  <2>5. CASE "creditSales" \notin features /\ "creditSales" \notin options.features
    <3>1. next.disabledAt = options.disabledAt
      BY <1>7, <1>8, <2>5
    <3> QED
      BY <2>1, <2>5, <3>1 DEF CreditRow
  <2> QED
    BY <2>3, <2>4, <2>5
<1>12. EditShape(step) /\ (alone => EditKept(step))
  BY <1>4, <1>10, <1>11 DEF EditShape, EditKept
<1> QED
  BY <1>3, <1>5, <1>12, BeginEditKeeps

LEMMA BeginSettingsKeeps ==
  ASSUME RightsInv, NEW r \in Editors, BeginSettings(r)
  PROVE  RightsInv'
<1>1. PICK row : row = options
  OBVIOUS
<1> DEFINE step == [at |-> "settings", row |-> row]
<1>2. BeginEdit(r, step) /\ stamp' = stamp
  BY <1>1 DEF BeginSettings
<1>3. step.at = "settings" /\ step.row = row
  OBVIOUS
<1> HIDE DEF step
<1>4. stamp \in 0 .. LastStamp /\ row \in PosOptions
  BY <1>1 DEF RightsInv, Clock, RightsTypeOK
<1>5. EditShape(step) /\ EditKept(step)
  BY <1>1, <1>3, <1>4 DEF EditShape, EditKept
<1> QED
  BY <1>2, <1>4, <1>5, BeginEditKeeps

-----------------------------------------------------------------------------
(* A request that is done leaves the others as they are *)
LEMMA EditEnds ==
  ASSUME Edits, NEW r \in Editors, EndEdit(r)
  PROVE  /\ Edits' /\ editor'[r].at = "none"
         /\ \A q \in Editors \ {r} : editor'[q] = editor[q]
<1>1. NoEdit.at = "none"
  BY DEF NoEdit
<1>2. editor'[r] = NoEdit /\ \A q \in Editors \ {r} : editor'[q] = editor[q]
  BY DEF Edits, EndEdit
<1>3. \A q \in Editors : EditShape(editor'[q])
  BY <1>1, <1>2 DEF Edits, EditShape
<1>4. editor' = [q \in Editors |-> editor'[q]]
  BY DEF Edits, EndEdit
<1> QED
  BY <1>1, <1>2, <1>3, <1>4 DEF Edits, EditShape

(* While requests do not overlap, nobody is at work when one has ended           *)
LEMMA EditWasAlone ==
  ASSUME WhileAlone, alone, NEW r \in Editors, AtWork(r), editor'[r].at = "none",
         \A q \in Editors \ {r} : editor'[q] = editor[q]
  PROVE  /\ \A q \in Editors : ~AtWork(q)'
         /\ \A q \in Editors : EditKept(editor[q])'
<1>1. \A q \in Editors : editor'[q].at = "none"
  BY DEF WhileAlone, AtWork
<1> QED
  BY <1>1 DEF AtWork, EditKept

LEMMA SaveCashierKeeps ==
  ASSUME RightsInv, NEW r \in Editors, SaveCashier(r)
  PROVE  RightsInv'
<1>1. PICK c, row : c = editor[r].of /\ row = editor[r].row
  OBVIOUS
<1>2. /\ editor[r].at = "cashier" /\ cashiers' = [cashiers EXCEPT ![c] = row] /\ EndEdit(r)
      /\ UNCHANGED <<options, signedIn, offline, judged, stamp, alone>>
  BY <1>1 DEF SaveCashier, Editing
<1>3. c \in Cashiers /\ row \in PosCashier
  BY <1>1, <1>2 DEF RightsInv, Edits, EditShape
<1>4. cashiers'[c] = row /\ \A b \in Cashiers \ {c} : cashiers'[b] = cashiers[b]
  BY <1>2, <1>3 DEF RightsInv, RightsTypeOK
<1>5. RightsTypeOK'
  BY <1>2, <1>3 DEF RightsInv, RightsTypeOK
<1>6. /\ Edits' /\ editor'[r].at = "none"
      /\ \A q \in Editors \ {r} : editor'[q] = editor[q]
  BY <1>2, EditEnds DEF RightsInv
<1>7. Clock'
  BY <1>2 DEF RightsInv, Clock
<1>8. WhileAlone'
  <2> SUFFICES ASSUME alone' PROVE WhileAlone'
    BY DEF WhileAlone
  <2>1. alone /\ WhileAlone
    BY <1>2 DEF RightsInv
  <2>2. /\ \A q \in Editors : ~AtWork(q)'
        /\ \A q \in Editors : EditKept(editor[q])'
    BY <1>2, <1>6, <2>1, EditWasAlone DEF AtWork
  <2>3. ReturnsKept(row, c)
    BY <1>1, <1>2, <2>1 DEF WhileAlone, EditKept
  <2>4. ASSUME NEW b \in Cashiers
        PROVE  ReturnsKept(cashiers[b], b)'
    <3>1. ReturnsKept(cashiers'[b], b)
      BY <1>4, <2>1, <2>3 DEF WhileAlone
    <3> QED
      BY <1>2, <3>1 DEF ReturnsKept, Waits
  <2>5. CreditKept(options)' /\ JudgedRight'
    BY <1>2, <2>1 DEF WhileAlone, CreditKept, WaitsCredit, JudgedRight
  <2> QED
    BY <2>2, <2>4, <2>5 DEF WhileAlone
<1> QED
  BY <1>5, <1>6, <1>7, <1>8 DEF RightsInv

LEMMA RevokeKeeps ==
  ASSUME RightsInv, NEW r \in Editors, Revoke(r)
  PROVE  RightsInv'
<1>1. PICK c, time, step : c = editor[r].of /\ time = editor[r].time /\ step = [editor[r] EXCEPT !.at = "remove"]
  OBVIOUS
<1>2. /\ editor[r].at = "revoke" /\ cashiers' = [cashiers EXCEPT ![c].returnRevokedAt = time]
      /\ editor' = [editor EXCEPT ![r] = step]
      /\ UNCHANGED <<options, signedIn, offline, judged, stamp, alone>>
  BY <1>1 DEF Revoke, Editing
<1>3. c \in Cashiers /\ time \in 0 .. LastStamp
  BY <1>1, <1>2 DEF RightsInv, Edits, EditShape
<1>4. PICK row : row = cashiers[c]
  OBVIOUS
<1>5. row \in PosCashier /\ row = [canReturn |-> row.canReturn, isActive |-> row.isActive, deleted |-> row.deleted,
                                   returnRevokedAt |-> row.returnRevokedAt]
  BY <1>3, <1>4 DEF RightsInv, RightsTypeOK, PosCashier
<1>6. PICK next : next = [row EXCEPT !.returnRevokedAt = time]
  OBVIOUS
<1>7. /\ next \in PosCashier /\ next.returnRevokedAt = time /\ (MayReturnNow(next) <=> MayReturnNow(row))
      /\ next = [canReturn |-> row.canReturn, isActive |-> row.isActive, deleted |-> row.deleted,
                 returnRevokedAt |-> time]
  BY <1>3, <1>5, <1>6 DEF PosCashier, Times, MayReturnNow, CouldReturn
<1>8. cashiers'[c] = next /\ \A b \in Cashiers \ {c} : cashiers'[b] = cashiers[b]
  BY <1>2, <1>3, <1>4, <1>6 DEF RightsInv, RightsTypeOK
<1>9. RightsTypeOK'
  BY <1>2, <1>3, <1>4, <1>6, <1>7 DEF RightsInv, RightsTypeOK
<1>10. step.at = "remove" /\ step.of = c
  BY <1>1, <1>2
<1>11. editor'[r] = step /\ \A q \in Editors \ {r} : editor'[q] = editor[q]
  BY <1>2 DEF RightsInv, Edits
<1>12. Edits'
  <2>1. \A q \in Editors : EditShape(editor'[q])
    BY <1>3, <1>10, <1>11 DEF RightsInv, Edits, EditShape
  <2>2. editor' = [q \in Editors |-> editor'[q]]
    BY <1>2 DEF RightsInv, Edits
  <2> QED
    BY <2>1, <2>2 DEF Edits, EditShape
<1>13. Clock'
  BY <1>2 DEF RightsInv, Clock
<1>14. WhileAlone'
  <2> SUFFICES ASSUME alone' PROVE WhileAlone'
    BY DEF WhileAlone
  <2>1. alone /\ WhileAlone
    BY <1>2 DEF RightsInv
  <2>2. \A q \in Editors \ {r} : editor'[q].at = "none"
    BY <1>2, <1>11, <2>1 DEF WhileAlone, AtWork
  <2>3. ReturnsBefore(c, time)
    BY <1>1, <1>2, <2>1 DEF WhileAlone, EditKept
  <2>4. ReturnsKept(next, c)
    <3>1. time # Never
      BY <1>3 DEF Never
    <3> QED
      BY <1>7, <2>3, <3>1 DEF ReturnsKept, ReturnsBefore, CashierCouldReturn
  <2>5. ASSUME NEW b \in Cashiers
        PROVE  ReturnsKept(cashiers[b], b)'
    <3>1. ReturnsKept(cashiers'[b], b)
      BY <1>8, <2>1, <2>4 DEF WhileAlone
    <3> QED
      BY <1>2, <3>1 DEF ReturnsKept, Waits
  <2>6. EditKept(step)'
    BY <1>2, <1>7, <1>8, <1>10, <2>3 DEF EditKept, ReturnsBefore, Waits
  <2>7. \A q \in Editors : EditKept(editor[q])'
    BY <1>11, <2>2, <2>6 DEF EditKept
  <2>8. CreditKept(options)' /\ JudgedRight'
    BY <1>2, <2>1 DEF WhileAlone, CreditKept, WaitsCredit, JudgedRight
  <2>9. \A q \in Editors : AtWork(q)' => q = r
    BY <2>2 DEF AtWork
  <2> QED
    BY <2>5, <2>7, <2>8, <2>9 DEF WhileAlone
<1> QED
  BY <1>9, <1>12, <1>13, <1>14 DEF RightsInv

LEMMA RemoveCashierKeeps ==
  ASSUME RightsInv, NEW r \in Editors, RemoveCashier(r)
  PROVE  RightsInv'
<1>1. PICK c : c = editor[r].of
  OBVIOUS
<1>2. /\ editor[r].at = "remove" /\ cashiers' = [cashiers EXCEPT ![c].deleted = TRUE] /\ EndEdit(r)
      /\ UNCHANGED <<options, signedIn, offline, judged, stamp, alone>>
  BY <1>1 DEF RemoveCashier, Editing
<1>3. c \in Cashiers
  BY <1>1, <1>2 DEF RightsInv, Edits, EditShape
<1>4. PICK row : row = cashiers[c]
  OBVIOUS
<1>5. PICK next : next = [row EXCEPT !.deleted = TRUE]
  OBVIOUS
<1>6. row \in PosCashier
  BY <1>3, <1>4 DEF RightsInv, RightsTypeOK
<1>7. next \in PosCashier /\ next.returnRevokedAt = row.returnRevokedAt /\ row.returnRevokedAt \in Times
  BY <1>5, <1>6 DEF PosCashier
<1>8. cashiers'[c] = next /\ \A b \in Cashiers \ {c} : cashiers'[b] = cashiers[b]
  BY <1>2, <1>3, <1>4, <1>5 DEF RightsInv, RightsTypeOK
<1>9. RightsTypeOK'
  BY <1>2, <1>3, <1>4, <1>5, <1>7 DEF RightsInv, RightsTypeOK
<1>10. /\ Edits' /\ editor'[r].at = "none"
       /\ \A q \in Editors \ {r} : editor'[q] = editor[q]
  BY <1>2, EditEnds DEF RightsInv
<1>11. Clock'
  BY <1>2 DEF RightsInv, Clock
<1>12. WhileAlone'
  <2> SUFFICES ASSUME alone' PROVE WhileAlone'
    BY DEF WhileAlone
  <2>1. alone /\ WhileAlone
    BY <1>2 DEF RightsInv
  <2>2. /\ \A q \in Editors : ~AtWork(q)'
        /\ \A q \in Editors : EditKept(editor[q])'
    BY <1>2, <1>10, <2>1, EditWasAlone DEF AtWork
  <2>3. ReturnsBefore(c, row.returnRevokedAt)
    BY <1>1, <1>2, <1>4, <2>1 DEF WhileAlone, EditKept
  <2>4. ReturnsKept(next, c)
    <3> SUFFICES ASSUME NEW s \in DOMAIN offline, Waits(s, c) PROVE CashierCouldReturn(next, offline[s].doneAt)
      BY DEF ReturnsKept
    <3>1. offline[s].doneAt <= row.returnRevokedAt
      BY <2>3 DEF ReturnsBefore
    <3>2. offline[s].doneAt \in 0 .. LastStamp
      BY DEF RightsInv, RightsTypeOK, PosDone
    <3> QED
      BY <1>7, <3>1, <3>2, RightsAssumption DEF CashierCouldReturn, Times, Never, RightsAssumption
  <2>5. ASSUME NEW b \in Cashiers
        PROVE  ReturnsKept(cashiers[b], b)'
    <3>1. ReturnsKept(cashiers'[b], b)
      BY <1>8, <2>1, <2>4 DEF WhileAlone
    <3> QED
      BY <1>2, <3>1 DEF ReturnsKept, Waits
  <2>6. CreditKept(options)' /\ JudgedRight'
    BY <1>2, <2>1 DEF WhileAlone, CreditKept, WaitsCredit, JudgedRight
  <2> QED
    BY <2>2, <2>5, <2>6 DEF WhileAlone
<1> QED
  BY <1>9, <1>10, <1>11, <1>12 DEF RightsInv

LEMMA SaveOptionsKeeps ==
  ASSUME RightsInv, NEW r \in Editors, SaveOptions(r)
  PROVE  RightsInv'
<1>1. PICK row : row = editor[r].row
  OBVIOUS
<1>2. /\ editor[r].at \in {"screen", "settings"} /\ options' = row /\ EndEdit(r)
      /\ UNCHANGED <<cashiers, signedIn, offline, judged, stamp, alone>>
  BY <1>1 DEF SaveOptions, Editing
<1>3. row \in PosOptions
  BY <1>1, <1>2 DEF RightsInv, Edits, EditShape
<1>4. RightsTypeOK'
  BY <1>2, <1>3 DEF RightsInv, RightsTypeOK
<1>5. /\ Edits' /\ editor'[r].at = "none"
      /\ \A q \in Editors \ {r} : editor'[q] = editor[q]
  BY <1>2, EditEnds DEF RightsInv
<1>6. Clock'
  BY <1>2 DEF RightsInv, Clock
<1>7. WhileAlone'
  <2> SUFFICES ASSUME alone' PROVE WhileAlone'
    BY DEF WhileAlone
  <2>1. alone /\ WhileAlone
    BY <1>2 DEF RightsInv
  <2>2. /\ \A q \in Editors : ~AtWork(q)'
        /\ \A q \in Editors : EditKept(editor[q])'
    BY <1>2, <1>5, <2>1, EditWasAlone DEF AtWork
  <2>3. CreditKept(row)
    BY <1>1, <1>2, <2>1 DEF WhileAlone, EditKept
  <2>4. CreditKept(options)'
    BY <1>2, <2>3 DEF CreditKept, WaitsCredit
  <2>5. (\A c \in Cashiers : ReturnsKept(cashiers[c], c))' /\ JudgedRight'
    BY <1>2, <2>1 DEF WhileAlone, ReturnsKept, Waits, JudgedRight
  <2> QED
    BY <2>2, <2>4, <2>5 DEF WhileAlone
<1> QED
  BY <1>4, <1>5, <1>6, <1>7 DEF RightsInv

-----------------------------------------------------------------------------
(* What the screen does offline: with a right, the row allows it and no request   *)
(* is about to take it away                                                      *)
LEMMA DoKeeps ==
  ASSUME RightsInv, NEW s, NEW kind \in {"return", "credit", "cheap"}, NEW c \in Cashiers \cup {NoCashier},
         NEW t \in TillTimes, NEW right \in BOOLEAN, Do(s, kind, c, t, right),
         kind = "return" /\ c # NoCashier /\ right => MayReturnNow(cashiers[c]) /\ ~Leaving(c),
         kind = "credit" /\ right => "creditSales" \in options.features /\ ~SwitchingOff
  PROVE  RightsInv'
<1>1. PICK o : o = [kind |-> kind, cashier |-> c, issuedAt |-> t, doneAt |-> stamp, right |-> right]
  OBVIOUS
<1>2. /\ DOMAIN offline' = DOMAIN offline \cup {s} /\ s \notin DOMAIN offline
      /\ offline'[s] = o /\ \A x \in DOMAIN offline : offline'[x] = offline[x]
  BY <1>1 DEF Do
<1>3. stamp < LastStamp /\ stamp' = stamp + 1 /\ UNCHANGED <<cashiers, options, signedIn, judged, editor, alone>>
  BY DEF Do, TakeStamp
<1>4. stamp \in 0 .. LastStamp /\ LastStamp \in Nat
  BY RightsAssumption DEF RightsInv, Clock, RightsAssumption
<1>10. t \in 0 - TillSkew .. LastStamp + TillSkew
  BY <1>4, RightsAssumption DEF TillTimes, RightsAssumption
<1>5. o \in PosDone /\ o.kind = kind /\ o.cashier = c /\ o.doneAt = stamp /\ o.right = right
  BY <1>1, <1>4, <1>10 DEF PosDone
<1>6. RightsTypeOK'
  BY <1>2, <1>3, <1>5 DEF RightsInv, RightsTypeOK
<1>7. Edits'
  BY <1>3 DEF RightsInv, Edits, EditShape
<1>8. Clock'
  <2>1. \A x \in DOMAIN offline : offline[x].doneAt \in 0 .. LastStamp /\ offline[x].doneAt < stamp
    BY DEF RightsInv, RightsTypeOK, PosDone, Clock
  <2>2. \A x \in DOMAIN offline' : offline'[x].doneAt < stamp'
    BY <1>2, <1>3, <1>4, <1>5, <2>1
  <2> QED
    BY <1>3, <1>4, <2>2 DEF RightsInv, Clock
<1>9. WhileAlone'
  <2> SUFFICES ASSUME alone' PROVE WhileAlone'
    BY DEF WhileAlone
  <2>1. alone /\ WhileAlone
    BY <1>3 DEF RightsInv
  <2>2. \A b, row : (ReturnsKept(row, b) /\ (Waits(s, b)' => CashierCouldReturn(row, stamp))) => ReturnsKept(row, b)'
    BY <1>2, <1>5 DEF ReturnsKept, Waits
  <2>3. \A row : (CreditKept(row) /\ (WaitsCredit(s)' => CreditRow(row, stamp))) => CreditKept(row)'
    BY <1>2, <1>5 DEF CreditKept, WaitsCredit
  <2>4. \A b \in Cashiers : Waits(s, b)' => b = c /\ MayReturnNow(cashiers[c]) /\ ~Leaving(c)
    BY <1>2, <1>5, RightsAssumption DEF Waits, RightsAssumption
  <2>5. WaitsCredit(s)' => "creditSales" \in options.features /\ ~SwitchingOff
    BY <1>2, <1>5 DEF WaitsCredit
  <2>6. (\A b \in Cashiers : ReturnsKept(cashiers[b], b))'
    BY <1>3, <2>1, <2>2, <2>4 DEF WhileAlone, CashierCouldReturn
  <2>7. CreditKept(options)'
    BY <1>3, <2>1, <2>3, <2>5 DEF WhileAlone, CreditRow
  <2>8. ASSUME NEW r \in Editors
        PROVE  EditKept(editor[r])'
    <3>1. PICK step : step = editor[r]
      OBVIOUS
    <3>2. EditKept(step) /\ EditShape(step)
      BY <2>1, <3>1 DEF WhileAlone, RightsInv, Edits
    <3>3. ASSUME step.at = "cashier"
          PROVE  ReturnsKept(step.row, step.of)'
      <4>1. Waits(s, step.of)' => CouldReturn(step.row)
        BY <2>4, <3>1, <3>2, <3>3 DEF Leaving, Editing, EditShape
      <4>2. Waits(s, step.of)' => CashierCouldReturn(step.row, stamp)
        BY <3>2, <3>3, <4>1 DEF CashierCouldReturn, MayReturnNow, EditShape
      <4> QED
        BY <2>2, <3>2, <3>3, <4>2 DEF EditKept
    <3>4. ASSUME step.at \in {"revoke", "remove"}
          PROVE  ~Waits(s, step.of)'
      BY <2>4, <3>1, <3>2, <3>4 DEF Leaving, Editing, EditShape
    <3>5. ASSUME step.at = "revoke"
          PROVE  ReturnsBefore(step.of, step.time)'
      BY <1>2, <3>2, <3>4, <3>5 DEF EditKept, ReturnsBefore, Waits
    <3>6. ASSUME step.at = "remove"
          PROVE  ReturnsBefore(step.of, cashiers[step.of].returnRevokedAt)'
      BY <1>2, <1>3, <3>2, <3>4, <3>6 DEF EditKept, ReturnsBefore, Waits
    <3>7. ASSUME step.at = "screen"
          PROVE  CreditKept(step.row)'
      <4>1. WaitsCredit(s)' => CreditRow(step.row, stamp)
        BY <2>5, <3>1, <3>7 DEF SwitchingOff, Editing, CreditRow
      <4> QED
        BY <2>3, <3>2, <3>7, <4>1 DEF EditKept
    <3>8. EditKept(step)'
      BY <1>3, <3>2, <3>3, <3>5, <3>6, <3>7 DEF EditKept
    <3> QED
      BY <1>3, <3>1, <3>8
  <2>9. JudgedRight' /\ \A q, r \in Editors : AtWork(q)' /\ AtWork(r)' => q = r
    BY <1>3, <2>1 DEF WhileAlone, JudgedRight, AtWork
  <2> QED
    BY <2>6, <2>7, <2>8, <2>9 DEF WhileAlone
<1> QED
  BY <1>6, <1>7, <1>8, <1>9 DEF RightsInv

LEMMA ScreenKeeps ==
  ASSUME RightsInv, NEW s \in TillSales, NEW t \in TillTimes,
         (\E c \in Cashiers : TakeBack(s, c, t)) \/ TakeBackByUser(s, t) \/ SellOnCredit(s, t) \/ SellCheap(s, t)
  PROVE  RightsInv'
<1>1. ASSUME NEW c \in Cashiers, TakeBack(s, c, t)
      PROVE  RightsInv'
  <2>1. PICK right \in BOOLEAN : right = (MayReturnNow(cashiers[c]) /\ ~Leaving(c))
    OBVIOUS
  <2>2. Do(s, "return", c, t, right)
    BY <1>1, <2>1 DEF TakeBack
  <2> QED
    BY <2>1, <2>2, DoKeeps
<1>2. CASE TakeBackByUser(s, t)
  BY <1>2, DoKeeps DEF TakeBackByUser, RightsInv, Clock
<1>3. CASE SellOnCredit(s, t)
  <2>1. PICK right \in BOOLEAN : right = ("creditSales" \in options.features /\ ~SwitchingOff)
    OBVIOUS
  <2>2. Do(s, "credit", NoCashier, t, right)
    BY <1>3, <2>1 DEF SellOnCredit
  <2> QED
    BY <2>1, <2>2, DoKeeps
<1>4. CASE SellCheap(s, t)
  <2>1. PICK right \in BOOLEAN : right = Running(promotions, stamp)
    <3>1. PICK p : p = promotions
      OBVIOUS
    <3>2. Running(p, stamp) \in BOOLEAN
      BY DEF Running
    <3> QED
      BY <3>1, <3>2
  <2>2. Do(s, "cheap", NoCashier, t, right)
    BY <1>4, <2>1 DEF SellCheap
  <2> QED
    BY <2>2, DoKeeps
<1> QED
  BY <1>1, <1>2, <1>3, <1>4

LEMMA JudgeDoneKeeps ==
  ASSUME RightsInv, NEW s \in TillSales, JudgeDone(s)
  PROVE  RightsInv'
<1>1. PICK o, accepted, lost : o = offline[s] /\ accepted = Accepted(o) /\ lost = LostAt(o)
  OBVIOUS
<1>2. /\ DOMAIN offline' \subseteq DOMAIN offline /\ s \in DOMAIN offline
      /\ \A x \in DOMAIN offline' : offline'[x] = offline[x]
  BY DEF JudgeDone
<1>3. /\ DOMAIN judged' = DOMAIN judged \cup {s}
      /\ judged'[s].done = o /\ judged'[s].accepted = accepted /\ judged'[s].lostAt = lost
      /\ \A x \in DOMAIN judged \ {s} : judged'[x] = judged[x]
  BY <1>1 DEF JudgeDone
<1>4. UNCHANGED <<cashiers, options, signedIn, editor, stamp, alone>>
  BY DEF JudgeDone
<1>5. RightsTypeOK'
  BY <1>1, <1>2, <1>3, <1>4 DEF RightsInv, RightsTypeOK
<1>6. Edits' /\ Clock'
  BY <1>2, <1>4 DEF RightsInv, Edits, EditShape, Clock
<1>7. WhileAlone'
  <2> SUFFICES ASSUME alone' PROVE WhileAlone'
    BY DEF WhileAlone
  <2>1. alone /\ WhileAlone
    BY <1>4 DEF RightsInv
  <2>2. (\A c \in Cashiers : ReturnsKept(cashiers[c], c))' /\ CreditKept(options)'
    BY <1>2, <1>4, <2>1 DEF WhileAlone, ReturnsKept, Waits, CreditKept, WaitsCredit
  <2>3. \A r \in Editors : EditKept(editor[r])'
    BY <1>2, <1>4, <2>1 DEF WhileAlone, EditKept, ReturnsKept, ReturnsBefore, Waits, CreditKept, WaitsCredit
  <2>4. o \in PosDone
    BY <1>1, <1>2 DEF RightsInv, RightsTypeOK
  <2>5. /\ o.doneAt \in 0 .. LastStamp /\ o.issuedAt \in 0 - TillSkew .. LastStamp + TillSkew
        /\ LastStamp \in Nat /\ TillSkew \in Nat
    BY <2>4, RightsAssumption DEF PosDone, RightsAssumption
  <2>6. ASSUME o.right, o.cashier # NoCashier \/ o.kind = "credit", ~accepted
        PROVE  Between(o, lost)
    <3>1. CASE o.kind = "return"
      <4>1. o.cashier \in Cashiers /\ o.cashier # NoCashier
        BY <2>4, <2>6, <3>1 DEF PosDone
      <4>2. PICK row : row = cashiers[o.cashier]
        OBVIOUS
      <4>3. row \in PosCashier /\ lost = row.returnRevokedAt
        BY <1>1, <3>1, <4>1, <4>2 DEF RightsInv, RightsTypeOK, LostAt
      <4>4. row.returnRevokedAt \in Times
        BY <4>3 DEF PosCashier
      <4>5. CashierCouldReturn(row, o.doneAt)
        BY <1>1, <1>2, <2>1, <2>6, <3>1, <4>1, <4>2 DEF WhileAlone, ReturnsKept, Waits
      <4>6. ~CashierCouldReturn(row, o.issuedAt)
        BY <1>1, <2>6, <3>1, <4>1, <4>2 DEF Accepted, MayReturn
      <4>7. lost # Never /\ o.doneAt <= lost /\ ~(o.issuedAt <= lost)
        BY <4>3, <4>5, <4>6 DEF CashierCouldReturn
      <4>8. lost \in Int
        BY <2>5, <4>3, <4>4 DEF Times, Never
      <4> QED
        BY <2>5, <4>7, <4>8 DEF Between
    <3>2. CASE o.kind = "credit"
      <4>1. options.disabledAt \in Times /\ lost = options.disabledAt
        BY <1>1, <3>2 DEF RightsInv, RightsTypeOK, PosOptions, LostAt
      <4>2. CreditRow(options, o.doneAt)
        BY <1>1, <1>2, <2>1, <2>6, <3>2 DEF WhileAlone, CreditKept, WaitsCredit
      <4>3. ~CreditAllowed(o)
        BY <1>1, <2>6, <3>2 DEF Accepted
      <4>4. lost # Never /\ o.doneAt < lost /\ ~(o.issuedAt < lost)
        BY <4>1, <4>2, <4>3 DEF CreditRow, CreditAllowed
      <4>5. lost \in Int
        BY <2>5, <4>1 DEF Times, Never
      <4> QED
        BY <2>5, <4>4, <4>5 DEF Between
    <3>3. CASE o.kind = "cheap"
      BY <1>1, <2>6, <3>3 DEF Accepted
    <3> QED
      BY <2>4, <3>1, <3>2, <3>3 DEF PosDone
  <2>8. JudgedRight'
    BY <1>3, <2>1, <2>6 DEF WhileAlone, JudgedRight, Between
  <2>7. \A q, r \in Editors : AtWork(q)' /\ AtWork(r)' => q = r
    BY <1>4, <2>1 DEF WhileAlone, AtWork
  <2> QED
    BY <2>2, <2>3, <2>7, <2>8 DEF WhileAlone
<1> QED
  BY <1>5, <1>6, <1>7 DEF RightsInv

LEMMA RightsStep ==
  ASSUME RightsInv, [RightsNext]_rightsVars
  PROVE  RightsInv'
<1>1. signedIn \in BOOLEAN
  BY DEF RightsInv, Clock
<1>2. CASE UNCHANGED rightsVars
  BY <1>1, <1>2, RightsFrame DEF rightsVars
<1>3. ASSUME NEW p \in Promotions, EditPromotion(p)
      PROVE  RightsInv'
  BY <1>1, <1>3, RightsFrame DEF EditPromotion
<1>4. ASSUME NEW may \in BOOLEAN, SignIn(may)
      PROVE  RightsInv'
  BY <1>4, RightsFrame DEF SignIn
<1>5. ASSUME NEW part \in DOMAIN copy, Download(part)
      PROVE  RightsInv'
  BY <1>1, <1>5, RightsFrame DEF Download
<1> QED
  BY <1>2, <1>3, <1>4, <1>5, BeginCashierKeeps, BeginRemovalKeeps, BeginScreenKeeps, BeginSettingsKeeps,
     SaveCashierKeeps, RevokeKeeps, RemoveCashierKeeps, SaveOptionsKeeps, ScreenKeeps, JudgeDoneKeeps DEF RightsNext

(* What was allowed when it was done offline is never refused later because the   *)
(* right was taken away meanwhile, for any cashiers, features, sales and order of  *)
(* edits and uploads and any clocks of tills, as long as no two edits overlap: but  *)
(* for a till that was ahead, when the right went between the time it was done and   *)
(* the time the till gave it (PosCashiersService,                                   *)
(* PosScreenSettingsService, mayReturn).                                           *)
THEOREM RightsOutliveTheirLoss == RightsSpec => []RightWhenDone
<1>1. RightsInv => RightWhenDone
  BY DEF RightsInv, WhileAlone, JudgedRight, RightWhenDone, Between
<1>2. RightsInv /\ [RightsNext]_rightsVars => RightsInv'
  BY RightsStep
<1> QED
  BY <1>1, <1>2, RightsInitially, PTL DEF RightsSpec
=============================================================================
