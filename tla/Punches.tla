------------------------------ MODULE Punches ------------------------------
(***************************************************************************)
(* The punches of a company: what devices, files and phones send, how it is   *)
(* linked to the employees by the number they have on the devices, and what    *)
(* is edited by hand.  A source is the serial number of a device, a file, or    *)
(* the phone of an employee; a punch is known by its number and its time at its *)
(* source, and may be sent again and late.  A number stands for all its         *)
(* spellings (pinKey).  A request is two steps: what it reads, and what it       *)
(* writes.                                                                       *)
(***************************************************************************)
EXTENDS Integers, Sequences, FiniteSets, SequencesExt

CONSTANTS
  Employees,
  Code,       \* employeeCode of each employee
  Pins,       \* the numbers there are, codes among them
  NoPin,
  Phones, NoPhone,
  Devices,    \* serial numbers of devices, and the import of a file
  Desks,      \* requests at work
  LastTime,   \* bound on the time
  MaxLogs,    \* bound on the rows of attendance_logs
  MaxManual   \* bound on those made by hand

VARIABLES
  staff,    \* employees
  logs,     \* attendance_logs, in the order in which they were saved
  work,     \* what each request has read
  now,
  crossed   \* history: numbers at which two requests were at work, whose linking was lost,
            \* or that a row saved as it was read brought back or undid

punchVars == <<staff, logs, work, now, crossed>>

-----------------------------------------------------------------------------
Nobody == "nobody"
Times == 0..LastTime
Mobile(e) == <<"mobile", e>>
Manual == <<"manual", Nobody>>
Sources == Devices \cup {Mobile(e) : e \in Employees} \cup {Manual}
Sent == Pins \X Times

(* a batch of a device, and the rows of a file that are readable and not to come: *)
(* the name of a punch in a file is the one that its device gives it               *)
DeviceBatches == {batch \in SUBSET Sent : Cardinality(batch) \in 1..2}
FileRows == {batch \in SUBSET Sent : Cardinality(batch) = 2}

EmployeeRow ==
  [state : {"none", "active", "removed"}, pin : Pins \cup {NoPin}, phone : Phones \cup {NoPhone},
   mobilePunch : BOOLEAN]

AttendanceLog ==
  [source : Sources, pin : Pins, raw : Times, time : Times, owner : Employees \cup {Nobody},
   isEdited : BOOLEAN]

NoRow == [state |-> "none", pin |-> NoPin, phone |-> NoPhone, mobilePunch |-> TRUE]
NoWork == [do |-> "none", source |-> Manual, batch |-> {}, owners |-> [p \in {} |-> Nobody],
           e |-> Nobody, pin |-> NoPin, phone |-> NoPhone, log |-> 0, row |-> NoRow, links |-> FALSE]

Init ==
  /\ staff = [e \in Employees |-> NoRow]
  /\ logs = <<>>
  /\ work = [r \in Desks |-> NoWork]
  /\ now = 0
  /\ crossed = {}

-----------------------------------------------------------------------------
Active == {e \in Employees : staff[e].state = "active"}

(* employeePin *)
PinOf(e) == IF staff[e].pin # NoPin THEN staff[e].pin ELSE Code[e]
KnownBy(e, pin) == pin = Code[e] \/ pin = staff[e].pin

(* employeesByPin: whoever of those that are not removed has the number *)
OwnerByPin(pin) ==
  IF \E e \in Active : KnownBy(e, pin) THEN CHOOSE e \in Active : KnownBy(e, pin) ELSE Nobody

(* assertPinFree *)
PinFree(pin, e) == ~\E other \in Active \ {e} : KnownBy(other, pin)

(* relinkPunches *)
Relinked(e, pin) ==
  [i \in DOMAIN logs |->
     IF logs[i].owner = Nobody /\ logs[i].pin = pin THEN [logs[i] EXCEPT !.owner = e] ELSE logs[i]]

Idle(r) == work[r] = NoWork
Hold(r, row) == work' = [work EXCEPT ![r] = row]
Free(r) == work' = [work EXCEPT ![r] = NoWork]

(* the numbers a request is about: an edit that leaves the number is about none *)
Given(w) == IF w.pin = NoPin THEN Code[w.e] ELSE w.pin
PinsOf(w) == IF w.links THEN {Given(w)} ELSE {b[1] : b \in w.batch}
Crossing(r) == {p \in PinsOf(work[r]) : \E other \in Desks \ {r} : p \in PinsOf(work[other])}
CrossedAt(r) == crossed' = crossed \cup Crossing(r)

-----------------------------------------------------------------------------
(* The number an employee asks for is free, or is his code; none is what is not  *)
(* given, or his code again                                                       *)
PinAsked(e, pin) == IF pin = Code[e] THEN NoPin ELSE pin

BeginPin(r, e, pin, step) ==
  /\ Idle(r)
  /\ PinAsked(e, pin) # NoPin => PinFree(pin, e)
  /\ Hold(r, step)
  /\ UNCHANGED <<staff, logs, now, crossed>>

(* EmployeesService.create *)
BeginCreate(r, e, pin) ==
  /\ staff[e].state = "none" /\ \A other \in Desks : work[other].do = "create" => work[other].e # e
  /\ BeginPin(r, e, pin,
       [NoWork EXCEPT !.do = "create", !.e = e, !.pin = PinAsked(e, pin), !.links = TRUE,
                      !.row = [NoRow EXCEPT !.state = "active", !.pin = PinAsked(e, pin)]])

(* and update: of the number, or of the rest of the card.  It holds the whole row *)
(* as it read it, and links only when it changes the number that it read           *)
BeginUpdate(r, e, pin) ==
  /\ staff[e].state = "active"
  /\ BeginPin(r, e, pin,
       [NoWork EXCEPT !.do = "update", !.e = e, !.pin = PinAsked(e, pin),
                      !.links = PinAsked(e, pin) # staff[e].pin,
                      !.row = [staff[e] EXCEPT !.pin = PinAsked(e, pin)]])

BeginUpdateRest(r, e) ==
  /\ Idle(r) /\ staff[e].state = "active"
  /\ Hold(r, [NoWork EXCEPT !.do = "update", !.e = e, !.pin = staff[e].pin, !.row = staff[e]])
  /\ UNCHANGED <<staff, logs, now, crossed>>

(* UQ_employees_mobile_device: a row whose phone another has got is not saved *)
PhoneOfAnother(e, phone) ==
  phone # NoPhone /\ \E other \in Employees \ {e} : staff[other].phone = phone

(* what a row brings back that it does not link: its number, when that was changed *)
(* or the employee removed since it was read                                        *)
BroughtBack(w) ==
  IF ~w.links /\ (staff[w.e].pin # w.pin \/ staff[w.e].state # w.row.state) THEN {Given(w)} ELSE {}

SaveEmployee(r) ==
  LET w == work[r]
  IN /\ w.do \in {"create", "update"} /\ ~PhoneOfAnother(w.e, w.row.phone)
     /\ staff' = [staff EXCEPT ![w.e] = w.row]
     /\ IF w.links THEN Hold(r, [w EXCEPT !.do = "relink", !.row = NoRow]) ELSE Free(r)
     /\ crossed' = crossed \cup Crossing(r) \cup BroughtBack(w)
     /\ UNCHANGED <<logs, now>>

(* and the punches that came before, by a statement of its own *)
Relink(r) ==
  /\ work[r].do = "relink"
  /\ logs' = Relinked(work[r].e, Given(work[r]))
  /\ CrossedAt(r)
  /\ Free(r)
  /\ UNCHANGED <<staff, now>>

(* the server stops before it *)
RelinkLost(r) ==
  /\ work[r].do = "relink"
  /\ crossed' = crossed \cup PinsOf(work[r])
  /\ Free(r)
  /\ UNCHANGED <<staff, logs, now>>

(* linkPin, and the employee of onboard: one transaction *)
BeginLink(r, e, pin) ==
  /\ staff[e].state = "active"
  /\ BeginPin(r, e, pin,
       [NoWork EXCEPT !.do = "link", !.e = e, !.pin = PinAsked(e, pin), !.links = TRUE])

Link(r) ==
  LET w == work[r]
  IN /\ w.do = "link"
     /\ staff' = [staff EXCEPT ![w.e].pin = w.pin]
     /\ logs' = Relinked(w.e, Given(w))
     /\ CrossedAt(r)
     /\ Free(r)
     /\ UNCHANGED now

(* onboard: the employee and his punches are one transaction *)
Onboard(e, pin) ==
  LET given == IF pin = NoPin THEN Code[e] ELSE pin
  IN /\ staff[e].state = "none" /\ \A r \in Desks : work[r].do = "create" => work[r].e # e
     /\ pin # NoPin => PinFree(pin, e)
     /\ staff' = [staff EXCEPT ![e].state = "active", ![e].pin = pin]
     /\ logs' = Relinked(e, given)
     /\ crossed' = IF \E r \in Desks : given \in PinsOf(work[r]) THEN crossed \cup {given} ELSE crossed
     /\ UNCHANGED <<work, now>>

(* EmployeesService.remove *)
RemoveEmployee(e) ==
  /\ staff[e].state = "active"
  /\ staff' = [staff EXCEPT ![e].state = "removed"]
  /\ UNCHANGED <<logs, work, now, crossed>>

-----------------------------------------------------------------------------
(* PunchIngestService.save under the lock of its source: what is new of a *)
(* batch (withoutKnown), and whose it is                                    *)
Known(source) == {<<logs[i].pin, logs[i].raw>> : i \in {i \in DOMAIN logs : logs[i].source = source}}
(* slip: the source is not locked (SavedOnce) *)
SourceAlwaysFree(source) == TRUE

SourceFree(source) == ~\E r \in Desks : work[r].do \in {"save", "mobile"} /\ work[r].source = source

BeginSave(r, source, batch) ==
  LET fresh == batch \ Known(source)
  IN /\ Idle(r) /\ SourceFree(source)
     /\ fresh # {} /\ Len(logs) + Cardinality(fresh) <= MaxLogs
     /\ Hold(r, [NoWork EXCEPT !.do = "save", !.source = source, !.batch = fresh,
                               !.owners = [p \in {b[1] : b \in fresh} |-> OwnerByPin(p)]])
     /\ UNCHANGED <<staff, logs, now, crossed>>

(* import of a file, of a device or of none *)
ImportFile(r, source, rows) ==
  /\ \A row \in rows : row[2] <= now
  /\ BeginSave(r, source, rows)

Rows(source, batch, owners) ==
  SetToSeq({[source |-> source, pin |-> b[1], raw |-> b[2], time |-> b[2], owner |-> owners[b[1]],
             isEdited |-> FALSE] : b \in batch})

(* its commit; a device that gets no answer sends the batch again *)
CommitSave(r) ==
  LET w == work[r]
  IN /\ w.do \in {"save", "mobile"}
     /\ Len(logs) + Cardinality(w.batch) <= MaxLogs
     /\ logs' = logs \o Rows(w.source, w.batch, w.owners)
     /\ staff' = IF w.do = "mobile" THEN [staff EXCEPT ![w.e].phone = w.phone] ELSE staff
     /\ CrossedAt(r)
     /\ Free(r)
     /\ UNCHANGED <<now>>

Rollback(r) ==
  /\ work[r].do \in {"save", "mobile", "create", "update"}
  /\ Free(r)
  /\ UNCHANGED <<staff, logs, now, crossed>>

(* MyAttendanceService.punch with its lock on the employee: his own phone or *)
(* the first one, that nobody else has, and no punch just before               *)
LatestOf(e) == {logs[i].time : i \in {i \in DOMAIN logs : logs[i].owner = e}}

BeginMobile(r, e, phone) ==
  LET pin == PinOf(e)
  IN /\ Idle(r) /\ SourceFree(Mobile(e))
     /\ e \in Active /\ staff[e].mobilePunch
     /\ staff[e].phone \in {phone, NoPhone}
     /\ staff[e].phone = NoPhone => ~\E other \in Employees \ {e} : staff[other].phone = phone
     /\ \A t \in LatestOf(e) : t < now
     /\ Len(logs) < MaxLogs
     /\ Hold(r, [NoWork EXCEPT !.do = "mobile", !.source = Mobile(e), !.e = e, !.phone = phone,
                               !.batch = {<<pin, now>>}, !.owners = [p \in {pin} |-> OwnerByPin(p)]])
     /\ UNCHANGED <<staff, logs, now, crossed>>

(* the second of two that bind a phone fails *)
CommitMobile(r) ==
  work[r].do = "mobile" /\ ~PhoneOfAnother(work[r].e, work[r].phone) /\ CommitSave(r)

(* unbindDevice: it waits for a punch that holds the row of the employee *)
Unbind(e) ==
  /\ staff[e].phone # NoPhone /\ SourceFree(Mobile(e))
  /\ staff' = [staff EXCEPT ![e].phone = NoPhone]
  /\ UNCHANGED <<logs, work, now, crossed>>

(* createManualLog *)
ManualLog(e, time) ==
  /\ e \in Active /\ time <= now /\ Len(logs) < MaxLogs
  /\ Cardinality({i \in DOMAIN logs : logs[i].source = Manual}) < MaxManual
  /\ logs' = Append(logs, [source |-> Manual, pin |-> PinOf(e), raw |-> time, time |-> time,
                           owner |-> e, isEdited |-> FALSE])
  /\ UNCHANGED <<staff, work, now, crossed>>

(* updateLogTime: once, within a day of the original time, never to come.  The *)
(* row is saved as it was read, its employee too: a linking that was committed    *)
(* in between is undone                                                           *)
BeginEdit(r, i) ==
  /\ Idle(r) /\ i \in DOMAIN logs
  /\ ~logs[i].isEdited /\ now - logs[i].raw <= 1
  /\ Hold(r, [NoWork EXCEPT !.do = "edit", !.log = i, !.e = logs[i].owner])
  /\ UNCHANGED <<staff, logs, now, crossed>>

Edit(r, time) ==
  LET w == work[r]
      log == logs[w.log]
  IN /\ w.do = "edit" /\ time <= now
     /\ logs' = [logs EXCEPT ![w.log] = [log EXCEPT !.time = time, !.isEdited = TRUE, !.owner = w.e]]
     /\ crossed' = IF log.owner # w.e THEN crossed \cup {log.pin} ELSE crossed
     /\ Free(r)
     /\ UNCHANGED <<staff, now>>

Tick ==
  /\ now < LastTime
  /\ now' = now + 1
  /\ UNCHANGED <<staff, logs, work, crossed>>

Next ==
  \/ \E r \in Desks :
       \/ \E e \in Employees, pin \in Pins \cup {NoPin} : BeginCreate(r, e, pin) \/ BeginUpdate(r, e, pin)
       \/ \E e \in Employees : BeginUpdateRest(r, e)
       \/ \E e \in Employees, pin \in Pins : BeginLink(r, e, pin)
       \/ Relink(r) \/ RelinkLost(r)
       \/ \E source \in Devices :
            \/ \E batch \in DeviceBatches : BeginSave(r, source, batch)
            \/ \E rows \in FileRows : ImportFile(r, source, rows)
       \/ \E e \in Employees, phone \in Phones : BeginMobile(r, e, phone)
       \/ \E i \in DOMAIN logs : BeginEdit(r, i)
       \/ \E time \in Times : Edit(r, time)
       \/ SaveEmployee(r) \/ Link(r) \/ Rollback(r) \/ CommitMobile(r)
       \/ work[r].do = "save" /\ CommitSave(r)
  \/ \E e \in Employees :
       \/ RemoveEmployee(e) \/ Unbind(e)
       \/ \E pin \in Pins \cup {NoPin} : Onboard(e, pin)
       \/ \E time \in Times : ManualLog(e, time)
  \/ Tick

Spec == Init /\ [][Next]_punchVars

-----------------------------------------------------------------------------
(* The rows of the tables: EmployeesService and PunchIngestService write no other *)
TypeOK == staff \in [Employees -> EmployeeRow] /\ logs \in Seq(AttendanceLog)

(* A punch of a source is saved once, though it is sent again while the first *)
(* batch is still being saved                                                  *)
SavedOnce ==
  \A i, j \in DOMAIN logs :
    i # j /\ logs[i].source = logs[j].source /\ logs[i].source \in Devices =>
      <<logs[i].pin, logs[i].raw>> # <<logs[j].pin, logs[j].raw>>

(* No punch is left without the employee who has its number now, whichever came *)
(* first, the punch, the employee or the number: unless two requests were at    *)
(* work at the number, the server stopped before the linking, or a row that was  *)
(* saved as it was read undid a linking or brought the number back               *)
LinkedToOwner ==
  \A i \in DOMAIN logs :
    logs[i].owner = Nobody /\ logs[i].pin \notin crossed \cup UNION {PinsOf(work[r]) : r \in Desks} =>
      ~\E e \in Active : PinOf(e) = logs[i].pin

(* Two taps on the phones of an employee do not make two punches of one instant, *)
(* unless his number is another's too or the first of them was moved              *)
NoDoubleTap ==
  \A i, j \in DOMAIN logs : \A e \in Employees :
    /\ i # j /\ logs[i].source = Mobile(e) /\ logs[j].source = Mobile(e)
    /\ logs[i].owner = e /\ logs[j].owner = e
    /\ ~logs[i].isEdited /\ ~logs[j].isEdited
    => logs[i].raw # logs[j].raw

(* Each punch once, and with the employee whose number it carries *)
PunchesOfOwners == TypeOK /\ SavedOnce /\ LinkedToOwner /\ NoDoubleTap
=============================================================================
