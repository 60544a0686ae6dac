------------------------------ MODULE Devices ------------------------------
(***************************************************************************)
(* Attendance devices that speak ADMS.  A device pushes its punches from the   *)
(* stamp the server gave it, asks for its commands and answers them; templates  *)
(* of fingers that it uploads are kept and copied to the other devices.         *)
(* Requests are repeated, late and out of order, and several are served at a     *)
(* time (desks), statement by statement; the device itself, its memory and its    *)
(* log, is outside the code.  One template stands for those of an       *)
(* employee; a version is what it holds, 0 is none.                              *)
(***************************************************************************)
EXTENDS Integers, Sequences, FiniteSets, SequencesExt, FiniteSetsExt

CONSTANTS
  Devices, Employees,
  Desks,         \* requests at work
  CommandsPerPoll,
  MaxAttempts,   \* MAX_COMMAND_ATTEMPTS
  MaxIndex,      \* bound on the punches of a device
  MaxVersion,    \* bound on the templates enrolled
  MaxSeq,        \* bound on the rows of device_commands
  MaxAsked, MaxPurges, MaxAltered   \* bounds on what the administrators do

VARIABLES
  devices,    \* biometric_devices, by serial number
  commands,   \* device_commands, by seq
  templates,  \* biometric_templates: the row of each employee
  policy,     \* attendance_settings.sync_biometrics
  stored,     \* the punches of each device in attendance_logs, by their index
  jobs,       \* what each request is doing
  machine,    \* each device: its log, what of it cannot be read, what it takes as received,
              \* and the templates it has to send
  net,        \* requests and answers on their way, or already arrived
  history     \* history: devices created, changed or removed, templates enrolled on devices,
              \* times an employee was sent to one, times copying was switched off, and purges

deviceVars == <<devices, commands, templates, policy, stored, jobs, machine, net, history>>

-----------------------------------------------------------------------------
(* id: the row of a serial number, that is removed and added again *)
BiometricDevice ==
  [id : Nat, state : {"none", "active", "disabled"}, handshakeAt : BOOLEAN, lastLogIndex : 0..MaxIndex]

NewDevice(id) == [id |-> id, state |-> "active", handshakeAt |-> FALSE, lastLogIndex |-> 0]

(* ref: the row of the template; waits: sent, or finished, less than the delay ago *)
DeviceCommand ==
  [device : Devices, id : Nat, kind : {"user", "template", "check"}, e : Employees \cup {"nobody"},
   ref : Nat, attempts : Nat, waits : BOOLEAN, isExecuted : BOOLEAN, returnCode : {"none", "ok"},
   deleted : BOOLEAN]

Command(d, kind, e, ref) ==
  [device |-> d, id |-> devices[d].id, kind |-> kind, e |-> e, ref |-> ref, attempts |-> 0,
   waits |-> FALSE, isExecuted |-> FALSE, returnCode |-> "none", deleted |-> FALSE]

NoTemplate == [version |-> 0, id |-> 0]

(* found: what a poll read of the commands; lines: what it sends; record: the template *)
(* that was uploaded, ids: its row; wanted: what is to be put into a queue, looked for there or not    *)
NoJob ==
  [do |-> "none", device |-> "nowhere", row |-> "none", found |-> <<>>, lines |-> {},
   record |-> <<"nobody", 0>>, ids |-> {}, targets |-> {}, wanted |-> <<>>, looked |-> FALSE]

Init ==
  /\ devices = [d \in Devices |-> [NewDevice(0) EXCEPT !.state = "none"]]
  /\ commands = <<>>
  /\ templates = [e \in Employees |-> NoTemplate]
  /\ policy = TRUE
  /\ stored = [d \in Devices |-> {}]
  /\ jobs = [r \in Desks |-> NoJob]
  /\ machine = [d \in Devices |-> [log |-> 0, spoilt |-> {}, acked |-> 0, outbox |-> <<>>]]
  /\ net = {}
  /\ history = [created |-> 0, altered |-> 0, enrolled |-> 0, asked |-> 0, off |-> 0, purged |-> 0]

-----------------------------------------------------------------------------
(* admitted *)
Admitted(d) == devices[d].state = "active"

Live(i, d) == commands[i].device = d /\ commands[i].id = devices[d].id /\ ~commands[i].deleted
Pending(i, d) == Live(i, d) /\ ~commands[i].isExecuted

Idle(r) == jobs[r] = NoJob
Hold(r, job) == jobs' = [jobs EXCEPT ![r] = job]
Free(r) == Hold(r, NoJob)

(* The server stops, or a statement fails: what a request did so far stays *)
Fails(r) ==
  /\ ~Idle(r)
  /\ Free(r)
  /\ UNCHANGED <<devices, commands, templates, policy, stored, machine, net, history>>

-----------------------------------------------------------------------------
(* createDevice, removeDevice, and updateDevice, that saves the row as it read it: *)
(* its stamp too, and a row that was removed meanwhile again                        *)
CreateDevice(d) ==
  /\ devices[d].state = "none"
  /\ history' = [history EXCEPT !.created = @ + 1]
  /\ devices' = [devices EXCEPT ![d] = NewDevice(history.created)]
  /\ UNCHANGED <<commands, templates, policy, stored, jobs, machine, net>>

BeginUpdate(r, d, state) ==
  /\ Idle(r)
  /\ devices[d].state \in {"active", "disabled"} \ {state}
  /\ history.altered < MaxAltered
  /\ history' = [history EXCEPT !.altered = @ + 1]
  /\ Hold(r, [NoJob EXCEPT !.do = "update", !.device = d, !.row = [devices[d] EXCEPT !.state = state]])
  /\ UNCHANGED <<devices, commands, templates, policy, stored, machine, net>>

UpdateDevice(r) ==
  LET d == jobs[r].device   row == jobs[r].row
  IN /\ jobs[r].do = "update"
     /\ devices[d].state = "none" \/ devices[d].id = row.id
     /\ devices' = [devices EXCEPT ![d] = row]
     /\ Free(r)
     /\ UNCHANGED <<commands, templates, policy, stored, machine, net, history>>

RemoveDevice(d) ==
  /\ devices[d].state # "none" /\ history.altered < MaxAltered
  /\ history' = [history EXCEPT !.altered = @ + 1]
  /\ devices' = [devices EXCEPT ![d].state = "none"]
  /\ commands' = [i \in DOMAIN commands |-> [commands[i] EXCEPT !.deleted = @ \/ Live(i, d)]]
  /\ UNCHANGED <<templates, policy, stored, jobs, machine, net>>

-----------------------------------------------------------------------------
(* templatesOf, and queueEmployee: the user, and then his template *)
TemplatesOf(e) == IF policy /\ templates[e] # NoTemplate THEN {templates[e].id} ELSE {}

ForEmployee(d, e, ids) ==
  <<Command(d, "user", e, 0)>> \o SetToSeq({Command(d, "template", e, id) : id \in ids})

(* queueAllEmployees, and syncUsers for one: what is wanted in the queue .. *)
QueueEmployee(r, d, e) ==
  /\ Idle(r) /\ devices[d].state = "active"
  /\ history.asked < MaxAsked
  /\ history' = [history EXCEPT !.asked = @ + 1]
  /\ Hold(r, [NoJob EXCEPT !.do = "queue", !.wanted = ForEmployee(d, e, TemplatesOf(e))])
  /\ UNCHANGED <<devices, commands, templates, policy, stored, machine, net>>

(* .. enqueue: what is not waiting there already .. *)
Same(c, wanted) ==
  /\ c.device = wanted.device /\ c.id = wanted.id /\ ~c.deleted /\ ~c.isExecuted
  /\ c.kind = wanted.kind /\ c.e = wanted.e /\ c.ref = wanted.ref

Waits(wanted) == {i \in DOMAIN commands : Same(commands[i], wanted)}

Found(i) == <<i, commands[i].attempts>>

(* what a request goes on with: a check is sent, a template copied to the next device *)
Enqueued(job) ==
  IF job.wanted # <<>> THEN job
  ELSE CASE job.do = "queue"  -> NoJob
         [] job.do = "check"  -> [job EXCEPT !.do = "poll", !.looked = FALSE]
         [] job.do = "spread" -> [job EXCEPT !.do = IF job.targets = {} THEN "same" ELSE @, !.looked = FALSE]

Look(r) ==
  LET job == jobs[r]
  IN /\ job.wanted # <<>> /\ ~job.looked
     /\ Hold(r, Enqueued(
          [job EXCEPT !.looked = TRUE,
                      !.wanted = SelectSeq(@, LAMBDA c : Waits(c) = {}),
                      !.found = IF job.do = "check" /\ Waits(Head(job.wanted)) # {}
                                THEN <<Found(Min(Waits(Head(job.wanted))))>> ELSE <<>>]))
     /\ UNCHANGED <<devices, commands, templates, policy, stored, machine, net, history>>

(* .. is saved, one by one *)
SaveCommand(r) ==
  LET job == jobs[r]
  IN /\ job.looked /\ Len(commands) < MaxSeq
     /\ commands' = Append(commands, Head(job.wanted))
     /\ Hold(r, Enqueued([job EXCEPT !.wanted = Tail(@),
                                     !.found = IF job.do = "check" THEN <<<<Len(commands'), 0>>>> ELSE @]))
     /\ UNCHANGED <<devices, templates, policy, stored, machine, net, history>>

-----------------------------------------------------------------------------
(* The device: a punch, perhaps one in a line that cannot be read, and an upload *)
(* of what it takes as not received                                                *)
MachinePunch(d, readable) ==
  LET index == machine[d].log + 1
  IN /\ index <= MaxIndex
     /\ machine' = [machine EXCEPT ![d].log = index,
                                   ![d].spoilt = IF readable THEN @ ELSE @ \cup {index}]
     /\ UNCHANGED <<devices, commands, templates, policy, stored, jobs, net, history>>

Upload(d) ==
  LET m == [to |-> "punches", device |-> d, from |-> machine[d].acked + 1, stamp |-> machine[d].log]
  IN /\ machine[d].acked < machine[d].log /\ m \notin net
     /\ net' = net \cup {m}
     /\ UNCHANGED <<devices, commands, templates, policy, stored, jobs, machine, history>>

(* parseBatch: a line that cannot be read is skipped *)
Readable(m) == (m.from..m.stamp) \ machine[m.device].spoilt

(* processAttendanceLogs: the punches and the stamp, if it can be read, are one *)
(* transaction, that may fail; the answer may be lost                             *)
ReceivePunches(m, stamped, answered) ==
  /\ m.to = "punches" /\ Admitted(m.device)
  /\ stored' = [stored EXCEPT ![m.device] = @ \cup Readable(m)]
  /\ devices' = IF stamped THEN [devices EXCEPT ![m.device].lastLogIndex = m.stamp] ELSE devices
  /\ machine' = [machine EXCEPT ![m.device].acked = IF answered /\ m.stamp > @ THEN m.stamp ELSE @]
  /\ UNCHANGED <<commands, templates, policy, jobs, net, history>>

(* slip: the device is told to go on after its last punch (StampCoversStored) *)
StampOfMachine(d) == machine[d].log

StampOf(d) == devices[d].lastLogIndex

(* handleDeviceInit: the device goes on from the stamp *)
DeviceInit(d) ==
  /\ Admitted(d)
  /\ devices' = [devices EXCEPT ![d].handshakeAt = TRUE]
  /\ machine' = [machine EXCEPT ![d].acked = StampOf(d)]
  /\ UNCHANGED <<commands, templates, policy, stored, jobs, net, history>>

-----------------------------------------------------------------------------
(* getPendingCommand: the first of those that are due are read .. *)
Due(d) == SetToSortSeq({i \in DOMAIN commands : Pending(i, d) /\ ~commands[i].waits}, <)

Checks(d) == {i \in DOMAIN commands : Live(i, d) /\ commands[i].kind = "check"}

BeginPoll(r, d, n) ==
  /\ Idle(r) /\ Admitted(d) /\ devices[d].handshakeAt
  /\ n \in DOMAIN Due(d)
  /\ Hold(r, [NoJob EXCEPT !.do = "poll", !.device = d, !.found = [k \in 1..n |-> Found(Due(d)[k])]])
  /\ UNCHANGED <<devices, commands, templates, policy, stored, machine, net, history>>

(* .. or handshakeRequest: a device that is not known is asked who it is, when *)
(* something waits for it and it was not asked just before ..                    *)
RequestHandshake(r, d) ==
  LET due == Checks(d) \cap Range(Due(d))
      poll == [NoJob EXCEPT !.do = "poll", !.device = d]
  IN /\ Idle(r) /\ Admitted(d) /\ ~devices[d].handshakeAt
     /\ \/ due # {} /\ Hold(r, [poll EXCEPT !.found = <<Found(Min(due))>>])
        \/ /\ due = {}
           /\ \E i \in DOMAIN commands : Pending(i, d) /\ commands[i].kind # "check"
           /\ Checks(d) # {} => commands[Max(Checks(d))].isExecuted /\ ~commands[Max(Checks(d))].waits
           /\ Hold(r, [poll EXCEPT !.do = "check", !.wanted = <<Command(d, "check", "nobody", 0)>>])
     /\ UNCHANGED <<devices, commands, templates, policy, stored, machine, net, history>>

(* .. each is rendered; what was sent often enough when it was read is dropped, and *)
(* so is a template that is gone ..                                                   *)
(* slip: one attempt too many (SentSeldom) *)
AttemptsLeftToo(attempts) == attempts <= MaxAttempts

AttemptsLeft(attempts) == attempts < MaxAttempts

Rendered(c) == c.kind = "template" => templates[c.e] # NoTemplate /\ templates[c.e].id = c.ref

Render(r) ==
  LET job == jobs[r]
      i == Head(job.found)[1]
      c == commands[i]
      sent == AttemptsLeft(Head(job.found)[2]) /\ Rendered(c)
      line == [seq |-> i, version |-> IF c.kind = "template" THEN templates[c.e].version ELSE 0]
  IN /\ job.do = "poll" /\ job.found # <<>>
     /\ Hold(r, [job EXCEPT !.found = Tail(@), !.lines = IF sent THEN @ \cup {line} ELSE @])
     /\ commands' = IF sent \/ c.deleted THEN commands
                    ELSE [commands EXCEPT ![i].isExecuted = TRUE, ![i].waits = TRUE]
     /\ UNCHANGED <<devices, templates, policy, stored, machine, net, history>>

(* .. and the attempt of those that are sent is counted.  nth tells one sending from *)
(* another: the device is sent the seq only                                            *)
Counted(i, lines) == ~commands[i].deleted /\ \E line \in lines : line.seq = i

Answer(r) ==
  LET job == jobs[r]
  IN /\ job.do = "poll" /\ job.found = <<>>
     /\ commands' = [i \in DOMAIN commands |->
          IF Counted(i, job.lines) THEN [commands[i] EXCEPT !.attempts = @ + 1, !.waits = TRUE] ELSE commands[i]]
     /\ net' = net \cup {[to |-> "device", device |-> job.device, seq |-> line.seq,
                          nth |-> commands[line.seq].attempts + 1, version |-> line.version] : line \in job.lines}
     /\ Free(r)
     /\ UNCHANGED <<devices, templates, policy, stored, machine, history>>

(* The device carries out a command that came, and keeps the template to send it back *)
Execute(m) ==
  LET d == m.device   answer == [to |-> "confirm", device |-> d, seq |-> m.seq, nth |-> m.nth]
  IN /\ m.to = "device" /\ answer \notin net
     /\ net' = net \cup {answer}
     /\ machine' = IF m.version = 0 THEN machine
                   ELSE [machine EXCEPT ![d].outbox = Append(@, <<commands[m.seq].e, m.version>>)]
     /\ UNCHANGED <<devices, commands, templates, policy, stored, jobs, history>>

(* confirmCommands: the first answer stands, a late one of a dropped command too *)
Confirm(m) ==
  /\ m.to = "confirm" /\ Admitted(m.device)
  /\ Live(m.seq, m.device) /\ commands[m.seq].returnCode = "none"
  /\ commands' = [commands EXCEPT ![m.seq] =
       [@ EXCEPT !.isExecuted = TRUE, !.waits = TRUE, !.returnCode = "ok"]]
  /\ UNCHANGED <<devices, templates, policy, stored, jobs, machine, net, history>>

(* RESEND_AFTER_MS and the interval of handshakes pass *)
Elapse(i) ==
  /\ commands[i].waits
  /\ commands' = [commands EXCEPT ![i].waits = FALSE]
  /\ UNCHANGED <<devices, templates, policy, stored, jobs, machine, net, history>>

-----------------------------------------------------------------------------
(* A finger is enrolled on a device *)
Enrol(d, e) ==
  /\ history.enrolled < MaxVersion
  /\ history' = [history EXCEPT !.enrolled = @ + 1]
  /\ machine' = [machine EXCEPT ![d].outbox = Append(@, <<e, history'.enrolled>>)]
  /\ UNCHANGED <<devices, commands, templates, policy, stored, jobs, net>>

(* processOperationLog and receive: the policy is read .. *)
BeginReceive(r, d) ==
  /\ Idle(r) /\ Admitted(d) /\ machine[d].outbox # <<>>
  /\ \A other \in Desks : jobs[other].do \in {"read", "changed", "spread", "same"} => jobs[other].device # d
  /\ IF policy
     THEN /\ Hold(r, [NoJob EXCEPT !.do = "read", !.device = d, !.record = Head(machine[d].outbox)])
          /\ UNCHANGED machine
     ELSE /\ machine' = [machine EXCEPT ![d].outbox = Tail(@)]
          /\ UNCHANGED jobs
  /\ UNCHANGED <<devices, commands, templates, policy, stored, net, history>>

(* the same template that came back from a device it was copied to is no change *)
Changed(record) == templates[record[1]].version # record[2]

(* .. what changed is stored in a transaction: the row there is, or a new one .. *)
StoreTemplate(r) ==
  LET record == jobs[r].record
      id == IF templates[record[1]] = NoTemplate THEN history.purged ELSE templates[record[1]].id
  IN /\ jobs[r].do = "read"
     /\ templates' = [templates EXCEPT ![record[1]] = [version |-> record[2], id |-> id]]
     /\ Hold(r, [jobs[r] EXCEPT !.do = IF Changed(record) THEN "changed" ELSE "same", !.ids = {id}])
     /\ UNCHANGED <<devices, commands, policy, stored, machine, net, history>>

(* .. then spread copies it to the other devices that are at work, one by one *)
Targets(d) == {other \in Devices \ {d} : devices[other].state = "active"}

FindTargets(r) ==
  LET job == jobs[r]
      copies == {ForEmployee(other, job.record[1], job.ids) : other \in Targets(job.device)}
  IN /\ job.do = "changed"
     /\ Hold(r, Enqueued([job EXCEPT !.do = "spread", !.targets = copies]))
     /\ UNCHANGED <<devices, commands, templates, policy, stored, machine, net, history>>

NextTarget(r) ==
  LET job == jobs[r]
  IN /\ job.do = "spread" /\ job.wanted = <<>>
     /\ \E copy \in job.targets :
          Hold(r, [job EXCEPT !.wanted = copy, !.looked = FALSE, !.targets = @ \ {copy}])
     /\ UNCHANGED <<devices, commands, templates, policy, stored, machine, net, history>>

(* its answer; when none arrives the device sends it again *)
AnswerReceive(r) ==
  /\ jobs[r].do = "same"
  /\ Free(r)
  /\ machine' = [machine EXCEPT ![jobs[r].device].outbox = Tail(@)]
  /\ UNCHANGED <<devices, commands, templates, policy, stored, net, history>>

-----------------------------------------------------------------------------
(* updateSettings switches copying on .. *)
SwitchOn ==
  /\ ~policy
  /\ policy' = TRUE
  /\ UNCHANGED <<devices, commands, templates, stored, jobs, machine, net, history>>

(* .. or off, or leaves it off: the policy is saved, read again, and if it is off ..  *)
SwitchOff(r) ==
  /\ Idle(r) /\ history.off < MaxPurges
  /\ history' = [history EXCEPT !.off = @ + 1]
  /\ policy' = FALSE
  /\ Hold(r, [NoJob EXCEPT !.do = "off"])
  /\ UNCHANGED <<devices, commands, templates, stored, machine, net>>

ReadPolicy(r) ==
  /\ jobs[r].do = "off"
  /\ IF policy THEN Free(r) ELSE Hold(r, [NoJob EXCEPT !.do = "purge"])
  /\ UNCHANGED <<devices, commands, templates, policy, stored, machine, net, history>>

(* .. purge: no template is left, and no command of one *)
Purge(r) ==
  /\ jobs[r].do = "purge"
  /\ history' = [history EXCEPT !.purged = @ + 1]
  /\ templates' = [e \in Employees |-> NoTemplate]
  /\ commands' = [i \in DOMAIN commands |->
       [commands[i] EXCEPT !.deleted = @ \/ (commands[i].kind = "template" /\ ~commands[i].isExecuted)]]
  /\ Free(r)
  /\ UNCHANGED <<devices, policy, stored, machine, net>>

-----------------------------------------------------------------------------
Next ==
  \/ \E d \in Devices :
       \/ CreateDevice(d) \/ RemoveDevice(d) \/ Upload(d) \/ DeviceInit(d)
       \/ \E readable \in BOOLEAN : MachinePunch(d, readable)
       \/ \E e \in Employees : Enrol(d, e)
  \/ \E r \in Desks :
       \/ \E d \in Devices :
            \/ \E state \in {"active", "disabled"} : BeginUpdate(r, d, state)
            \/ \E n \in 1..CommandsPerPoll : BeginPoll(r, d, n)
            \/ \E e \in Employees : QueueEmployee(r, d, e)
            \/ RequestHandshake(r, d) \/ BeginReceive(r, d)
       \/ UpdateDevice(r) \/ Look(r) \/ SaveCommand(r) \/ Render(r) \/ Answer(r)
       \/ StoreTemplate(r) \/ FindTargets(r) \/ NextTarget(r) \/ AnswerReceive(r)
       \/ SwitchOff(r) \/ ReadPolicy(r) \/ Purge(r) \/ Fails(r)
  \/ \E m \in net :
       Execute(m) \/ Confirm(m) \/ \E stamped, answered \in BOOLEAN : ReceivePunches(m, stamped, answered)
  \/ \E i \in DOMAIN commands : Elapse(i)
  \/ SwitchOn

Spec == Init /\ [][Next]_deviceVars

-----------------------------------------------------------------------------
(* The rows of the tables: AdmsService and BiometricSyncService write no other *)
TypeOK == devices \in [Devices -> BiometricDevice] /\ commands \in Seq(DeviceCommand)

(* Every punch up to the stamp of a device is stored, though uploads are repeated, *)
(* late and out of order, and the device is removed, added again and changed: what   *)
(* the device does not send any more is on the server, unless it could not be read    *)
StampCoversStored ==
  \A d \in Devices : devices[d].state # "none" =>
    (1..devices[d].lastLogIndex) \ machine[d].spoilt \subseteq stored[d]

(* A command is sent as often as MAX_COMMAND_ATTEMPTS says, and once more for each *)
(* other poll that may have read it before its last attempt was counted              *)
SentSeldom ==
  \A i \in DOMAIN commands : commands[i].attempts <= MaxAttempts + Cardinality(Desks) - 1

(* A template goes round once: the one template that was enrolled is copied to a *)
(* device at most once for its enrolment and once for each time it is asked for,   *)
(* whatever is sent twice and wherever the copying stops                            *)
NoCopyLoop ==
  history.enrolled = 1 /\ history.off = 0 =>
    \A d \in Devices :
      Cardinality({i \in DOMAIN commands : commands[i].device = d /\ commands[i].kind = "template"}) <= 1 + history.asked

(* A template is sent to a device after the employee it belongs to *)
UserBeforeTemplate ==
  \A i \in DOMAIN commands :
    commands[i].kind = "template" /\ commands[i].attempts > 0 /\ ~commands[i].deleted =>
      \E j \in 1..(i - 1) :
        /\ commands[j].device = commands[i].device /\ commands[j].e = commands[i].e
        /\ commands[j].kind = "user" /\ commands[j].attempts > 0

(* Nothing is lost between a device and the server, and nothing goes round *)
DevicesInStep == TypeOK /\ StampCoversStored /\ SentSeldom /\ NoCopyLoop /\ UserBeforeTemplate
=============================================================================
