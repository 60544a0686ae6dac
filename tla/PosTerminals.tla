--------------------------- MODULE PosTerminals ---------------------------
(***************************************************************************)
(* The tills of a company and the screens that are bound to them             *)
(* (PosService.bindDevice, unbindDevice, updateDevice, removeDevice and      *)
(* PosDeviceGuard).  A binding is four statements of a request and no        *)
(* transaction: read, claim the device, release the screen's other devices,  *)
(* issue a new key.  Only the screen that a device is bound to, holding its  *)
(* newest key, may upload without a session.                                 *)
(***************************************************************************)
EXTENDS Integers, FiniteSets

CONSTANTS
  Tills, Screens, Warehouses,
  Requests,
  MaxBindAttempts,  \* MAX_BIND_ATTEMPTS
  MaxKeys,          \* bound: keys issued
  MaxFaults         \* bound: requests that stop half way, answers that are lost

NoScreen == "none"
NoKey == 0

ASSUME TerminalsAssumption ==
  NoScreen \notin Screens /\ MaxKeys \in Nat /\ MaxBindAttempts \in Nat /\ MaxFaults \in Nat

VARIABLES
  device,   \* pos_devices, and whether a shift is open on it
  holds,    \* what each screen keeps: the device it was bound to and its key
  request,  \* each request: at which statement, for which device and screen
  keys,     \* keys issued so far
  faults,
  whole     \* history: no binding has stopped half way

terminalVars == <<device, holds, request, keys, faults, whole>>

PosDevice == [exists : BOOLEAN, isActive : BOOLEAN, warehouse : Warehouses, open : BOOLEAN,
              installation : Screens \cup {NoScreen}, key : 0 .. MaxKeys]
Idle == [at |-> "none"]

TerminalsInit ==
  /\ \E w \in Warehouses :
       device = [d \in Tills |-> [exists |-> TRUE, isActive |-> TRUE, warehouse |-> w, open |-> FALSE,
                                  installation |-> NoScreen, key |-> NoKey]]
  /\ holds = [s \in Screens |-> Idle]
  /\ request = [r \in Requests |-> Idle]
  /\ keys = 0 /\ faults = 0
  /\ whole = TRUE

At(r, where) == request[r].at = where
Start(r, step) == At(r, "none") /\ request' = [request EXCEPT ![r] = step]
GoTo(r, where) == request' = [request EXCEPT ![r].at = where]
Finish(r) == request' = [request EXCEPT ![r] = Idle]
Of(r) == request[r].device
By(r) == request[r].screen
Unbound(row) == [row EXCEPT !.installation = NoScreen, !.key = NoKey]
ActiveDevice(d) == device[d].exists /\ device[d].isActive

-----------------------------------------------------------------------------
(* bindDevice reads the device: it must be free or bound to this screen already *)
BeginBind(r, d, s) ==
  /\ ActiveDevice(d) /\ device[d].installation \in {NoScreen, s}
  /\ Start(r, [at |-> IF device[d].installation = s THEN "release" ELSE "claim",
               device |-> d, screen |-> s, attempt |-> 1])
  /\ UNCHANGED <<device, holds, keys, faults, whole>>

(* The claim is one statement that finds the device still free; otherwise the   *)
(* request reads again, and gives up after some attempts                        *)
Claim(r) ==
  /\ At(r, "claim")
  /\ \/ /\ device[Of(r)].installation = NoScreen
        /\ device' = [device EXCEPT ![Of(r)].installation = By(r)]
        /\ GoTo(r, "release")
     \/ /\ device[Of(r)].installation # NoScreen
        /\ IF request[r].attempt >= MaxBindAttempts THEN Finish(r) ELSE GoTo(r, "again")
        /\ UNCHANGED device
  /\ UNCHANGED <<holds, keys, faults, whole>>

BindAgain(r) ==
  /\ At(r, "again")
  /\ CASE ~ActiveDevice(Of(r)) \/ device[Of(r)].installation \notin {NoScreen, By(r)} -> Finish(r)
       [] OTHER -> request' = [request EXCEPT ![r].attempt = @ + 1,
                     ![r].at = IF device[Of(r)].installation = NoScreen THEN "claim" ELSE "release"]
  /\ UNCHANGED <<device, holds, keys, faults, whole>>

(* slip: the other devices are released by the next binding (OneDevicePerScreen) *)
ReleaseNone(r) ==
  /\ At(r, "release")
  /\ GoTo(r, "issue")
  /\ UNCHANGED <<device, holds, keys, faults, whole>>

Release(r) ==
  /\ At(r, "release")
  /\ device' = [d \in Tills |-> IF d # Of(r) /\ device[d].installation = By(r) THEN Unbound(device[d]) ELSE device[d]]
  /\ GoTo(r, "issue")
  /\ UNCHANGED <<holds, keys, faults, whole>>

(* The key goes to the device whatever has become of it since                   *)
IssueKey(r) ==
  /\ At(r, "issue") /\ keys < MaxKeys
  /\ keys' = keys + 1
  /\ device' = [device EXCEPT ![Of(r)].key = keys + 1]
  /\ request' = [request EXCEPT ![r] = [at |-> "answer", device |-> Of(r), screen |-> By(r), key |-> keys + 1]]
  /\ UNCHANGED <<holds, faults, whole>>

(* findDevice once more: a device that was removed meanwhile answers an error   *)
BindAnswer(r) ==
  /\ At(r, "answer")
  /\ holds' = IF device[Of(r)].exists
              THEN [holds EXCEPT ![By(r)] = [at |-> "bound", device |-> Of(r), key |-> request[r].key]]
              ELSE holds
  /\ Finish(r)
  /\ UNCHANGED <<device, keys, faults, whole>>

Fault == faults < MaxFaults /\ faults' = faults + 1

LoseAnswer(r) ==
  /\ At(r, "answer") /\ Fault
  /\ Finish(r)
  /\ UNCHANGED <<device, holds, keys, whole>>

(* The server stops between two statements of a binding                         *)
Stop(r) ==
  /\ request[r].at \in {"claim", "again", "release", "issue"} /\ Fault
  /\ Finish(r)
  /\ whole' = FALSE
  /\ UNCHANGED <<device, holds, keys>>

-----------------------------------------------------------------------------
UnbindDevice(d) ==
  /\ device[d].exists /\ device[d].installation # NoScreen
  /\ device' = [device EXCEPT ![d] = Unbound(@)]
  /\ UNCHANGED <<holds, request, keys, faults, whole>>

SetActive(d, active) ==
  /\ device[d].exists /\ device[d].isActive # active
  /\ device' = [device EXCEPT ![d].isActive = active]
  /\ UNCHANGED <<holds, request, keys, faults, whole>>

(* assertNoOpenShift, then the update or the removal                            *)
BeginMove(r, d, w) ==
  /\ device[d].exists /\ ~device[d].open /\ w # device[d].warehouse
  /\ Start(r, [at |-> "move", device |-> d, to |-> w])
  /\ UNCHANGED <<device, holds, keys, faults, whole>>

Move(r) ==
  /\ At(r, "move")
  /\ device' = [device EXCEPT ![Of(r)].warehouse = request[r].to]
  /\ Finish(r)
  /\ UNCHANGED <<holds, keys, faults, whole>>

BeginRemove(r, d) ==
  /\ device[d].exists /\ ~device[d].open
  /\ Start(r, [at |-> "remove", device |-> d])
  /\ UNCHANGED <<device, holds, keys, faults, whole>>

Remove(r) ==
  /\ At(r, "remove")
  /\ device' = [device EXCEPT ![Of(r)].exists = FALSE]
  /\ Finish(r)
  /\ UNCHANGED <<holds, keys, faults, whole>>

-----------------------------------------------------------------------------
(* PosDeviceGuard: the newest key, a device in use, and the screen it is bound to *)
Heard(s) ==
  /\ holds[s].at = "bound"
  /\ ActiveDevice(holds[s].device)
  /\ device[holds[s].device].key = holds[s].key
  /\ device[holds[s].device].installation = s

(* shift.open and shift.close of an upload that the guard let in                *)
Upload(s) ==
  /\ Heard(s)
  /\ device' = [device EXCEPT ![holds[s].device].open = ~@]
  /\ UNCHANGED <<holds, request, keys, faults, whole>>

TerminalsNext ==
  \/ \E r \in Requests :
       \/ \E d \in Tills :
            (\E s \in Screens : BeginBind(r, d, s)) \/ (\E w \in Warehouses : BeginMove(r, d, w)) \/ BeginRemove(r, d)
       \/ Claim(r) \/ BindAgain(r) \/ Release(r) \/ IssueKey(r) \/ BindAnswer(r) \/ LoseAnswer(r) \/ Stop(r)
       \/ Move(r) \/ Remove(r)
  \/ \E d \in Tills : UnbindDevice(d) \/ (\E active \in BOOLEAN : SetActive(d, active))
  \/ \E s \in Screens : Upload(s)

TerminalsSpec == TerminalsInit /\ [][TerminalsNext]_terminalVars

-----------------------------------------------------------------------------
(* The rows of the table: PosService writes no other *)
TerminalsTypeOK == device \in [Tills -> PosDevice]

(* A screen sells for one till: when no binding is at work and none stopped     *)
(* half way, at most one device in use is bound to it, although two of its      *)
(* requests may claim two devices at the same time (bindDevice claims first and *)
(* releases the others after).                                                  *)
OneDevicePerScreen ==
  whole /\ (\A r \in Requests : request[r].at \notin {"release", "issue"}) =>
    \A s \in Screens : Cardinality({d \in Tills : device[d].installation = s}) <= 1
=============================================================================
