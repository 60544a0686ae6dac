----------------------------- MODULE PosRights -----------------------------
(***************************************************************************)
(* What a till may do while it is offline.  A screen works with the rights   *)
(* it downloaded last; what it did is uploaded later and judged by           *)
(* PosService with the cashier's row and the screen's features as they are   *)
(* then.  A right that was withdrawn in the meantime must not cost what was  *)
(* done before: the cash has left the drawer.  returnRevokedAt and           *)
(* featureDisabledAt remember when that was, by the clock of the server; what  *)
(* the till did carries the time of the till's own clock (issuedAt), which      *)
(* may be ahead or behind and is corrected by nobody.                           *)
(***************************************************************************)
EXTENDS Integers, FiniteSets

CONSTANTS
  Cashiers,
  Editors,    \* requests of the office that edit cashiers or settings
  TillSales,  \* identifiers of what the screen does
  Wanted,     \* sets of features the office chooses
  Promotions, \* promotions of the product: isActive, startsAt, endsAt
  NoCashier,  \* a shift that was opened without a PIN
  LastStamp,  \* bound: the steps that take a time stamp
  TillSkew    \* bound: how far the clock of the till is from the server's

Features == {"customers", "creditSales"}
Never == -1

ASSUME RightsAssumption ==
  /\ Wanted \subseteq SUBSET Features /\ NoCashier \notin Cashiers
  /\ LastStamp \in Nat /\ TillSkew \in Nat
  /\ Promotions \subseteq [isActive : BOOLEAN, startsAt : Nat, endsAt : Nat]

VARIABLES
  cashiers,   \* pos_cashiers
  options,    \* sales_settings.posOptions: features, featureDisabledAt
  promotions, \* the promotion of the product: isActive, startsAt, endsAt
  signedIn,   \* pos_devices.returnsAllowed: may the user who is signed in take goods back
  copy,       \* what the screen has downloaded
  offline,    \* what it did and has not uploaded: kind, cashier, the till's time; the server's
              \* time and the rights of that time are history
  judged,     \* what was uploaded, with the answer; the time it was compared with is history
  audit,      \* pos_audit_logs: sales reported as sale_anomaly
  editor,     \* each request of the office: at which statement, and what it will write
  stamp,      \* the clock of the server
  alone       \* history: no two edits overlapped

rightsVars == <<cashiers, options, promotions, signedIn, copy, offline, judged, audit, editor, stamp, alone>>

Times == {Never} \cup 0 .. LastStamp
PosCashier == [canReturn : BOOLEAN, isActive : BOOLEAN, deleted : BOOLEAN, returnRevokedAt : Times]
PosOptions == [features : SUBSET Features, disabledAt : Times]
PosDone == [kind : {"return", "credit", "cheap"}, cashier : Cashiers \cup {NoCashier},
            issuedAt : 0 - TillSkew .. LastStamp + TillSkew, doneAt : 0 .. LastStamp, right : BOOLEAN]

CouldReturn(row) == row.canReturn /\ row.isActive
MayReturnNow(row) == CouldReturn(row) /\ ~row.deleted
Running(p, t) == p.isActive /\ p.startsAt <= t /\ t < p.endsAt

NoEdit == [at |-> "none"]

(* findForDevice, the options of the screen, findPromotionsForDevice, and the   *)
(* device's own row: the parts of a download                                    *)
Current ==
  [returns |-> {c \in Cashiers : MayReturnNow(cashiers[c])},
   features |-> options.features,
   promoted |-> {p \in {promotions} : p.isActive /\ stamp < p.endsAt},
   returnsAllowed |-> signedIn]

RightsInit ==
  /\ cashiers \in [Cashiers -> [canReturn : BOOLEAN, isActive : {TRUE}, deleted : {FALSE}, returnRevokedAt : {Never}]]
  /\ options = [features |-> Features, disabledAt |-> Never]
  /\ promotions \in Promotions
  /\ signedIn = FALSE
  /\ stamp = 0
  /\ copy = Current
  /\ offline = [s \in {} |-> {}] /\ judged = [s \in {} |-> {}]
  /\ audit = {}
  /\ editor = [r \in Editors |-> NoEdit]
  /\ alone = TRUE

Editing(r, where) == editor[r].at = where
TakeStamp == stamp < LastStamp /\ stamp' = stamp + 1
BeginEdit(r, step) ==
  /\ Editing(r, "none")
  /\ editor' = [editor EXCEPT ![r] = step]
  /\ alone' = (alone /\ \A q \in Editors : Editing(q, "none"))
  /\ UNCHANGED <<cashiers, options, promotions, signedIn, copy, offline, judged, audit>>
EndEdit(r) == editor' = [editor EXCEPT ![r] = NoEdit]

-----------------------------------------------------------------------------
(* slip: a cashier who is switched off has not lost the right (RightWhenDone) *)
UpdatedReturnOnly(row, canReturn, isActive) ==
  [canReturn |-> canReturn, isActive |-> isActive, deleted |-> FALSE,
   returnRevokedAt |-> CASE row.canReturn /\ ~canReturn -> stamp
                         [] canReturn -> Never
                         [] OTHER -> row.returnRevokedAt]

(* PosCashiersService.update: the row that was read, with what the office wants  *)
(* and the time at which the right went                                          *)
Updated(row, canReturn, isActive) ==
  LET can == canReturn /\ isActive
  IN  [canReturn |-> canReturn, isActive |-> isActive, deleted |-> FALSE,
       returnRevokedAt |-> CASE CouldReturn(row) /\ ~can -> stamp
                             [] can -> Never
                             [] OTHER -> row.returnRevokedAt]

BeginCashier(r, c, canReturn, isActive) ==
  /\ ~cashiers[c].deleted /\ TakeStamp
  /\ BeginEdit(r, [at |-> "cashier", of |-> c, row |-> Updated(cashiers[c], canReturn, isActive)])

(* .. then save: the whole row, deletedAt included                              *)
SaveCashier(r) ==
  /\ Editing(r, "cashier")
  /\ cashiers' = [cashiers EXCEPT ![editor[r].of] = editor[r].row]
  /\ EndEdit(r)
  /\ UNCHANGED <<options, promotions, signedIn, copy, offline, judged, audit, stamp, alone>>

(* remove: the time the right was lost, then the row, each a statement of its own *)
BeginRemoval(r, c) ==
  /\ ~cashiers[c].deleted /\ TakeStamp
  /\ BeginEdit(r, [at |-> IF CouldReturn(cashiers[c]) THEN "revoke" ELSE "remove", of |-> c, time |-> stamp])

Revoke(r) ==
  /\ Editing(r, "revoke")
  /\ cashiers' = [cashiers EXCEPT ![editor[r].of].returnRevokedAt = editor[r].time]
  /\ editor' = [editor EXCEPT ![r].at = "remove"]
  /\ UNCHANGED <<options, promotions, signedIn, copy, offline, judged, audit, stamp, alone>>

RemoveCashier(r) ==
  /\ Editing(r, "remove")
  /\ cashiers' = [cashiers EXCEPT ![editor[r].of].deleted = TRUE]
  /\ EndEdit(r)
  /\ UNCHANGED <<options, promotions, signedIn, copy, offline, judged, audit, stamp, alone>>

(* PosScreenSettingsService.update: a feature goes with the one it requires, and *)
(* what was on and is off now takes the time                                    *)
Required(wanted) == IF "customers" \in wanted THEN wanted ELSE {}
Switched(row, next) ==
  [features |-> next,
   disabledAt |-> CASE "creditSales" \in next -> Never
                    [] "creditSales" \in row.features \ next -> stamp
                    [] OTHER -> row.disabledAt]

BeginScreen(r, wanted) ==
  TakeStamp /\ BeginEdit(r, [at |-> "screen", row |-> Switched(options, Required(wanted))])

(* SalesSettingsService.update saves the whole row it read                      *)
BeginSettings(r) == BeginEdit(r, [at |-> "settings", row |-> options]) /\ UNCHANGED stamp

SaveOptions(r) ==
  /\ Editing(r, "screen") \/ Editing(r, "settings")
  /\ options' = editor[r].row
  /\ EndEdit(r)
  /\ UNCHANGED <<cashiers, promotions, signedIn, copy, offline, judged, audit, stamp, alone>>

(* createPromotion, updatePromotion and removePromotion: an end is after the start *)
EditPromotion(p) ==
  /\ p.startsAt < p.endsAt /\ p # promotions
  /\ promotions' = p
  /\ UNCHANGED <<cashiers, options, signedIn, copy, offline, judged, audit, editor, stamp, alone>>

-----------------------------------------------------------------------------
(* PosDeviceGuard: another user signs in on the screen; the right is kept with   *)
(* the device, for the uploads the screen makes with its key alone              *)
SignIn(may) ==
  /\ signedIn # may
  /\ signedIn' = may
  /\ UNCHANGED <<cashiers, options, promotions, copy, offline, judged, audit, editor, stamp, alone>>

(* bootstrapDevice: every part is a query of its own                            *)
Download(part) ==
  /\ copy[part] # Current[part]
  /\ copy' = [copy EXCEPT ![part] = Current[part]]
  /\ UNCHANGED <<cashiers, options, promotions, signedIn, offline, judged, audit, editor, stamp, alone>>

TillTimes == stamp - TillSkew .. stamp + TillSkew

(* The screen stamps what it does with its own clock                            *)
Do(s, kind, c, issuedAt, right) ==
  /\ TakeStamp
  /\ s \notin DOMAIN offline \cup DOMAIN judged
  /\ offline' = [x \in DOMAIN offline \cup {s} |->
                  IF x = s
                  THEN [kind |-> kind, cashier |-> c, issuedAt |-> issuedAt, doneAt |-> stamp, right |-> right]
                  ELSE offline[x]]
  /\ UNCHANGED <<cashiers, options, promotions, signedIn, copy, judged, audit, editor, alone>>

(* From the time that is taken for it a right is withdrawn, also while the row   *)
(* is still on its way                                                          *)
Leaving(c) ==
  \E r \in Editors :
    \/ (Editing(r, "revoke") \/ Editing(r, "remove")) /\ editor[r].of = c
    \/ Editing(r, "cashier") /\ editor[r].of = c /\ ~CouldReturn(editor[r].row)
SwitchingOff == \E r \in Editors : Editing(r, "screen") /\ "creditSales" \notin editor[r].row.features

(* Offline, with the copy: a return in a cashier's shift or in one without, a   *)
(* sale on credit, a sale below the least price for a promotion                 *)
TakeBack(s, c, t) == c \in copy.returns /\ Do(s, "return", c, t, MayReturnNow(cashiers[c]) /\ ~Leaving(c))
TakeBackByUser(s, t) == copy.returnsAllowed /\ Do(s, "return", NoCashier, t, signedIn)
SellOnCredit(s, t) ==
  "creditSales" \in copy.features /\ Do(s, "credit", NoCashier, t, "creditSales" \in options.features /\ ~SwitchingOff)
SellCheap(s, t) ==
  (\E p \in copy.promoted : Running(p, t)) /\ Do(s, "cheap", NoCashier, t, Running(promotions, stamp))

-----------------------------------------------------------------------------
(* slip: the right of today decides (RightWhenDone) *)
CashierMayReturn(row, issuedAt) == MayReturnNow(row)

CashierCouldReturn(row, issuedAt) ==
  MayReturnNow(row) \/ (row.returnRevokedAt # Never /\ issuedAt <= row.returnRevokedAt)

(* mayReturn: the right is the one of the shift's cashier, or else of the user  *)
MayReturn(o) ==
  IF o.cashier = NoCashier THEN signedIn ELSE CashierCouldReturn(cashiers[o.cashier], o.issuedAt)

CreditAllowed(o) ==
  "creditSales" \in options.features \/ (options.disabledAt # Never /\ o.issuedAt < options.disabledAt)

Accepted(o) ==
  CASE o.kind = "return" -> MayReturn(o)
    [] o.kind = "credit" -> CreditAllowed(o)
    [] OTHER -> TRUE

(* The time at which the right went, as the rows have it *)
LostAt(o) ==
  IF o.kind = "return" /\ o.cashier # NoCashier THEN cashiers[o.cashier].returnRevokedAt ELSE options.disabledAt

(* runOperation of a return or a sale; reportSaleIssues looks for the promotion *)
(* as it is now                                                                 *)
JudgeDone(s) ==
  /\ s \in DOMAIN offline
  /\ offline' = [x \in DOMAIN offline \ {s} |-> offline[x]]
  /\ judged' = [x \in DOMAIN judged \cup {s} |->
                 IF x = s
                 THEN [done |-> offline[s], accepted |-> Accepted(offline[s]), lostAt |-> LostAt(offline[s])]
                 ELSE judged[x]]
  /\ audit' = IF offline[s].kind = "cheap" /\ ~Running(promotions, offline[s].issuedAt) THEN audit \cup {s} ELSE audit
  /\ UNCHANGED <<cashiers, options, promotions, signedIn, copy, editor, stamp, alone>>

RightsNext ==
  \/ \E r \in Editors :
       \/ \E c \in Cashiers :
            (\E canReturn, isActive \in BOOLEAN : BeginCashier(r, c, canReturn, isActive)) \/ BeginRemoval(r, c)
       \/ \E wanted \in Wanted : BeginScreen(r, wanted)
       \/ BeginSettings(r) \/ SaveCashier(r) \/ Revoke(r) \/ RemoveCashier(r) \/ SaveOptions(r)
  \/ \E p \in Promotions : EditPromotion(p)
  \/ \E may \in BOOLEAN : SignIn(may)
  \/ \E part \in DOMAIN copy : Download(part)
  \/ \E s \in TillSales :
       \/ \E t \in TillTimes :
            (\E c \in Cashiers : TakeBack(s, c, t)) \/ TakeBackByUser(s, t) \/ SellOnCredit(s, t) \/ SellCheap(s, t)
       \/ JudgeDone(s)

RightsSpec == RightsInit /\ [][RightsNext]_rightsVars

-----------------------------------------------------------------------------
(* The rows of the tables, and what a screen queues: PosCashiersService,        *)
(* SalesSettingsService and PosService write no other                            *)
RightsTypeOK ==
  /\ cashiers \in [Cashiers -> PosCashier] /\ options \in PosOptions
  /\ \A s \in DOMAIN offline : offline[s] \in PosDone
  /\ \A s \in DOMAIN judged : judged[s].done \in PosDone

(* What a cashier was allowed to do when it was done is not refused because the *)
(* right was withdrawn later, by whichever of the ways the office has: taking   *)
(* it away, switching the cashier off, removing the cashier, switching the      *)
(* feature off or the one it requires.  A till whose clock is ahead can lose     *)
(* what it did shortly before: then the right went after it was done and not     *)
(* after the time the till gave it.  Two edits of a row at a time can break it    *)
(* (each saves what it read).                                                    *)
RightWhenDone ==
  /\ RightsTypeOK
  /\ alone => \A s \in DOMAIN judged :
       LET o == judged[s].done
       IN  o.right /\ (o.cashier # NoCashier \/ o.kind = "credit") =>
             \/ judged[s].accepted
             \/ o.doneAt < o.issuedAt /\ o.doneAt <= judged[s].lostAt /\ judged[s].lostAt <= o.issuedAt
=============================================================================
