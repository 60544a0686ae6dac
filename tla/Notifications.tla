------------------------------ MODULE Notifications ------------------------------
(***************************************************************************)
(* Notifications of one company (src/src/modules/notifications): the one   *)
(* entrance notify, which resolves who is to be told, leaves out who muted *)
(* the kind and writes a notification and its recipients in one            *)
(* transaction; the scanners that repeat on a timer or on demand, those of *)
(* lasting conditions (stock below its limit, invoices overdue, documents  *)
(* that would not post) through notification_alert_states and those of     *)
(* dates (contracts, permits, probations, the subscription) through the    *)
(* unique key of the notification; the listeners of domain events, which   *)
(* are kept in memory until they run; messages of the management; and the  *)
(* inbox of every user.  The live stream and the wording are left out.     *)
(***************************************************************************)
EXTENDS Integers, FiniteSets

CONSTANTS
    Accounts,      \* user accounts of the company that may log in
    Scope,      \* Scope[u]: the accounts u may write to (everybody, or some branches)
    Managers,   \* those who hold the right the notices of the office ask for
    Alerts,     \* conditions the scanners watch (stock levels, invoices, ...)
    GroupOf,    \* GroupOf[a]: the warehouse or branch whose notice carries a
    Scans,      \* scan rounds at work: the timer's and those asked for by hand
    Terms,      \* contracts, permits, probations: things with a date of end
    OwnerOf,    \* OwnerOf[t]: the account of the employee a term or request is of
    StaffRequests,   \* requests of employees (leave, advance, loan, resignation)
    Stages,     \* days before the end at which a term is notified
    Grace,      \* days after the end at which it still is
    Retention,  \* days a notification is kept
    MaxNotes, MaxFailures, LastDay  \* bounds of the state space

ASSUME NoticesAssumption ==
    /\ MaxNotes \in Nat /\ MaxFailures \in Nat /\ LastDay \in Nat
    /\ Managers \subseteq Accounts
    /\ \A t \in Terms \cup StaffRequests : OwnerOf[t] \in Accounts

VARIABLES
    active,     \* the conditions that hold now (tables of other components)
    states,     \* notification_alert_states
    scan,       \* each scan round: what it read, what it raised, where it is
    notes,      \* notifications: number, kind, key (<<>>: null), end
    inbox,      \* notification_recipients
    muted,      \* notification_preferences: muted[u] is the set of kinds
    ends,       \* ends[t]: the date of end of a term
    events,     \* domain events emitted and not yet heard, in memory
    today, seq, failures,
    handed,     \* history: rows whose alert a notice told to somebody
    unheard,    \* history: rows whose notice had nobody to reach
    stopped     \* history: rows of a round that ended half-way, before their notice

noticeVars == <<active, states, scan, notes, inbox, muted, ends, events, today, seq,
          failures, handed, unheard, stopped>>

NULL == <<>>
Kinds == {"condition", "expiry", "request", "decision", "message"}
Mutable(kind) == kind # "message"
Resting == [at |-> "idle", found |-> {}, raised |-> {}]

NoticesTypeOK ==
    /\ active \subseteq Alerts /\ states \subseteq Alerts
    /\ handed \subseteq Alerts /\ unheard \subseteq Alerts /\ stopped \subseteq Alerts
    /\ scan \in [Scans -> [at: {"idle", "compare", "raise", "tell"},
                           found: SUBSET Alerts, raised: SUBSET Alerts]]
    /\ \A n \in notes : n.id \in 1 .. seq /\ n.kind \in Kinds
    /\ inbox \subseteq [note: 1 .. MaxNotes + 2, user: Accounts, read: BOOLEAN,
                        acked: BOOLEAN, hidden: BOOLEAN]
    /\ muted \in [Accounts -> SUBSET {k \in Kinds : Mutable(k)}]
    /\ ends \in [Terms -> 0 .. LastDay + 1]
    /\ today \in 0 .. LastDay /\ seq \in Nat /\ failures \in 0 .. MaxFailures

NoticesInit ==
    /\ active = {} /\ states = {} /\ scan = [s \in Scans |-> Resting]
    /\ notes = {} /\ inbox = {} /\ muted = [u \in Accounts |-> {}]
    /\ ends \in [Terms -> {LastDay + 1}] /\ events = {}
    /\ today = 0 /\ seq = 0 /\ failures = 0
    /\ handed = {} /\ unheard = {} /\ stopped = {}

-----------------------------------------------------------------------------
(***************************************************************************)
(* The entrance.  A key that exists makes the insertion do nothing, and    *)
(* nobody to tell makes notify return before it.                           *)
(***************************************************************************)
Reached(to, but, kind) ==
    {u \in to \ but : ~Mutable(kind) \/ kind \notin muted[u]}

Stored(kind, key, keep) == [id |-> seq + 1, kind |-> kind, key |-> key,
                            expires |-> IF keep THEN LastDay + 1 ELSE today + Retention]

Delivered(n, users) ==
    {[note |-> n, user |-> u, read |-> FALSE, acked |-> FALSE, hidden |-> FALSE] : u \in users}

Known(key) == key # NULL /\ \E n \in notes : n.key = key

Notify(kind, key, to, but, keep) ==
    LET users == Reached(to, but, kind) IN
    IF users = {} \/ Known(key)
    THEN UNCHANGED <<notes, inbox, seq>>
    ELSE /\ seq < MaxNotes
         /\ notes' = notes \union {Stored(kind, key, keep)}
         /\ inbox' = inbox \union Delivered(seq + 1, users)
         /\ seq' = seq + 1

-----------------------------------------------------------------------------
(***************************************************************************)
(* Conditions come and go by the work of other components.                 *)
(***************************************************************************)
Turn(a) ==
    /\ active' = IF a \in active THEN active \ {a} ELSE active \union {a}
    /\ UNCHANGED <<states, scan, notes, inbox, muted, ends, events, today, seq, failures,
                   handed, unheard, stopped>>

\* The round reads the conditions that hold.
Look(s) ==
    /\ scan[s].at = "idle"
    /\ scan' = [scan EXCEPT ![s] = [at |-> "compare", found |-> active, raised |-> {}]]
    /\ UNCHANGED <<active, states, notes, inbox, muted, ends, events, today, seq, failures,
                   handed, unheard, stopped>>

\* What is remembered of a row goes with it.
OnlyOf(rows) ==
    /\ handed' = handed \intersect rows
    /\ unheard' = unheard \intersect rows
    /\ stopped' = stopped \intersect rows

\* First statement of sync: rows of conditions the round did not find go.
Forget(s) ==
    /\ scan[s].at = "compare"
    /\ states' = states \intersect scan[s].found
    /\ OnlyOf(states')
    /\ scan' = [scan EXCEPT ![s] =
                  IF scan[s].found = {} THEN Resting ELSE [@ EXCEPT !.at = "raise"]]
    /\ UNCHANGED <<active, notes, inbox, muted, ends, events, today, seq, failures>>

\* Second statement: what it inserted, and only that, is what it raises.
Fresh(s) == scan[s].found \ states

Raise(s) ==
    /\ scan[s].at = "raise"
    /\ states' = states \union scan[s].found
    /\ scan' = [scan EXCEPT ![s] =
                  IF Fresh(s) = {} THEN Resting
                  ELSE [@ EXCEPT !.at = "tell", !.raised = Fresh(s)]]
    /\ UNCHANGED <<active, notes, inbox, muted, ends, events, today, seq, failures,
                   handed, unheard, stopped>>

Told(s, keys) ==
    scan' = [scan EXCEPT ![s] =
               IF @.raised = keys THEN Resting
               ELSE [scan[s] EXCEPT !.raised = @ \ keys]]

\* One notice for each warehouse or branch the raised keys belong to.
Bundle(s, g) == {a \in scan[s].raised : GroupOf[a] = g}

Tell(s, g) ==
    /\ scan[s].at = "tell" /\ Bundle(s, g) # {}
    /\ Notify("condition", NULL, Managers, {}, FALSE)
    /\ Told(s, Bundle(s, g))
    /\ IF Reached(Managers, {}, "condition") = {}
       THEN /\ unheard' = unheard \union (Bundle(s, g) \intersect states)
            /\ UNCHANGED <<handed, stopped>>
       ELSE /\ handed' = handed \union (Bundle(s, g) \intersect states)
            /\ UNCHANGED <<unheard, stopped>>
    /\ UNCHANGED <<active, states, muted, ends, events, today, failures>>

\* slip: the rows of a notice that failed stay (SilencedIsTold)
ReleasedNothing(s, g) == states

\* The notice failed (notifySafe gave null): the rows go, the next round tries again.
Released(s, g) == states \ Bundle(s, g)

Fail(s, g) ==
    /\ scan[s].at = "tell" /\ Bundle(s, g) # {} /\ failures < MaxFailures
    /\ failures' = failures + 1
    /\ states' = Released(s, g)
    /\ OnlyOf(states')
    /\ Told(s, Bundle(s, g))
    /\ UNCHANGED <<active, notes, inbox, muted, ends, events, today, seq>>

\* Rounds that end half-way leave the rows of which they have told nobody yet.
Ended(rounds) ==
    /\ scan' = [s \in Scans |-> IF s \in rounds THEN Resting ELSE scan[s]]
    /\ stopped' = stopped \union (states \intersect UNION {scan[s].raised : s \in rounds})

\* A statement of the round fails, that of release too: scanAllTenants logs it and
\* goes on with the next company.
Break(s) ==
    /\ scan[s].at # "idle" /\ failures < MaxFailures
    /\ failures' = failures + 1
    /\ Ended({s})
    /\ UNCHANGED <<active, states, notes, inbox, muted, ends, events, today, seq,
                   handed, unheard>>

-----------------------------------------------------------------------------
(***************************************************************************)
(* Dates of end: the smallest stage reached, "expired" (here -1) for a few *)
(* days after, one notice to the office and one to the employee.           *)
(***************************************************************************)
StageOf(left) ==
    LET reached == {g \in Stages : left <= g} IN
    IF left < 0
    THEN IF -left <= Grace THEN {-1} ELSE {}
    ELSE {g \in reached : \A h \in reached : g <= h}

ScanTerm(t, to, but, who) ==
    \E stage \in StageOf(ends[t] - today) :
        /\ Notify("expiry", <<t, ends[t], stage, who>>, to, but, FALSE)
        /\ UNCHANGED <<active, states, scan, muted, ends, events, today, failures,
                       handed, unheard, stopped>>

TellOffice(t) == ScanTerm(t, Managers, {OwnerOf[t]}, "hr")
TellOwner(t) == ScanTerm(t, {OwnerOf[t]}, {}, "own")

Renew(t) ==
    /\ \E d \in 0 .. LastDay + 1 : d # ends[t] /\ ends' = [ends EXCEPT ![t] = d]
    /\ UNCHANGED <<active, states, scan, notes, inbox, muted, events, today, seq, failures,
                   handed, unheard, stopped>>

-----------------------------------------------------------------------------
(***************************************************************************)
(* Requests: the office hears of a new one, its employee of a decision or  *)
(* of one made on the employee's behalf, and nobody of an own act.         *)
(***************************************************************************)
Emit(q, what, u) ==
    /\ seq < MaxNotes
    /\ events' = events \union {[request |-> q, what |-> what, by |-> u]}
    /\ UNCHANGED <<active, states, scan, notes, inbox, muted, ends, today, seq, failures,
                   handed, unheard, stopped>>

HearRequest(e) ==
    /\ e.what = "requested"
    /\ Notify("request", <<e.request, "sent">>, Managers, {e.by, OwnerOf[e.request]}, FALSE)
    /\ events' = IF e.by = OwnerOf[e.request] THEN events \ {e}
                 ELSE (events \ {e}) \union {[e EXCEPT !.what = "onBehalf"]}
    /\ UNCHANGED <<active, states, scan, muted, ends, today, failures,
                   handed, unheard, stopped>>

HearDecision(e) ==
    /\ e.what \in {"decided", "onBehalf"}
    /\ Notify("decision", NULL, {OwnerOf[e.request]}, {e.by}, FALSE)
    /\ events' = events \ {e}
    /\ UNCHANGED <<active, states, scan, muted, ends, today, failures,
                   handed, unheard, stopped>>

\* The audience of a message: the company or its branches for those who may write
\* to all, chosen employees for the others, never outside the sender's branches.
Target(u, to) == to \intersect Scope[u] = to

\* A message to some of the accounts; refused when it reaches nobody.
Send(u, to) ==
    /\ Target(u, to)
    /\ Reached(to, {u}, "message") # {}
    /\ Notify("message", NULL, to, {u}, TRUE)
    /\ UNCHANGED <<active, states, scan, muted, ends, events, today, failures,
                   handed, unheard, stopped>>

-----------------------------------------------------------------------------
(***************************************************************************)
(* The inbox of a user.                                                    *)
(***************************************************************************)
Inbox(new) ==
    /\ inbox' = new /\ inbox' # inbox
    /\ UNCHANGED <<active, states, scan, notes, muted, ends, events, today, seq, failures,
                   handed, unheard, stopped>>

Mine(u) == {r \in inbox : r.user = u}
After(rows, Do(_)) == (inbox \ rows) \union {Do(r) : r \in rows}
KindOf(r) == (CHOOSE n \in notes : n.id = r.note).kind

MarkRead(u, n) ==
    Inbox(After({r \in Mine(u) : r.note = n}, LAMBDA r : [r EXCEPT !.read = TRUE]))

MarkAllRead(u, kinds) ==
    Inbox(After({r \in Mine(u) : ~r.hidden /\ KindOf(r) \in kinds},
                LAMBDA r : [r EXCEPT !.read = TRUE]))

Acknowledge(u, n) ==
    Inbox(After({r \in Mine(u) : r.note = n},
                LAMBDA r : [r EXCEPT !.acked = TRUE, !.read = TRUE]))

Hide(u, n) ==
    Inbox(After({r \in Mine(u) : r.note = n}, LAMBDA r : [r EXCEPT !.hidden = TRUE]))

HideRead(u) ==
    Inbox(After({r \in Mine(u) : r.read}, LAMBDA r : [r EXCEPT !.hidden = TRUE]))

UpdatePreferences(u) ==
    /\ \E kinds \in SUBSET {k \in {"condition", "decision"} : Mutable(k)} :
           muted' = [muted EXCEPT ![u] = kinds]
    /\ UNCHANGED <<active, states, scan, notes, inbox, ends, events, today, seq, failures,
                   handed, unheard, stopped>>

\* Notifications past their retention go, and their recipients with them.
Cleanup ==
    LET gone == {n \in notes : n.expires < today} IN
    /\ gone # {}
    /\ notes' = notes \ gone
    /\ inbox' = {r \in inbox : \A n \in gone : n.id # r.note}
    /\ UNCHANGED <<active, states, scan, muted, ends, events, today, seq, failures,
                   handed, unheard, stopped>>

\* The office deletes a notification at all its recipients.
RemoveNote(n) ==
    /\ notes' = notes \ {n}
    /\ inbox' = {r \in inbox : r.note # n.id}
    /\ UNCHANGED <<active, states, scan, muted, ends, events, today, seq, failures,
                   handed, unheard, stopped>>

\* The server stops: events that were not heard are gone, and so is every round,
\* wherever it was.
Restart ==
    /\ failures < MaxFailures
    /\ failures' = failures + 1 /\ events' = {}
    /\ Ended(Scans)
    /\ UNCHANGED <<active, states, notes, inbox, muted, ends, today, seq, handed, unheard>>

NextDay ==
    /\ today < LastDay /\ today' = today + 1
    /\ UNCHANGED <<active, states, scan, notes, inbox, muted, ends, events, seq, failures,
                   handed, unheard, stopped>>

NoticesNext ==
    \/ \E a \in Alerts : Turn(a)
    \/ \E s \in Scans : Look(s) \/ Forget(s) \/ Raise(s) \/ Break(s)
    \/ \E s \in Scans, g \in {GroupOf[a] : a \in Alerts} : Tell(s, g) \/ Fail(s, g)
    \/ \E t \in Terms : TellOffice(t) \/ TellOwner(t) \/ Renew(t)
    \/ \E q \in StaffRequests, u \in Accounts, what \in {"requested", "decided"} : Emit(q, what, u)
    \/ \E e \in events : HearRequest(e) \/ HearDecision(e)
    \/ \E u \in Managers, to \in SUBSET Accounts : Send(u, to)
    \/ \E u \in Accounts, n \in 1 .. seq : MarkRead(u, n) \/ Acknowledge(u, n) \/ Hide(u, n)
    \/ \E u \in Accounts, kinds \in {Kinds, {"message"}} : MarkAllRead(u, kinds)
    \/ \E u \in Accounts : HideRead(u) \/ UpdatePreferences(u)
    \/ \E n \in notes : RemoveNote(n)
    \/ Cleanup \/ Restart \/ NextDay

NoticesSpec == NoticesInit /\ [][NoticesNext]_noticeVars

-----------------------------------------------------------------------------
\* A row of notification_alert_states silences its condition.  Between rounds it
\* stands for a notice that somebody was given: when the notice of a group fails its
\* rows are given back (alert-states.service.ts, release), whatever another round
\* inserted or removed meanwhile.  Two kinds of row stand for none, and only they:
\* those of a round that ended before its notice, and those of a notice that had
\* nobody to reach, every manager having muted it.
SilencedIsTold ==
    \A a \in states : a \in handed \union unheard \union stopped
                       \/ \E s \in Scans : a \in scan[s].raised
=============================================================================
