------------------------------ MODULE Posting ------------------------------
(***************************************************************************)
(* How documents become entries of the books.  SetupService activates the     *)
(* books with an opening entry; PostingService then turns what happens into    *)
(* entries, each in a transaction of its own, in runs that a timer, a report    *)
(* or a button starts: one run at a time by an advisory lock, and one entry for  *)
(* each document and event by a unique index.  Postings fail and are tried        *)
(* again, servers stop, the session that holds the lock may be cut off.           *)
(*                                                                               *)
(* One customer stands for all parties: sales and receipts, whose cancellation    *)
(* is an event of its own, and an opening balance that can be edited.  Module      *)
(* YearEnd has the dates of the entries.                                          *)
(***************************************************************************)
EXTENDS Integers, FiniteSets, UnitSums

CONSTANTS
  Sales, Receipts, \* documents of the customer
  AmountOf,        \* of each document
  OpeningBalances, \* values of the customer's opening balance
  Runs,            \* callers of sync
  Forcing,         \* those that try again what has just failed (POST /accounting/sync, closing a year)
  MaxFaults,       \* bound: failed postings, stops and lost locks
  MaxChanges,      \* bound: edits of the opening balance
  None

Documents == Sales \cup Receipts

ASSUME PostingAssumption ==
  /\ IsFiniteSet(Documents) /\ AmountOf \in [Documents -> Nat \ {0}]
  /\ 0 \in OpeningBalances /\ OpeningBalances \subseteq Int
  /\ Forcing \subseteq Runs /\ None \notin Runs
  /\ MaxFaults \in Nat /\ MaxChanges \in Nat

VARIABLES
  happened,       \* events of the documents
  early, counted, \* history: events stamped before the activation, and events whose effect
                  \* is in the opening entry
  opening,        \* customers.openingBalance
  changes,
  activation,     \* "off", "begun" (activatedAt is taken), "on"
  baseline,       \* accounting_opening_baselines
  journal,        \* journal_entries
  errors, recent, \* accounting_posting_errors, and those of the last ten minutes
  lock,           \* the run that holds the advisory lock
  run,            \* of each run: the next handler, and the candidates left of the last one;
                  \* None when it is not at work
  alone,          \* history: no two runs were at work at once
  faults

documentVars == <<happened, early, opening, changes>>
setupVars == <<activation, baseline, counted>>
vars == <<documentVars, setupVars, journal, errors, recent, lock, run, alone, faults>>

-----------------------------------------------------------------------------
(* The unique index of the journal: source, event, and the number that the      *)
(* event of an opening balance carries                                          *)
Key(source, event, n) == [source |-> source, event |-> event, n |-> n]
Issue(d) == Key(d, "issue", 0)
Record(d) == Key(d, "record", 0)
Cancel(d) == Key(d, "cancel", 0)
Opening(n) == Key("customer", "opening", n)

Events == {Issue(d) : d \in Sales} \cup {Record(d) : d \in Receipts} \cup {Cancel(d) : d \in Receipts}
Openings == {Opening(n) : n \in 1 .. MaxChanges}

(* What an event adds to what the customer owes                                  *)
Receivable(k) == IF k.event = "record" THEN -AmountOf[k.source] ELSE AmountOf[k.source]
Owing(events) == Total([k \in events |-> Receivable(k)])

Entry(key, amount) == [key |-> key, amount |-> amount]
Posted(k) == \E e \in journal : e.key = k
Of(event) == {e \in journal : e.key.event = event}
Balance(entries) == Total([e \in entries |-> e.amount])

Fault == faults < MaxFaults /\ faults' = faults + 1

-----------------------------------------------------------------------------
Init ==
  /\ happened = {} /\ early = {} /\ counted = {}
  /\ opening = 0 /\ changes = 0
  /\ activation = "off" /\ baseline = 0
  /\ journal = {} /\ errors = {} /\ recent = {}
  /\ lock = None /\ run = [r \in Runs |-> None]
  /\ alone = TRUE /\ faults = 0

(* A document happens.  It is stamped before its transaction commits, or by a     *)
(* till that was offline: the stamp may lie before an activation that did not     *)
(* see the document                                                              *)
Happen(k, before) ==
  /\ k \in Events \ happened
  /\ k.event = "cancel" => Record(k.source) \in happened
  /\ activation = "off" => before
  /\ before /\ k.event = "cancel" => Record(k.source) \in early
  /\ happened' = happened \cup {k}
  /\ early' = IF before THEN early \cup {k} ELSE early
  /\ UNCHANGED <<opening, changes, setupVars, journal, errors, recent, lock, run, alone, faults>>

ChangeOpening(balance) ==
  /\ changes < MaxChanges /\ balance # opening
  /\ opening' = balance /\ changes' = changes + 1
  /\ UNCHANGED <<happened, early, setupVars, journal, errors, recent, lock, run, alone, faults>>

(* activate: activatedAt is the start of the transaction, the opening entry      *)
(* holds the balances of its snapshot                                            *)
BeginActivation ==
  /\ activation = "off" /\ activation' = "begun"
  /\ UNCHANGED <<documentVars, baseline, counted, journal, errors, recent, lock, run, alone, faults>>

Activate ==
  /\ activation = "begun" /\ activation' = "on"
  /\ counted' = happened /\ baseline' = opening
  /\ LET balance == opening + Owing(happened)
     IN  journal' = IF balance = 0 THEN {} ELSE {Entry(Key("company", "activation", 0), balance)}
  /\ UNCHANGED <<documentVars, errors, recent, lock, run, alone, faults>>

-----------------------------------------------------------------------------
(* slip: what has failed once is not picked again (EverythingPosted) *)
DueUnlessFailed(k, force) == force \/ k \notin errors

Due(k, force) == force \/ k \notin recent

(* slip: a receipt of before the activation is left out with all its events       *)
(* (BooksMatchStatements)                                                        *)
PickedSinceRecord(force) ==
  {k \in happened \ early : /\ ~Posted(k) /\ Due(k, force)
                            /\ k.event = "cancel" => Record(k.source) \notin early}

(* pick: what has happened since the activation, has no entry, and did not fail   *)
(* in the last minutes                                                           *)
Picked(force) == {k \in happened \ early : ~Posted(k) /\ Due(k, force)}

(* partyOpenings: what of the opening balance is in no entry, under the next       *)
(* number                                                                        *)
Delta == opening - baseline - Balance(Of("opening"))

PickedOpening(force) ==
  IF Delta # 0 /\ \A k \in Openings : Due(k, force)
  THEN {Opening(Cardinality(Of("opening")) + 1)} ELSE {}

Candidates(force) == Picked(force) \cup PickedOpening(force)

-----------------------------------------------------------------------------
(* The handlers, in their order: sales, receipts with their cancellations, and the *)
(* opening balances                                                              *)
Handler(k) == CASE k.event = "issue" -> 1 [] k.event \in {"record", "cancel"} -> 2 [] k.event = "opening" -> 3

AtWork(r) == run[r] # None
Left(r) == IF AtWork(r) THEN run[r].todo ELSE {}

(* Receipts are posted before cancellations                                      *)
First(r) ==
  {k \in Left(r) : k.event = "cancel" => \A l \in Left(r) : l.event # "record"}

Read(handler, force) ==
  [next |-> handler + 1, todo |-> {k \in Candidates(force) : Handler(k) = handler}]

(* sync: nothing happens without the lock; the candidates of the first handler    *)
Start(r) ==
  /\ activation = "on" /\ ~AtWork(r) /\ lock = None
  /\ lock' = r
  /\ run' = [run EXCEPT ![r] = Read(1, r \in Forcing)]
  /\ alone' = (alone /\ ~\E q \in Runs : AtWork(q))
  /\ UNCHANGED <<documentVars, setupVars, journal, errors, recent, faults>>

(* The candidates of the next handler                                            *)
Proceed(r) ==
  /\ AtWork(r) /\ Left(r) = {} /\ run[r].next <= 3
  /\ run' = [run EXCEPT ![r] = Read(@.next, r \in Forcing)]
  /\ UNCHANGED <<documentVars, setupVars, journal, errors, recent, lock, alone, faults>>

Done(r, k) == run' = [run EXCEPT ![r].todo = @ \ {k}]

Amount(k) == IF k.event = "opening" THEN Delta ELSE Receivable(k)

(* slip: the error stays when the posting succeeds (NoErrorOfPosted) *)
PostKeepingError(r, k) ==
  /\ k \in First(r) /\ ~Posted(k)
  /\ journal' = IF Amount(k) = 0 THEN journal ELSE journal \cup {Entry(k, Amount(k))}
  /\ Done(r, k)
  /\ UNCHANGED <<documentVars, setupVars, errors, recent, lock, alone, faults>>

(* postOne: the entry and the end of an earlier error; an entry without amounts    *)
(* is only marked (accounting_skipped_sources)                                    *)
Post(r, k) ==
  /\ k \in First(r) /\ ~Posted(k)
  /\ journal' = IF Amount(k) = 0 THEN journal ELSE journal \cup {Entry(k, Amount(k))}
  /\ errors' = errors \ {k} /\ recent' = recent \ {k}
  /\ Done(r, k)
  /\ UNCHANGED <<documentVars, setupVars, lock, alone, faults>>

(* slip: no unique index (PostedOnce) *)
PostAgain(r, k) ==
  /\ k \in First(r) /\ Posted(k)
  /\ journal' = IF Amount(k) = 0 THEN journal ELSE journal \cup {Entry(k, Amount(k))}
  /\ Done(r, k)
  /\ UNCHANGED <<documentVars, setupVars, errors, recent, lock, alone, faults>>

(* The unique index: another run has posted it                                   *)
PostedByAnother(r, k) ==
  /\ k \in First(r) /\ Posted(k)
  /\ Done(r, k)
  /\ UNCHANGED <<documentVars, setupVars, journal, errors, recent, lock, alone, faults>>

(* A stopped account, a lost connection: the reason is kept and the run goes on    *)
PostFails(r, k) ==
  /\ k \in First(r) /\ Fault
  /\ errors' = errors \cup {k} /\ recent' = recent \cup {k}
  /\ Done(r, k)
  /\ UNCHANGED <<documentVars, setupVars, journal, lock, alone>>

(* Ten minutes pass since something failed (RETRY_AFTER_MINUTES)                   *)
RetryAfter(k) ==
  /\ k \in recent /\ recent' = recent \ {k}
  /\ UNCHANGED <<documentVars, setupVars, journal, errors, lock, run, alone, faults>>

(* pg_advisory_unlock: on the session that took the lock, if it is still there     *)
Leave(r) ==
  /\ run' = [run EXCEPT ![r] = None]
  /\ lock' = IF lock = r THEN None ELSE lock

End(r) ==
  /\ AtWork(r) /\ Left(r) = {} /\ run[r].next = 4
  /\ Leave(r)
  /\ UNCHANGED <<documentVars, setupVars, journal, errors, recent, alone, faults>>

(* The session that holds the lock is cut off; its run goes on beside the next      *)
LoseLock ==
  /\ lock # None /\ Fault /\ lock' = None
  /\ UNCHANGED <<documentVars, setupVars, journal, errors, recent, run, alone>>

(* The server of a run stops                                                      *)
Stop(r) ==
  /\ AtWork(r) /\ Fault /\ Leave(r)
  /\ UNCHANGED <<documentVars, setupVars, journal, errors, recent, alone>>

-----------------------------------------------------------------------------
Next ==
  \/ \E k \in Events, before \in BOOLEAN : Happen(k, before)
  \/ \E balance \in OpeningBalances : ChangeOpening(balance)
  \/ BeginActivation \/ Activate
  \/ \E r \in Runs :
       \/ Start(r) \/ Proceed(r) \/ End(r) \/ Stop(r)
       \/ \E k \in First(r) : Post(r, k) \/ PostedByAnother(r, k) \/ PostFails(r, k)
  \/ \E k \in recent : RetryAfter(k)
  \/ LoseLock

(* AccountingCron starts a run every minute unless one is at work, and a run that     *)
(* has started goes through its candidates                                           *)
Fairness ==
  /\ \A r \in Runs \ Forcing : WF_vars(Start(r))
  /\ \A r \in Runs : WF_vars(Proceed(r) \/ End(r) \/ \E k \in First(r) : Post(r, k) \/ PostedByAnother(r, k))
  /\ WF_vars(\E k \in recent : RetryAfter(k))

Spec == Init /\ [][Next]_vars /\ Fairness

-----------------------------------------------------------------------------
(* An event has one entry, also while two runs are at work on the same candidates  *)
(* because the lock of one was lost (the unique index and postOne).                *)
PostedOnce == \A e, f \in journal : e.key = f.key => e = f

Owed == Candidates(TRUE)

(* When every event and every change of the opening balance has its entry, what    *)
(* the customer owes by the books is the balance of his statement, except for what  *)
(* was stamped before the activation but came too late for the opening entry, which  *)
(* is in neither, and for what is in both.                                          *)
BooksMatchStatements ==
  activation = "on" /\ Owed = {} =>
    Balance(journal) = opening + Owing(happened) - Owing(early \ counted) + Owing(counted \ early)

(* An error does not outlive the posting of what failed, which would keep the year   *)
(* from being closed (YearEndService.close counts them), as long as no two runs were  *)
(* at work at once.                                                                  *)
NoErrorOfPosted == alone => \A k \in errors : ~Posted(k)

(* The journal has each event once, and the list of errors none that it has *)
EntriesOnce == PostedOnce /\ NoErrorOfPosted

(* Once the books are open, everything that is to be posted is posted in the end,   *)
(* although postings fail, runs stop, and their locks are lost.                      *)
EverythingPosted == activation = "on" ~> Owed = {}

=============================================================================
