------------------------------ MODULE YearEnd ------------------------------
(***************************************************************************)
(* The dates of the books: LedgerService dates every entry by the settings    *)
(* that its writer has read, SetupService moves the lock date, and             *)
(* YearEndService closes the years, one after the other, into retained           *)
(* earnings, and opens the last one again.  Only a closing locks the settings:     *)
(* whoever posts an entry has read them before, and may come late.                  *)
(*                                                                                 *)
(* Entries come from documents, in a run of PostingService that moves them to the     *)
(* first open day, and from manual entries and expense vouchers, which are refused     *)
(* before that day.  What a document is and when it is posted is module Posting.         *)
(***************************************************************************)
EXTENDS Integers, FiniteSets, UnitSums

CONSTANTS
  Documents,        \* each adds 2 to the result of the year it is posted in
  Vouchers,         \* manual entries and expense vouchers: each takes 1 off
  Closers,          \* requests that close a year
  PerYear, MaxDay, \* bound: the calendar
  MaxCloses,        \* bound: closing entries
  MaxLocks,         \* bound: changes of the lock date
  None

Days == 1 .. MaxDay
YearOf(day) == (day + PerYear - 1) \div PerYear
YearEnd(year) == year * PerYear
Years == 1 .. YearOf(MaxDay)

ASSUME YearEndAssumption ==
  /\ {PerYear, MaxDay} \subseteq Nat \ {0} /\ {MaxCloses, MaxLocks} \subseteq Nat
  /\ None \notin Days /\ Documents \cap Vouchers = {} /\ "cron" \notin Closers

VARIABLES
  thisDay,
  settings,  \* accounting_settings: startDate, closedThroughYear and lockDate (0 for none)
  locker,    \* the lock date that updateSettings is about to write
  locks,
  dateOf,    \* the date of each document that has happened
  journal,   \* journal_entries
  run,       \* of each run of PostingService: the settings it read, and what it is to post
  writer,    \* of each voucher: the settings and the date of what is being written
  closer,    \* each request that closes a year
  slipped    \* history: entries that came into a year after its balances were read, from a
             \* writer that had read the settings before

yearVars == <<thisDay, settings, locker, locks, dateOf, journal, run, writer, closer, slipped>>

-----------------------------------------------------------------------------
Key(source, event, n) == [source |-> source, event |-> event, n |-> n]
OfDocument(d) == Key(d, "issue", 1)
OfVoucher(v) == Key(v, "write", 1)

Entry(key, date, result, retained) ==
  [key |-> key, date |-> date, result |-> result, retained |-> retained, reversed |-> FALSE]

(* The entry with the opposite lines, and the entry it reverses                  *)
Reversal(e, event, date) == Entry(Key(e.key.source, event, e.key.n), date, -e.result, -e.retained)
WithReversal(e, event, date) ==
  (journal \ {e}) \cup {[e EXCEPT !.reversed = TRUE], Reversal(e, event, date)}

Posted(k) == \E e \in journal : e.key = k
EntriesOf(events) == {e \in journal : e.key.event \in events}
Result(entries) == Total([e \in entries |-> e.result])
Retained(entries) == Total([e \in entries |-> e.retained])

(* Revenue less expenses of a year, without its closing entries                  *)
ResultOf(year) == Result({e \in journal : YearOf(e.date) = year} \ EntriesOf({"close", "reopen"}))

Later(a, b) == IF a >= b THEN a ELSE b

(* slip: the lock date alone (ClosingsCarryResult) *)
LockDateOnly(s) == s.lockDate

(* effectiveLockDate, and the first day that resolveDate lets through            *)
EffectiveLock(s) == Later(s.lockDate, YearEnd(s.closed))
FirstOpen(s) == Later(s.startDate, EffectiveLock(s) + 1)

StartYear(s) == YearOf(s.startDate)
NextToClose(s) == (IF s.closed = 0 THEN StartYear(s) - 1 ELSE s.closed) + 1

-----------------------------------------------------------------------------
Runs == {"cron"} \cup Closers
Away == [at |-> "away", year |-> 0, result |-> 0]

YearsInit ==
  /\ \E day \in Days :
       /\ thisDay = day
       /\ settings = [startDate |-> day, closed |-> 0, lockDate |-> 0]
  /\ locker = None /\ locks = 0
  /\ dateOf = [d \in Documents |-> 0]
  /\ journal = {}
  /\ run = [r \in Runs |-> None]
  /\ writer = [v \in Vouchers |-> None]
  /\ closer = [c \in Closers |-> Away]
  /\ slipped = {}

DayPasses ==
  /\ thisDay < MaxDay /\ thisDay' = thisDay + 1
  /\ UNCHANGED <<settings, locker, locks, dateOf, journal, run, writer, closer, slipped>>

Happen(d, date) ==
  /\ dateOf[d] = 0 /\ date <= thisDay
  /\ dateOf' = [dateOf EXCEPT ![d] = date]
  /\ UNCHANGED <<thisDay, settings, locker, locks, journal, run, writer, closer, slipped>>

(* updateSettings: a lock date (0 for none) is checked against settings read      *)
(* without a lock, and written later                                             *)
CheckLockDate(day) ==
  /\ locker = None /\ locks < MaxLocks
  /\ day = 0 \/ day \in settings.startDate .. thisDay
  /\ day >= YearEnd(settings.closed)
  /\ locker' = day /\ locks' = locks + 1
  /\ UNCHANGED <<thisDay, settings, dateOf, journal, run, writer, closer, slipped>>

(* lockSettings: a closing holds the row of the settings until it commits         *)
RowFree == \A c \in Closers : closer[c].at # "post"

WriteLockDate ==
  /\ locker # None /\ RowFree
  /\ settings' = [settings EXCEPT !.lockDate = locker] /\ locker' = None
  /\ UNCHANGED <<thisDay, locks, dateOf, journal, run, writer, closer, slipped>>

-----------------------------------------------------------------------------
(* An entry that comes into a year whose balances a closing has read              *)
BalancesRead(year) ==
  settings.closed >= year \/ \E c \in Closers : closer[c].at = "post" /\ closer[c].year = year
Slips(e, s) == s.closed < YearOf(e.date) /\ BalancesRead(YearOf(e.date))
NoteSlip(e, s) == slipped' = IF Slips(e, s) THEN slipped \cup {e.key} ELSE slipped

(* sync: one run at a time; it reads the settings and what is to be posted          *)
StartRun(r) ==
  /\ \A q \in Runs : run[q] = None
  /\ run' = [run EXCEPT ![r] = [settings |-> settings,
                                todo |-> {d \in Documents : dateOf[d] # 0 /\ ~Posted(OfDocument(d))}]]

StartCron ==
  /\ StartRun("cron")
  /\ UNCHANGED <<thisDay, settings, locker, locks, dateOf, journal, writer, closer, slipped>>

(* postOne: the date of the document, or the first open day                        *)
PostDocument(r, d) ==
  /\ run[r] # None /\ d \in run[r].todo
  /\ LET s == run[r].settings
         e == Entry(OfDocument(d), Later(dateOf[d], FirstOpen(s)), 2, 0)
     IN  journal' = journal \cup {e} /\ NoteSlip(e, s)
  /\ run' = [run EXCEPT ![r].todo = @ \ {d}]
  /\ UNCHANGED <<thisDay, settings, locker, locks, dateOf, writer, closer>>

(* A run that posts all, or fails at some, or stops                                *)
EndCron ==
  /\ run["cron"] # None /\ run' = [run EXCEPT !["cron"] = None]
  /\ UNCHANGED <<thisDay, settings, locker, locks, dateOf, journal, writer, closer, slipped>>

(* JournalsService.create and reverse, ExpensesService.create and cancel: the        *)
(* settings are read first, and a date that they lock is refused                     *)
ReadSettings(v, date) ==
  /\ writer[v] = None /\ ~\E e \in journal : e.key = OfVoucher(v) /\ e.reversed
  /\ date >= FirstOpen(settings)
  /\ writer' = [writer EXCEPT ![v] = [settings |-> settings, date |-> date]]
  /\ UNCHANGED <<thisDay, settings, locker, locks, dateOf, journal, run, closer, slipped>>

Write(v) ==
  /\ writer[v] # None /\ ~Posted(OfVoucher(v))
  /\ LET e == Entry(OfVoucher(v), writer[v].date, -1, 0)
     IN  journal' = journal \cup {e} /\ NoteSlip(e, writer[v].settings)
  /\ writer' = [writer EXCEPT ![v] = None]
  /\ UNCHANGED <<thisDay, settings, locker, locks, dateOf, run, closer>>

Reverse(v) ==
  /\ writer[v] # None
  /\ \E e \in journal :
       /\ e.key = OfVoucher(v)
       /\ journal' = WithReversal(e, "reverse", writer[v].date)
       /\ NoteSlip(Reversal(e, "reverse", writer[v].date), writer[v].settings)
  /\ writer' = [writer EXCEPT ![v] = None]
  /\ UNCHANGED <<thisDay, settings, locker, locks, dateOf, run, closer>>

-----------------------------------------------------------------------------
(* close: a run of its own, unless another one is at work; nothing may have failed   *)
(* before; then, with the settings locked, the balances of the year and its entry     *)
Goto(c, where) == closer' = [closer EXCEPT ![c].at = where]

AskToClose(c, year) ==
  /\ closer[c].at = "away" /\ Cardinality(EntriesOf({"close"})) < MaxCloses
  /\ \/ /\ StartRun(c)
        /\ closer' = [closer EXCEPT ![c] = [at |-> "sync", year |-> year, result |-> 0]]
     \/ /\ \E r \in Runs : run[r] # None
        /\ closer' = [closer EXCEPT ![c] = [at |-> "synced", year |-> year, result |-> 0]]
        /\ UNCHANGED run
  /\ UNCHANGED <<thisDay, settings, locker, locks, dateOf, journal, writer, slipped>>

EndSync(c) ==
  /\ closer[c].at = "sync" /\ run[c].todo = {}
  /\ run' = [run EXCEPT ![c] = None] /\ Goto(c, "synced")
  /\ UNCHANGED <<thisDay, settings, locker, locks, dateOf, journal, writer, slipped>>

(* slip: the year is compared with what was closed before the row was locked          *)
(* (ClosingsCarryResult)                                                             *)
ReadBalancesOfAny(c) ==
  LET year == closer[c].year
  IN  /\ closer[c].at = "synced" /\ RowFree
      /\ YearEnd(year) < thisDay /\ year >= StartYear(settings)
      /\ closer' = [closer EXCEPT ![c] = [at |-> "post", year |-> year, result |-> ResultOf(year)]]
      /\ slipped' = {k \in slipped : \A e \in journal : e.key = k => YearOf(e.date) # year}
      /\ UNCHANGED <<thisDay, settings, locker, locks, dateOf, journal, run, writer>>

ReadBalances(c) ==
  LET year == closer[c].year
  IN  /\ closer[c].at = "synced" /\ RowFree
      /\ year = NextToClose(settings) /\ YearEnd(year) < thisDay
      /\ closer' = [closer EXCEPT ![c] = [at |-> "post", year |-> year, result |-> ResultOf(year)]]
      /\ slipped' = {k \in slipped : \A e \in journal : e.key = k => YearOf(e.date) # year}
      /\ UNCHANGED <<thisDay, settings, locker, locks, dateOf, journal, run, writer>>

PostClosing(c) ==
  LET year == closer[c].year
      net == closer[c].result
  IN  /\ closer[c].at = "post"
      /\ journal' = IF net = 0 THEN journal
                    ELSE journal \cup
                      {Entry(Key("company", "close", Cardinality(EntriesOf({"close"})) + 1), YearEnd(year), -net, net)}
      /\ settings' = [settings EXCEPT !.closed = year, !.lockDate = Later(@, YearEnd(year))]
      /\ closer' = [closer EXCEPT ![c] = Away]
      /\ UNCHANGED <<thisDay, locker, locks, dateOf, run, writer, slipped>>

(* An error, a document that failed, another year's turn, a server that stops           *)
GiveUp(c) ==
  /\ closer[c].at # "away"
  /\ closer' = [closer EXCEPT ![c] = Away] /\ run' = [run EXCEPT ![c] = None]
  /\ UNCHANGED <<thisDay, settings, locker, locks, dateOf, journal, writer, slipped>>

(* slip: the year before the books is taken for closed (YearsTypeOK) *)
YearBefore(year) == year - 1

ClosedBefore(year) == IF year - 1 >= StartYear(settings) THEN year - 1 ELSE 0

(* slip: the closing entry is not marked as reversed (ClosingsCarryResult) *)
ReverseUnmarked(e) == journal \cup {Reversal(e, "reopen", e.date)}

ReverseClosing(e) == WithReversal(e, "reopen", e.date)

(* reopen: the closing entry of the last closed year is reversed at its own date;         *)
(* the lock date stays                                                                   *)
Reopen(year) ==
  LET closing == {e \in EntriesOf({"close"}) : e.date = YearEnd(year) /\ ~e.reversed}
  IN  /\ RowFree /\ settings.closed = year
      /\ settings' = [settings EXCEPT !.closed = ClosedBefore(year)]
      /\ \/ closing = {} /\ UNCHANGED journal
         \/ \E e \in closing : journal' = ReverseClosing(e)
      /\ UNCHANGED <<thisDay, locker, locks, dateOf, run, writer, closer, slipped>>

-----------------------------------------------------------------------------
YearsNext ==
  \/ DayPasses
  \/ \E d \in Documents, date \in Days : Happen(d, date)
  \/ \E day \in {0} \cup Days : CheckLockDate(day)
  \/ WriteLockDate
  \/ StartCron \/ EndCron
  \/ \E r \in Runs, d \in Documents : PostDocument(r, d)
  \/ \E v \in Vouchers : Write(v) \/ Reverse(v) \/ \E date \in Days : ReadSettings(v, date)
  \/ \E c \in Closers : EndSync(c) \/ ReadBalances(c) \/ PostClosing(c) \/ GiveUp(c)
  \/ \E c \in Closers, year \in Years : AskToClose(c, year)
  \/ \E year \in Years : Reopen(year)

YearsSpec == YearsInit /\ [][YearsNext]_yearVars

-----------------------------------------------------------------------------
YearsTypeOK ==
  /\ thisDay \in Days
  /\ settings.startDate \in 1 .. thisDay /\ settings.lockDate \in {0} \cup settings.startDate .. thisDay
  /\ settings.closed \in {0} \cup StartYear(settings) .. YearOf(thisDay) - 1
  /\ locker \in 0 .. thisDay \cup {None} /\ locks \in 0 .. MaxLocks
  /\ dateOf \in [Documents -> 0 .. thisDay]
  /\ \A e \in journal : e.date >= settings.startDate
  /\ \A e, f \in journal : e.key = f.key => e = f
  /\ \A r \in Runs : run[r] # None => run[r].todo \subseteq {d \in Documents : ~Posted(OfDocument(d))}
  /\ \A c \in Closers :
       /\ closer[c].at \in {"away", "sync", "synced", "post"} /\ closer[c].year \in Years \cup {0}
       /\ closer[c].at = "post" => \A b \in Closers \ {c} : closer[b].at # "post"
  /\ \A k \in slipped : Posted(k)

(* Retained earnings hold the result of every closed year, without what slipped into   *)
(* it after its balances were read, and nothing of a year that is open: however often    *)
(* the years are closed and opened again, and the lock date is changed meanwhile.         *)
ClosingsCarryResult ==
  \A year \in Years :
    LET of == {e \in journal : YearOf(e.date) = year}
    IN  Retained(of) = IF year <= settings.closed
                       THEN ResultOf(year) - Result({e \in of : e.key \in slipped}) ELSE 0

(* The closed years are closed, in the settings and in the books *)
YearsClosed == YearsTypeOK /\ ClosingsCarryResult
=============================================================================
