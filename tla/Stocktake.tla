----------------------------- MODULE Stocktake -----------------------------
(***************************************************************************)
(* A draft stocktake (StocktakesService) filled by several devices that count *)
(* offline and upload late, in any order and more than once, and by dashboard *)
(* users who save the whole list from a copy they opened earlier.  Each       *)
(* request holds the stocktake's row lock from its start to its commit, so it *)
(* is one action; clock is its new Date(), later than that of the request     *)
(* before it.                                                                 *)
(***************************************************************************)
EXTENDS Integers, FiniteSets, SequencesExt

CONSTANTS
  Products,
  Quantities, \* quantities a device may count
  Users,      \* dashboard users with the stocktake open
  Skew,       \* how far a device's clock may be ahead of the server's
  MaxLines,   \* MAX_LINES
  MaxBatch,   \* bound: counts in one upload
  MaxClock,   \* bound: requests served
  MaxCounts,  \* bound: counts made on all devices
  None        \* no line, no view, the null quantity

VARIABLES
  status,    \* stocktakes.status
  updatedAt, \* stocktakes.updatedAt
  lines,     \* stocktake_lines: quantity and countedAt per product
  countable, \* products that are stocked and not deleted
  clock,     \* the server's time
  counts,    \* counts made on the devices: product, quantity, countedAt
  view,      \* what each dashboard user opened: updatedAt and the lines
  newest,    \* history: the newest countedAt the server has taken for a product
  removed    \* history: products whose line was removed (a null count, or a save without it)

vars == <<status, updatedAt, lines, countable, clock, counts, view, newest, removed>>

-----------------------------------------------------------------------------
Times == 0..MaxClock
LineRow == [quantity : Quantities, countedAt : Times]
Sheet == [Products -> LineRow \cup {None}]
Counts == [product : Products, quantity : Quantities \cup {None}, countedAt : 0..MaxClock + Skew]

On(sheet) == {p \in Products : sheet[p] # None}

Later(a, b) == IF a > b THEN a ELSE b
NotAfter(at, now) == IF at > now THEN now ELSE at

(* slip: the upload that arrives last wins (LineIsNewest) *)
StaleNever(line, at) == FALSE

(* The server has a count of the product that is newer: 'stale' *)
Stale(line, at) == line # None /\ line.countedAt > at

(* slip: the limit is tested one line too late (TypeOK) *)
FullLate(sheet) == Cardinality(On(sheet)) > MaxLines

Full(sheet) == Cardinality(On(sheet)) >= MaxLines

(* Whether a count of an upload served at time now is taken: else it comes    *)
(* back 'stale' or 'error'                                                      *)
Taken(sheet, count, now) ==
  LET line == sheet[count.product]
  IN  /\ ~Stale(line, NotAfter(count.countedAt, now))
      /\ count.quantity # None =>
           count.product \in countable /\ (line # None \/ ~Full(sheet))

(* One count of an upload after the other: the lines and the history of them   *)
Merge(now, before, count) ==
  LET p == count.product
      at == NotAfter(count.countedAt, now)
  IN  IF ~Taken(before.lines, count, now) THEN before
      ELSE [lines |-> [before.lines EXCEPT ![p] =
              IF count.quantity = None THEN None
              ELSE [quantity |-> count.quantity, countedAt |-> at]],
            newest |-> [before.newest EXCEPT ![p] = Later(@, at)],
            removed |-> before.removed \cup (IF count.quantity = None THEN {p} ELSE {})]

Merged(batch, now) ==
  FoldLeft(LAMBDA before, count : Merge(now, before, count),
           [lines |-> lines, newest |-> newest, removed |-> removed], batch)

-----------------------------------------------------------------------------
Init ==
  /\ status = "draft"
  /\ updatedAt = 0
  /\ lines = [p \in Products |-> None]
  /\ countable = Products
  /\ clock = 0
  /\ counts = {}
  /\ view = [u \in Users |-> None]
  /\ newest = [p \in Products |-> 0]
  /\ removed = {}

(* A request is served a moment after the one before it *)
Serve == clock < MaxClock /\ clock' = clock + 1

(* A device counts a product, online or not (the device's own clock)         *)
Count(p, quantity, at) ==
  /\ Cardinality(counts) < MaxCounts
  /\ at <= clock + Skew
  /\ counts' = counts \cup {[product |-> p, quantity |-> quantity, countedAt |-> at]}
  /\ UNCHANGED <<status, updatedAt, lines, countable, clock, view, newest, removed>>

(* slip: the upload leaves updatedAt alone (UnseenKept) *)
ApplyCountsQuietly(batch) ==
  /\ status = "draft"
  /\ Serve
  /\ lines' = Merged(batch, clock').lines
  /\ newest' = Merged(batch, clock').newest
  /\ removed' = Merged(batch, clock').removed
  /\ UNCHANGED <<status, updatedAt, countable, counts, view>>

(* applyCounts: the counts of an upload in its order, any of which may have    *)
(* been uploaded before                                                        *)
ApplyCounts(batch) ==
  /\ status = "draft"
  /\ Serve
  /\ lines' = Merged(batch, clock').lines
  /\ newest' = Merged(batch, clock').newest
  /\ removed' = Merged(batch, clock').removed
  /\ updatedAt' = clock'
  /\ UNCHANGED <<status, countable, counts, view>>

(* A dashboard user opens the stocktake *)
Open(u) ==
  /\ view' = [view EXCEPT ![u] = [updatedAt |-> updatedAt, lines |-> lines]]
  /\ UNCHANGED <<status, updatedAt, lines, countable, clock, counts, newest, removed>>

(* update with expectedUpdatedAt, then replaceLines: sheet is what the user     *)
(* made of the copy he opened.  An unchanged quantity keeps its time.           *)
Update(u, sheet) ==
  /\ view[u] # None
  /\ status = "draft"
  /\ updatedAt = view[u].updatedAt
  /\ On(sheet) \subseteq countable /\ Cardinality(On(sheet)) <= MaxLines
  /\ Serve
  /\ lines' = [p \in Products |->
       IF sheet[p] = None THEN None
       ELSE IF lines[p] # None /\ lines[p].quantity = sheet[p] THEN lines[p]
       ELSE [quantity |-> sheet[p], countedAt |-> clock']]
  /\ newest' = [p \in Products |-> IF lines'[p] = lines[p] THEN newest[p] ELSE clock']
  /\ removed' = removed \cup (On(lines) \ On(lines'))
  /\ updatedAt' = clock'
  /\ view' = [view EXCEPT ![u] = None]
  /\ UNCHANGED <<status, countable, counts>>

(* The product is deleted or becomes a service *)
Unstock(p) ==
  /\ countable' = countable \ {p}
  /\ UNCHANGED <<status, updatedAt, lines, clock, counts, view, newest, removed>>

(* post: needs a line, and every line a product still stocked (apply) *)
Post ==
  /\ status = "draft"
  /\ On(lines) # {} /\ On(lines) \subseteq countable
  /\ Serve
  /\ status' = "posted" /\ updatedAt' = clock'
  /\ UNCHANGED <<lines, countable, counts, view, newest, removed>>

Cancel ==
  /\ status = "draft"
  /\ Serve
  /\ status' = "cancelled" /\ updatedAt' = clock'
  /\ UNCHANGED <<lines, countable, counts, view, newest, removed>>

-----------------------------------------------------------------------------
Batches == UNION {[1..n -> counts] : n \in 1..MaxBatch}

Next ==
  \/ \E p \in Products, quantity \in Quantities \cup {None}, at \in 0..MaxClock + Skew :
       Count(p, quantity, at)
  \/ \E batch \in Batches : ApplyCounts(batch)
  \/ \E u \in Users :
       \/ Open(u)
       \/ \E sheet \in [Products -> Quantities \cup {None}] : Update(u, sheet)
  \/ \E p \in Products : Unstock(p)
  \/ Post
  \/ Cancel

Spec == Init /\ [][Next]_vars

-----------------------------------------------------------------------------
TypeOK ==
  /\ status \in {"draft", "posted", "cancelled"}
  /\ updatedAt \in Times /\ clock \in Times
  /\ lines \in Sheet /\ Cardinality(On(lines)) <= MaxLines
  /\ countable \subseteq Products
  /\ counts \subseteq Counts
  /\ view \in [Users -> [updatedAt : Times, lines : Sheet] \cup {None}]
  /\ newest \in [Products -> Times] /\ removed \subseteq Products

(* The newest wins: as long as nobody removed a product, its line is the       *)
(* newest of all that was taken for it, in whatever order and however often the *)
(* devices upload and beside the dashboard's saves, so every order ends at the  *)
(* same sheet; "an older count that arrives after the newer one comes back      *)
(* stale and is not recorded" (applyCounts).                                    *)
LineIsNewest ==
  \A p \in Products \ removed :
    newest[p] > 0 => lines[p] # None /\ lines[p].countedAt = newest[p]

(* A dashboard save never wipes out a count that its user had not seen: the    *)
(* lines it replaces are those of the copy he opened.                          *)
UnseenKept == \A u \in Users : view[u] # None /\ view'[u] = None => lines = view[u].lines
=============================================================================
