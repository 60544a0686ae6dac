--------------------------- MODULE PostingProofs ---------------------------
(***************************************************************************)
(* Proofs about the books and about what the company owes its employees.      *)
(* The books: an event has one entry, whatever runs are at work; no error     *)
(* outlives the posting of what failed while runs follow one another; the     *)
(* books agree with the customer's statement; for any documents, callers and  *)
(* faults.  The first invariant says that the entries of the opening balance  *)
(* are numbered without a gap, so that a run that picked the next number      *)
(* knows whether somebody else has used it, and that what a run alone at work *)
(* has before it is not posted yet; the second one follows the sum of the     *)
(* books from entry to entry.  Payrolls, advances and leaves come after them, *)
(* each with an invariant of its own.                                         *)
(***************************************************************************)
EXTENDS Posting, Payroll, Entitlements, Leaves, UnitSumsProofs, FiniteSetTheorems, TLAPS

OpeningKeys == {Opening(n) : n \in Nat \ {0}}
AnyKey == Events \cup OpeningKeys
Numbers == Cardinality(Of("opening"))

(* Before the books are open there is nothing in them and nobody works on them *)
ClosedBooks ==
  activation # "on" => journal = {} /\ errors = {} /\ \A r \in Runs : run[r] = None

(* The entries of the opening balance are numbered from 1 without a gap *)
Numbering ==
  /\ IsFiniteSet(journal)
  /\ \A n \in Nat \ {0} : Posted(Opening(n)) <=> n <= Numbers

(* A run has events before it, and at most the next number *)
RunsKnow ==
  /\ run \in [Runs -> {None} \cup [next : Nat, todo : SUBSET AnyKey]]
  /\ \A r \in Runs : \A n \in Nat \ {0} : Opening(n) \in Left(r) => n <= Numbers + 1

(* Runs follow one another, and what is before the one at work is not posted *)
OneAtWork ==
  alone => /\ \A r, q \in Runs : AtWork(r) /\ AtWork(q) => r = q
           /\ \A r \in Runs : \A k \in Left(r) : ~Posted(k)

PostingInv ==
  happened \subseteq Events /\ ClosedBooks /\ Numbering /\ RunsKnow /\ OneAtWork /\ PostedOnce /\ NoErrorOfPosted

USE PostingAssumption

-----------------------------------------------------------------------------
(* An event of a document is not an opening balance *)
LEMMA EventsAreNoOpenings == \A k \in Events : k.event # "opening"
  BY DEF Events, Issue, Record, Cancel, Key

LEMMA OpeningFields == \A n : Opening(n).event = "opening" /\ Opening(n).n = n
  BY DEF Opening, Key

(* The number of the opening balances is a natural number *)
LEMMA NumbersNat == ASSUME IsFiniteSet(journal) PROVE Numbers \in Nat /\ IsFiniteSet(Of("opening"))
<1>1. Of("opening") \subseteq journal
  BY DEF Of
<1>2. IsFiniteSet(Of("opening"))
  BY <1>1, FS_Subset
<1> QED
  BY <1>2, FS_CardinalityType DEF Numbers

(* What a run picks is not posted: what has happened by its key, an opening      *)
(* balance by its number                                                         *)
LEMMA PickedUnposted ==
  ASSUME Numbering, happened \subseteq Events, NEW force
  PROVE  \A k \in Candidates(force) :
           /\ k \in AnyKey /\ ~Posted(k)
           /\ \A n \in Nat \ {0} : k = Opening(n) => n <= Numbers + 1
<1>1. Numbers \in Nat
  BY NumbersNat DEF Numbering
<1>2. \A k \in Picked(force) : k \in Events /\ ~Posted(k)
  BY DEF Picked
<1>3. \A k \in PickedOpening(force) : k = Opening(Numbers + 1)
  BY DEF PickedOpening, Numbers
<1>4. Opening(Numbers + 1) \in OpeningKeys /\ ~Posted(Opening(Numbers + 1))
  BY <1>1 DEF Numbering, OpeningKeys
<1>5. \A k \in Picked(force) : \A n : k # Opening(n)
  BY <1>2, EventsAreNoOpenings, OpeningFields
<1>6. \A n \in Nat : Opening(n) = Opening(Numbers + 1) => n = Numbers + 1
  BY OpeningFields
<1> QED
  BY <1>1, <1>2, <1>3, <1>4, <1>5, <1>6 DEF Candidates, AnyKey

-----------------------------------------------------------------------------
LEMMA PostingInit == Init => PostingInv
<1> SUFFICES ASSUME Init PROVE PostingInv
  OBVIOUS
<1> USE DEF Init
<1>1. Numbers = 0 /\ Of("opening") = {} /\ IsFiniteSet(journal)
  BY FS_EmptySet DEF Numbers, Of
<1>2. \A r \in Runs : Left(r) = {} /\ ~AtWork(r)
  BY DEF Left, AtWork
<1>3. Numbering /\ RunsKnow
  BY <1>1, <1>2 DEF Numbering, RunsKnow, Posted
<1> QED
  BY <1>2, <1>3 DEF PostingInv, ClosedBooks, OneAtWork, PostedOnce, NoErrorOfPosted

(* The documents, the clock and the lock: nothing the invariant speaks of changes *)
LEMMA StepsBeside ==
  ASSUME PostingInv, happened' \subseteq Events,
         UNCHANGED <<activation, journal, errors, run, alone>>
  PROVE  PostingInv'
<1>1. Numbers' = Numbers /\ (\A k : Posted(k)' <=> Posted(k))
  BY DEF Numbers, Of, Posted
<1>2. \A r : Left(r)' = Left(r) /\ (AtWork(r)' <=> AtWork(r))
  BY DEF Left, AtWork
<1>3. Numbering' /\ RunsKnow'
  BY <1>1, <1>2 DEF PostingInv, Numbering, RunsKnow
<1>4. ClosedBooks' /\ OneAtWork' /\ PostedOnce' /\ NoErrorOfPosted'
  BY <1>1, <1>2 DEF PostingInv, ClosedBooks, OneAtWork, PostedOnce, NoErrorOfPosted
<1> QED
  BY <1>3, <1>4 DEF PostingInv

LEMMA StepBeginActivation == PostingInv /\ BeginActivation => PostingInv'
<1> SUFFICES ASSUME PostingInv, BeginActivation PROVE PostingInv'
  OBVIOUS
<1> USE DEF BeginActivation, documentVars
<1>1. Numbers' = Numbers /\ (\A k : Posted(k)' <=> Posted(k))
  BY DEF Numbers, Of, Posted
<1>2. \A r : Left(r)' = Left(r) /\ (AtWork(r)' <=> AtWork(r))
  BY DEF Left, AtWork
<1>3. Numbering' /\ RunsKnow'
  BY <1>1, <1>2 DEF PostingInv, Numbering, RunsKnow
<1>4. ClosedBooks'
  BY DEF PostingInv, ClosedBooks
<1>5. OneAtWork' /\ PostedOnce' /\ NoErrorOfPosted'
  BY <1>1, <1>2 DEF PostingInv, OneAtWork, PostedOnce, NoErrorOfPosted
<1> QED
  BY <1>3, <1>4, <1>5 DEF PostingInv

(* The opening entry is the first entry; nobody is at work *)
LEMMA StepActivate == PostingInv /\ Activate => PostingInv'
<1> SUFFICES ASSUME PostingInv, Activate PROVE PostingInv'
  OBVIOUS
<1> USE DEF Activate, documentVars
<1>1. PICK b : journal' \subseteq {Entry(Key("company", "activation", 0), b)}
  BY DEF Activate
<1>2. \A k : Posted(k)' => k = Key("company", "activation", 0)
  BY <1>1 DEF Posted, Entry
<1>3. \A n : ~Posted(Opening(n))'
  BY <1>2, OpeningFields DEF Key
<1>4. IsFiniteSet(journal')
  BY <1>1, FS_Singleton, FS_Subset
<1>5. Of("opening")' = {}
  BY <1>1 DEF Of, Entry, Key
<1>6. Numbers' = 0
  BY <1>5, FS_EmptySet DEF Numbers
<1>7. \A r \in Runs : run'[r] = None
  BY DEF PostingInv, ClosedBooks
<1>8. \A r \in Runs : Left(r)' = {} /\ ~AtWork(r)'
  BY <1>7 DEF Left, AtWork
<1>9. Numbering'
  BY <1>3, <1>4, <1>6 DEF Numbering
<1>10. RunsKnow'
  BY <1>8 DEF PostingInv, RunsKnow
<1>11. PostedOnce'
  BY <1>1 DEF PostedOnce
<1>12. errors' = {}
  BY DEF PostingInv, ClosedBooks
<1> QED
  BY <1>8, <1>9, <1>10, <1>11, <1>12 DEF PostingInv, ClosedBooks, OneAtWork, NoErrorOfPosted

-----------------------------------------------------------------------------
(* A run goes on with other candidates, of which none is posted *)
LEMMA RunReads ==
  ASSUME PostingInv, NEW r \in Runs, NEW handler \in Nat, NEW force,
         activation = "on", happened' = happened,
         run' = [run EXCEPT ![r] = Read(handler, force)],
         UNCHANGED <<activation, journal, errors>>,
         alone' => alone /\ \A q \in Runs : AtWork(q) => q = r
  PROVE  PostingInv'
<1>1. Numbers' = Numbers /\ (\A k : Posted(k)' <=> Posted(k))
  BY DEF Numbers, Of, Posted
<1>2. Read(handler, force) \in [next : Nat, todo : SUBSET AnyKey]
      /\ \A k \in Read(handler, force).todo : k \in Candidates(force)
  BY PickedUnposted DEF Read, PostingInv
<1>3. run' \in [Runs -> {None} \cup [next : Nat, todo : SUBSET AnyKey]]
  BY <1>2 DEF PostingInv, RunsKnow
<1>4. \A k \in Left(r)' : k \in Candidates(force)
  BY <1>2 DEF Left, PostingInv, RunsKnow
<1>5. \A q \in Runs \ {r} : Left(q)' = Left(q) /\ (AtWork(q)' <=> AtWork(q))
  BY DEF Left, AtWork, PostingInv, RunsKnow
<1>6. \A k \in Left(r)' : ~Posted(k) /\ \A n \in Nat \ {0} : k = Opening(n) => n <= Numbers + 1
  BY <1>4, PickedUnposted DEF PostingInv
<1>7. RunsKnow'
  BY <1>1, <1>3, <1>5, <1>6 DEF PostingInv, RunsKnow
<1>8. OneAtWork'
  <2> SUFFICES ASSUME alone'
               PROVE  /\ \A p, q \in Runs : AtWork(p)' /\ AtWork(q)' => p = q
                      /\ \A q \in Runs : \A k \in Left(q)' : ~Posted(k)'
    BY DEF OneAtWork
  <2>1. \A q \in Runs \ {r} : ~AtWork(q)'
    BY <1>5
  <2>2. \A q \in Runs \ {r} : Left(q)' = {}
    BY <2>1 DEF Left, AtWork
  <2> QED
    BY <1>1, <1>6, <2>1, <2>2
<1>9. Numbering' /\ ClosedBooks' /\ PostedOnce' /\ NoErrorOfPosted'
  BY <1>1 DEF PostingInv, Numbering, ClosedBooks, PostedOnce, NoErrorOfPosted
<1> QED
  BY <1>7, <1>8, <1>9 DEF PostingInv

LEMMA StepStart == ASSUME PostingInv, NEW r \in Runs, Start(r) PROVE PostingInv'
<1>1. alone' => alone /\ \A q \in Runs : AtWork(q) => q = r
  BY DEF Start
<1> QED
  BY <1>1, RunReads DEF Start, documentVars, setupVars

LEMMA StepProceed == ASSUME PostingInv, NEW r \in Runs, Proceed(r) PROVE PostingInv'
<1>1. activation = "on" /\ run[r] \in [next : Nat, todo : SUBSET AnyKey]
  BY DEF Proceed, AtWork, PostingInv, ClosedBooks, RunsKnow
<1>2. alone' => alone /\ \A q \in Runs : AtWork(q) => q = r
  BY DEF Proceed, PostingInv, OneAtWork
<1>3. run' = [run EXCEPT ![r] = Read(run[r].next, r \in Forcing)]
  BY <1>1 DEF Proceed, PostingInv, RunsKnow
<1> QED
  BY <1>1, <1>2, <1>3, RunReads DEF Proceed, documentVars, setupVars

(* A run has less before it; nothing is posted *)
LEMMA RunLeaves ==
  ASSUME PostingInv, NEW r \in Runs, happened' = happened,
         run' \in [Runs -> {None} \cup [next : Nat, todo : SUBSET AnyKey]],
         \A q \in Runs : Left(q)' \subseteq Left(q) /\ (AtWork(q)' => AtWork(q)),
         UNCHANGED <<activation, journal, alone>>,
         activation = "on",
         alone => \A k \in errors' \ errors : ~Posted(k)
  PROVE  PostingInv'
<1>1. Numbers' = Numbers /\ (\A k : Posted(k)' <=> Posted(k))
  BY DEF Numbers, Of, Posted
<1>2. Numbering' /\ RunsKnow'
  BY <1>1 DEF PostingInv, Numbering, RunsKnow
<1>3. ClosedBooks' /\ PostedOnce' /\ NoErrorOfPosted'
  BY <1>1 DEF PostingInv, ClosedBooks, PostedOnce, NoErrorOfPosted
<1>4. OneAtWork'
  BY <1>1 DEF PostingInv, OneAtWork
<1> QED
  BY <1>2, <1>3, <1>4 DEF PostingInv

(* What the step of a run does to what is before it *)
LEMMA RunDone ==
  ASSUME PostingInv, NEW r \in Runs, NEW k \in Left(r), Done(r, k)
  PROVE  /\ activation = "on"
         /\ run' \in [Runs -> {None} \cup [next : Nat, todo : SUBSET AnyKey]]
         /\ Left(r)' \subseteq Left(r) \ {k}
         /\ \A q \in Runs : Left(q)' \subseteq Left(q) /\ (AtWork(q)' => AtWork(q))
<1>1. AtWork(r) /\ k \in run[r].todo
  BY DEF Left
<1>2. run[r] \in [next : Nat, todo : SUBSET AnyKey]
  BY <1>1 DEF AtWork, PostingInv, RunsKnow
<1>3. run' = [run EXCEPT ![r] = [run[r] EXCEPT !.todo = run[r].todo \ {k}]]
  BY DEF Done
<1>4. run' \in [Runs -> {None} \cup [next : Nat, todo : SUBSET AnyKey]]
  BY <1>2, <1>3 DEF PostingInv, RunsKnow
<1>5. run'[r].todo = run[r].todo \ {k}
  BY <1>2, <1>3 DEF PostingInv, RunsKnow
<1>6. Left(r)' \subseteq Left(r) \ {k}
  BY <1>1, <1>5 DEF Left
<1>7. \A q \in Runs \ {r} : run'[q] = run[q]
  BY <1>3 DEF PostingInv, RunsKnow
<1>8. \A q \in Runs \ {r} : Left(q)' = Left(q) /\ (AtWork(q)' <=> AtWork(q))
  BY <1>7 DEF Left, AtWork
<1>9. activation = "on"
  BY <1>1 DEF AtWork, PostingInv, ClosedBooks
<1> QED
  BY <1>1, <1>4, <1>6, <1>8, <1>9

LEMMA StepPostedByAnother ==
  ASSUME PostingInv, NEW r \in Runs, NEW k \in First(r), PostedByAnother(r, k) PROVE PostingInv'
<1>1. k \in Left(r)
  BY DEF First
<1> QED
  BY <1>1, RunDone, RunLeaves DEF PostedByAnother, documentVars, setupVars

(* A run alone at work fails at something that is not posted *)
LEMMA StepPostFails ==
  ASSUME PostingInv, NEW r \in Runs, NEW k \in First(r), PostFails(r, k) PROVE PostingInv'
<1>1. k \in Left(r) /\ Done(r, k)
  BY DEF First, PostFails
<1>2. alone => ~Posted(k)
  BY <1>1 DEF PostingInv, OneAtWork
<1>3. errors' = errors \cup {k}
  BY DEF PostFails
<1> QED
  BY <1>1, <1>2, <1>3, RunDone, RunLeaves DEF PostFails, documentVars, setupVars

LEMMA StepLeave ==
  ASSUME PostingInv, NEW r \in Runs, AtWork(r), Leave(r),
         UNCHANGED <<documentVars, setupVars, journal, errors, alone>>
  PROVE  PostingInv'
<1>1. run' \in [Runs -> {None} \cup [next : Nat, todo : SUBSET AnyKey]]
  BY DEF Leave, PostingInv, RunsKnow
<1>2. \A q \in Runs : Left(q)' \subseteq Left(q) /\ (AtWork(q)' => AtWork(q))
  BY DEF Leave, PostingInv, RunsKnow, Left, AtWork
<1>3. activation = "on"
  BY DEF AtWork, PostingInv, ClosedBooks
<1> QED
  BY <1>1, <1>2, <1>3, RunLeaves DEF documentVars, setupVars

(* The entry is the first of its key.  An opening balance has the number after    *)
(* the last: no higher one is before a run, and the lower ones are posted         *)
LEMMA StepPost ==
  ASSUME PostingInv, NEW r \in Runs, NEW k \in First(r), Post(r, k) PROVE PostingInv'
<1> DEFINE e == Entry(k, Amount(k))
<1>1. k \in Left(r) /\ Done(r, k) /\ ~Posted(k)
  BY DEF First, Post
<1>2. /\ activation = "on"
      /\ run' \in [Runs -> {None} \cup [next : Nat, todo : SUBSET AnyKey]]
      /\ Left(r)' \subseteq Left(r) \ {k}
      /\ \A q \in Runs : Left(q)' \subseteq Left(q) /\ (AtWork(q)' => AtWork(q))
  BY <1>1, RunDone
<1>3. k \in AnyKey
  BY <1>1 DEF Left, AtWork, PostingInv, RunsKnow
<1>4. UNCHANGED <<happened, activation, alone>> /\ errors' = errors \ {k}
  BY DEF Post, documentVars, setupVars
<1>5. IsFiniteSet(journal) /\ Numbers \in Nat /\ IsFiniteSet(Of("opening"))
  BY NumbersNat DEF PostingInv, Numbering
<1>6. e.key = k
  BY DEF Entry
<1>7. CASE Amount(k) = 0
  <2>1. journal' = journal
    BY <1>7 DEF Post
  <2> QED
    BY <1>2, <1>4, <2>1, RunLeaves
<1>8. CASE Amount(k) # 0
  <2>1. journal' = journal \cup {e}
    BY <1>8 DEF Post
  <2>2. \A l : Posted(l)' <=> Posted(l) \/ l = k
    BY <1>6, <2>1 DEF Posted
  <2>3. IsFiniteSet(journal')
    BY <1>5, <2>1, FS_AddElement
  <2>4. Numbering' /\ Numbers' \in Nat /\ Numbers' >= Numbers
    <3>1. CASE k.event = "opening"
      <4>1. PICK n \in Nat \ {0} : k = Opening(n)
        BY <1>3, <3>1, EventsAreNoOpenings DEF AnyKey, OpeningKeys
      <4>2. n <= Numbers + 1 /\ ~(n <= Numbers)
        BY <1>1, <4>1 DEF PostingInv, RunsKnow, Numbering
      <4>3. n = Numbers + 1
        BY <1>5, <4>2
      <4>4. Of("opening")' = Of("opening") \cup {e} /\ e \notin Of("opening")
        BY <1>1, <1>6, <2>1, <3>1 DEF Of, Posted
      <4>5. Numbers' = Numbers + 1
        BY <1>5, <4>4, FS_AddElement DEF Numbers
      <4>6. \A m : Opening(m) = k <=> m = n
        BY <4>1, OpeningFields
      <4>7. \A m \in Nat \ {0} : Posted(Opening(m))' <=> m <= Numbers'
        BY <1>5, <2>2, <4>3, <4>5, <4>6 DEF PostingInv, Numbering
      <4> QED
        BY <1>5, <2>3, <4>5, <4>7 DEF Numbering
    <3>2. CASE k.event # "opening"
      <4>1. Of("opening")' = Of("opening")
        BY <1>6, <2>1, <3>2 DEF Of
      <4>2. Numbers' = Numbers
        BY <4>1 DEF Numbers
      <4>3. \A m : Opening(m) # k
        BY <3>2, OpeningFields
      <4> QED
        BY <1>5, <2>2, <2>3, <4>2, <4>3 DEF PostingInv, Numbering
    <3> QED
      BY <3>1, <3>2
  <2>5. RunsKnow'
    <3> SUFFICES ASSUME NEW q \in Runs, NEW n \in Nat \ {0}, Opening(n) \in Left(q)'
                 PROVE  n <= Numbers' + 1
      BY <1>2 DEF RunsKnow
    <3>1. Opening(n) \in Left(q)
      BY <1>2
    <3>2. n <= Numbers + 1
      BY <1>1, <3>1 DEF PostingInv, RunsKnow
    <3>3. Numbers \in Nat /\ Numbers' \in Nat /\ Numbers' >= Numbers
      BY <1>5, <2>4
    <3>4. \A a, b, c \in Nat : c <= a + 1 /\ b >= a => c <= b + 1
      OBVIOUS
    <3> QED
      BY <3>2, <3>3, <3>4
  <2>6. PostedOnce'
    BY <1>1, <1>6, <2>1 DEF PostingInv, PostedOnce, Posted
  <2>7. NoErrorOfPosted'
    BY <1>4, <2>2 DEF PostingInv, NoErrorOfPosted
  <2>8. OneAtWork'
    <3> SUFFICES ASSUME alone
                 PROVE  /\ \A p, q \in Runs : AtWork(p)' /\ AtWork(q)' => p = q
                        /\ \A q \in Runs : \A l \in Left(q)' : ~Posted(l)'
      BY <1>4 DEF OneAtWork
    <3>1. AtWork(r)
      BY <1>1 DEF Left
    <3>2. \A q \in Runs : AtWork(q) => q = r
      BY <3>1 DEF PostingInv, OneAtWork
    <3>3. \A q \in Runs : \A l \in Left(q)' : l # k /\ ~Posted(l)
      BY <1>2, <3>2 DEF Left, PostingInv, OneAtWork
    <3> QED
      BY <1>2, <2>2, <3>2, <3>3
  <2> QED
    BY <1>2, <1>4, <2>4, <2>5, <2>6, <2>7, <2>8 DEF PostingInv, ClosedBooks
<1> QED
  BY <1>7, <1>8

-----------------------------------------------------------------------------
LEMMA PostingStep == PostingInv /\ [Next]_vars => PostingInv'
<1> SUFFICES ASSUME PostingInv, [Next]_vars PROVE PostingInv'
  OBVIOUS
<1>1. ASSUME NEW k \in Events, NEW before \in BOOLEAN, Happen(k, before) PROVE PostingInv'
  BY <1>1, StepsBeside DEF Happen, setupVars, PostingInv
<1>2. ASSUME NEW owed \in OpeningBalances, ChangeOpening(owed) PROVE PostingInv'
  BY <1>2, StepsBeside DEF ChangeOpening, setupVars, PostingInv
<1>3. CASE BeginActivation \/ Activate
  BY <1>3, StepBeginActivation, StepActivate
<1>4. ASSUME NEW r \in Runs, Start(r) \/ Proceed(r) PROVE PostingInv'
  BY <1>4, StepStart, StepProceed
<1>5. ASSUME NEW r \in Runs, End(r) \/ Stop(r) PROVE PostingInv'
  BY <1>5, StepLeave DEF End, Stop
<1>6. ASSUME NEW r \in Runs, NEW k \in First(r), Post(r, k) \/ PostedByAnother(r, k) \/ PostFails(r, k)
      PROVE  PostingInv'
  BY <1>6, StepPost, StepPostedByAnother, StepPostFails
<1>7. ASSUME NEW k \in recent, RetryAfter(k) PROVE PostingInv'
  BY <1>7, StepsBeside DEF RetryAfter, documentVars, setupVars, PostingInv
<1>8. CASE LoseLock
  BY <1>8, StepsBeside DEF LoseLock, documentVars, setupVars, PostingInv
<1>9. CASE UNCHANGED vars
  BY <1>9, StepsBeside DEF vars, documentVars, setupVars, PostingInv
<1> QED
  BY <1>1, <1>2, <1>3, <1>4, <1>5, <1>6, <1>7, <1>8, <1>9 DEF Next

LEMMA PostingAlways == Spec => []PostingInv
<1>1. Init => PostingInv
  BY PostingInit
<1>2. PostingInv /\ [Next]_vars => PostingInv'
  BY PostingStep
<1> QED
  BY <1>1, <1>2, PTL DEF Spec

(* An event never has two entries, for any number of runs and lost locks (the      *)
(* unique index of journal_entries and the numbering of the opening balances)      *)
THEOREM OneEntryPerEvent == Spec => []PostedOnce
<1>1. PostingInv => PostedOnce
  BY DEF PostingInv
<1> QED
  BY <1>1, PostingAlways, PTL

(* While runs follow one another an error is the error of something that is not     *)
(* posted: closing a year is not refused for what is in the books already            *)
THEOREM ErrorsAreOpen == Spec => []NoErrorOfPosted
<1>1. PostingInv => NoErrorOfPosted
  BY DEF PostingInv
<1> QED
  BY <1>1, PostingAlways, PTL

(* Both together: the journal and the list of errors never contradict each other    *)
THEOREM EntriesAreOnce == Spec => []EntriesOnce
<1>1. PostedOnce /\ NoErrorOfPosted => EntriesOnce
  BY DEF EntriesOnce
<1> QED
  BY <1>1, OneEntryPerEvent, ErrorsAreOpen, PTL

-----------------------------------------------------------------------------
(***************************************************************************)
(* The books and the statement.  What the books say is what the opening       *)
(* entry holds, what was posted of the opening balance, and what the posted     *)
(* events add; posted and before the runs are only events of after the           *)
(* activation.                                                                   *)
(***************************************************************************)
PostedEvents == {k \in Events : Posted(k)}
Since == happened \ early

(* The books are open: what the customer owes by them *)
BooksAddUp ==
  activation = "on" =>
    Balance(journal) = baseline + Owing(counted) + Balance(Of("opening")) + Owing(PostedEvents)

Figures ==
  /\ early \subseteq happened /\ counted \subseteq happened
  /\ opening \in Int /\ baseline \in Int
  /\ \A e \in journal : e.amount \in Int

PostedSince == PostedEvents \subseteq Since
PickedSince == \A r \in Runs : Left(r) \cap Events \subseteq Since

BooksInv == Figures /\ PostedSince /\ PickedSince /\ BooksAddUp

-----------------------------------------------------------------------------
(* Sums over events *)
LEMMA EventsFinite == IsFiniteSet(Events)
<1> DEFINE Keys == Documents \X {"issue", "record", "cancel"}
           f == [c \in Keys |-> Key(c[1], c[2], 0)]
           S == {f[c] : c \in Keys}
<1>1. IsFiniteSet({"issue", "record", "cancel"})
  <2>1. IsFiniteSet({"issue"})
    BY FS_Singleton
  <2>2. IsFiniteSet({"issue"} \cup {"record"})
    BY <2>1, FS_AddElement
  <2>3. IsFiniteSet(({"issue"} \cup {"record"}) \cup {"cancel"})
    BY <2>2, FS_AddElement
  <2>4. ({"issue"} \cup {"record"}) \cup {"cancel"} = {"issue", "record", "cancel"}
    OBVIOUS
  <2> QED
    BY <2>3, <2>4
<1>2. IsFiniteSet(Keys)
  BY <1>1, FS_Product
<1>3. f \in Surjection(Keys, S)
  BY DEF Surjection
<1>4. IsFiniteSet(S)
  BY <1>2, <1>3, FS_Surjection
<1>5. Events \subseteq S
  <2> SUFFICES ASSUME NEW k \in Events PROVE k \in S
    OBVIOUS
  <2>1. PICK d \in Documents, event \in {"issue", "record", "cancel"} : k = Key(d, event, 0)
    BY DEF Events, Issue, Record, Cancel, Documents
  <2>2. <<d, event>> \in Keys /\ f[<<d, event>>] = k
    BY <2>1
  <2> QED
    BY <2>2
<1> QED
  BY <1>4, <1>5, FS_Subset

LEMMA ReceivableType == \A k \in Events : Receivable(k) \in Int
<1> SUFFICES ASSUME NEW k \in Events PROVE Receivable(k) \in Int
  OBVIOUS
<1>1. k.source \in Documents
  BY DEF Events, Issue, Record, Cancel, Key, Documents
<1> QED
  BY <1>1 DEF Receivable

LEMMA OwingType ==
  ASSUME NEW S \in SUBSET Events
  PROVE  Owing(S) \in Int
<1>1. IsFiniteSet(S)
  BY EventsFinite, FS_Subset
<1>2. [k \in S |-> Receivable(k)] \in [S -> Int]
  BY ReceivableType
<1> QED
  BY <1>1, <1>2, TotalType DEF Owing

LEMMA OwingMore ==
  ASSUME NEW S \in SUBSET Events, NEW k \in Events, k \notin S
  PROVE  Owing(S \cup {k}) = Owing(S) + Receivable(k)
<1> DEFINE T == S \cup {k}
           f == [l \in S |-> Receivable(l)]
           g == [l \in T |-> Receivable(l)]
<1>1. IsFiniteSet(T)
  BY EventsFinite, FS_Subset
<1>2. f \in [S -> Int] /\ g \in [T -> Int] /\ g[k] = Receivable(k) /\ \A l \in S : g[l] = f[l]
  BY ReceivableType
<1>3. k \in T /\ S \in SUBSET T /\ \A l \in T : l = k \/ l \in S
  OBVIOUS
<1> HIDE DEF T, f, g
<1>4. Total(g) = Total(f) + g[k]
  BY <1>1, <1>2, <1>3, TotalExtend
<1> QED
  BY <1>2, <1>4 DEF Owing, T, f, g

LEMMA OwingSplit ==
  ASSUME NEW S \in SUBSET Events, NEW T \in SUBSET S
  PROVE  Owing(S) = Owing(T) + Owing(S \ T)
<1> DEFINE R == S \ T
           f == [k \in S |-> Receivable(k)]
           g == [k \in T |-> Receivable(k)]
           h == [k \in R |-> Receivable(k)]
<1>1. IsFiniteSet(S)
  BY EventsFinite, FS_Subset
<1>2. f \in [S -> Int] /\ PartOf(g, T, f) /\ PartOf(h, R, f)
  BY ReceivableType DEF PartOf
<1>3. S = T \cup R /\ T \cap R = {}
  OBVIOUS
<1> HIDE DEF R, f, g, h
<1>4. Total(f) = Total(g) + Total(h)
  BY <1>1, <1>2, <1>3, TotalSplit
<1> QED
  BY <1>4 DEF Owing, R, f, g, h

LEMMA NothingOwed == Owing({}) = 0 /\ Balance({}) = 0
<1>1. [k \in {} |-> Receivable(k)] = [k \in {} |-> 0] /\ [e \in {} |-> e.amount] = [e \in {} |-> 0]
  OBVIOUS
<1> QED
  BY <1>1, TotalZero DEF Owing, Balance

(* Sums over entries *)
LEMMA BalanceType ==
  ASSUME NEW entries, IsFiniteSet(entries), \A e \in entries : e.amount \in Int
  PROVE  Balance(entries) \in Int
<1>1. [e \in entries |-> e.amount] \in [entries -> Int]
  OBVIOUS
<1> QED
  BY <1>1, TotalType DEF Balance

LEMMA BalanceMore ==
  ASSUME NEW entries, IsFiniteSet(entries), NEW e, e \notin entries, \A d \in entries \cup {e} : d.amount \in Int
  PROVE  Balance(entries \cup {e}) = Balance(entries) + e.amount
<1> DEFINE T == entries \cup {e}
           f == [d \in entries |-> d.amount]
           g == [d \in T |-> d.amount]
<1>1. IsFiniteSet(T)
  BY FS_AddElement
<1>2. f \in [entries -> Int] /\ g \in [T -> Int] /\ g[e] = e.amount /\ \A d \in entries : g[d] = f[d]
  OBVIOUS
<1>3. e \in T /\ entries \in SUBSET T /\ \A d \in T : d = e \/ d \in entries
  OBVIOUS
<1> HIDE DEF T, f, g
<1>4. Total(g) = Total(f) + g[e]
  BY <1>1, <1>2, <1>3, TotalExtend
<1> QED
  BY <1>2, <1>4 DEF Balance, T, f, g

-----------------------------------------------------------------------------
LEMMA BooksInit == Init => BooksInv
<1> SUFFICES ASSUME Init PROVE BooksInv
  OBVIOUS
<1>1. \A k : ~Posted(k)
  BY DEF Init, Posted
<1>2. \A r \in Runs : Left(r) = {}
  BY DEF Init, Left, AtWork
<1>3. Figures
  BY DEF Init, Figures
<1>4. activation # "on"
  BY DEF Init
<1> QED
  BY <1>1, <1>2, <1>3, <1>4 DEF BooksInv, PostedSince, PickedSince, BooksAddUp, PostedEvents

(* A step that leaves the books alone: documents happen after the activation or   *)
(* are new, and a run has before it what happened after the activation            *)
LEMMA BooksBeside ==
  ASSUME BooksInv, UNCHANGED <<activation, journal, counted, baseline>>,
         early' \subseteq happened', counted \subseteq happened', opening' \in Int,
         Since \subseteq Since',
         \A r \in Runs : Left(r)' \cap Events \subseteq Since'
  PROVE  BooksInv'
<1>1. \A k : Posted(k)' <=> Posted(k)
  BY DEF Posted
<1>2. PostedEvents' = PostedEvents
  BY <1>1 DEF PostedEvents
<1>3. Figures'
  BY DEF BooksInv, Figures
<1>4. PostedSince' /\ PickedSince'
  BY <1>2 DEF BooksInv, PostedSince, PickedSince
<1>5. Balance(Of("opening"))' = Balance(Of("opening"))
  BY DEF Of
<1>6. BooksAddUp'
  BY <1>2, <1>5 DEF BooksInv, BooksAddUp
<1> QED
  BY <1>3, <1>4, <1>6 DEF BooksInv

(* A document that happens was not among what happened before, on either side *)
LEMMA BooksHappen ==
  ASSUME BooksInv, NEW k \in Events, NEW before \in BOOLEAN, Happen(k, before)
  PROVE  BooksInv'
<1>1. /\ k \notin happened /\ happened' = happened \cup {k}
      /\ early' = early \/ early' = early \cup {k}
      /\ UNCHANGED <<opening, activation, baseline, counted, journal, run>>
  BY DEF Happen, setupVars
<1>2. /\ early \subseteq happened /\ counted \subseteq happened /\ opening \in Int
      /\ \A r \in Runs : Left(r) \cap Events \subseteq Since
  BY DEF BooksInv, Figures, PickedSince
<1>3. Since \subseteq Since'
  BY <1>1 DEF Since
<1>4. \A r \in Runs : Left(r)' = Left(r)
  BY <1>1 DEF Left, AtWork
<1>5. early' \subseteq happened' /\ counted \subseteq happened' /\ opening' \in Int
  BY <1>1, <1>2
<1> QED
  BY <1>1, <1>2, <1>3, <1>4, <1>5, BooksBeside

(* A step of the runs that leaves the books and the documents alone *)
LEMMA BooksRun ==
  ASSUME BooksInv, UNCHANGED <<happened, early, opening, activation, journal, counted, baseline>>,
         \A r \in Runs : Left(r)' \cap Events \subseteq Since
  PROVE  BooksInv'
<1>1. Since' = Since /\ early \subseteq happened /\ counted \subseteq happened /\ opening \in Int
  BY DEF Since, BooksInv, Figures
<1> QED
  BY <1>1, BooksBeside

(* What a run picks of the events happened after the activation *)
LEMMA BooksRead ==
  ASSUME PostingInv, BooksInv, NEW r \in Runs, NEW handler, NEW force,
         run' = [run EXCEPT ![r] = Read(handler, force)],
         UNCHANGED <<happened, early, opening, activation, journal, counted, baseline>>
  PROVE  BooksInv'
<1>1. \A k \in Candidates(force) \cap Events : k \in Since
  <2>1. \A k \in PickedOpening(force) : k.event = "opening"
    BY OpeningFields DEF PickedOpening
  <2>2. \A k \in PickedOpening(force) : k \notin Events
    BY <2>1, EventsAreNoOpenings
  <2> QED
    BY <2>2 DEF Candidates, Picked, Since
<1>2. Read(handler, force).todo \subseteq Candidates(force)
  BY DEF Read
<1>3. run'[r] = Read(handler, force) /\ \A q \in Runs \ {r} : run'[q] = run[q]
  BY DEF PostingInv, RunsKnow
<1>4. Left(r)' \subseteq Candidates(force)
  BY <1>2, <1>3 DEF Left
<1>5. \A q \in Runs \ {r} : Left(q)' = Left(q)
  BY <1>3 DEF Left, AtWork
<1>6. \A q \in Runs : Left(q)' \cap Events \subseteq Since
  BY <1>1, <1>4, <1>5 DEF BooksInv, PickedSince
<1> QED
  BY <1>6, BooksRun

(* The opening entry is what the customer owed by the documents it counts *)
LEMMA BooksActivate ==
  ASSUME PostingInv, BooksInv, Activate
  PROVE  BooksInv'
<1>1. PICK owed : owed = opening + Owing(happened)
  OBVIOUS
<1>2. PICK e : e = Entry(Key("company", "activation", 0), owed)
  OBVIOUS
<1>3. /\ counted' = happened /\ baseline' = opening
      /\ journal' = (IF owed = 0 THEN {} ELSE {e})
      /\ UNCHANGED <<happened, early, opening, run>>
  BY <1>1, <1>2 DEF Activate, documentVars
<1>4. /\ Figures /\ happened \subseteq Events
      /\ \A r \in Runs : run[r] = None
  BY DEF BooksInv, PostingInv, ClosedBooks, Activate
<1>5. opening \in Int /\ Owing(happened) \in Int /\ owed \in Int
  BY <1>1, <1>4, OwingType DEF Figures
<1>6. e.key = Key("company", "activation", 0) /\ e.amount = owed
  BY <1>2 DEF Entry
<1>7. \A r \in Runs : Left(r)' = {}
  BY <1>3, <1>4 DEF Left, AtWork
<1>8. \A k : Posted(k)' => k.event = "activation"
  BY <1>3, <1>6 DEF Posted, Key
<1>9. PostedEvents' = {}
  BY <1>8 DEF PostedEvents, Events, Issue, Record, Cancel, Key
<1>10. Of("opening")' = {}
  BY <1>3, <1>6 DEF Of, Key
<1>11. Balance(journal') = owed
  <2>1. CASE owed = 0
    BY <1>3, <2>1, NothingOwed
  <2>2. CASE owed # 0
    <3>1. Balance({} \cup {e}) = Balance({}) + e.amount
      BY <1>5, <1>6, FS_EmptySet, BalanceMore
    <3>2. journal' = {} \cup {e}
      BY <1>3, <2>2
    <3> QED
      BY <1>5, <1>6, <3>1, <3>2, NothingOwed
  <2> QED
    BY <2>1, <2>2
<1>12. Figures'
  BY <1>3, <1>4, <1>5, <1>6 DEF Figures
<1>13. BooksAddUp'
  <2>1. Owing(counted') = Owing(happened) /\ Owing(PostedEvents') = 0 /\ Balance(Of("opening")') = 0
    BY <1>3, <1>9, <1>10, NothingOwed
  <2>2. Balance(journal') = baseline' + Owing(counted') + Balance(Of("opening")') + Owing(PostedEvents')
    BY <1>1, <1>3, <1>5, <1>11, <2>1
  <2> QED
    BY <2>2 DEF BooksAddUp
<1> QED
  BY <1>7, <1>9, <1>12, <1>13 DEF BooksInv, PostedSince, PickedSince

(* An entry adds to the books what its event adds to what the customer owes, or to *)
(* the opening balance                                                            *)
LEMMA BooksPost ==
  ASSUME PostingInv, BooksInv, NEW r \in Runs, NEW k \in First(r), Post(r, k)
  PROVE  BooksInv'
<1>1. k \in Left(r) /\ Done(r, k) /\ ~Posted(k)
  BY DEF First, Post
<1>2. activation = "on" /\ \A q \in Runs : Left(q)' \subseteq Left(q)
  BY <1>1, RunDone
<1>3. UNCHANGED <<happened, early, opening, activation, baseline, counted>>
  BY DEF Post, documentVars, setupVars
<1>4. /\ Figures /\ PostedSince /\ PickedSince /\ BooksAddUp
      /\ IsFiniteSet(journal) /\ IsFiniteSet(Of("opening")) /\ happened \subseteq Events
  BY NumbersNat DEF BooksInv, PostingInv, Numbering
<1>5. \A q \in Runs : Left(q)' \cap Events \subseteq Since
  BY <1>2, <1>4 DEF PickedSince
<1>6. PICK amount : amount = Amount(k)
  OBVIOUS
<1>7. CASE amount = 0
  <2>1. journal' = journal
    BY <1>6, <1>7 DEF Post
  <2> QED
    BY <1>3, <1>5, <2>1, BooksRun
<1>8. CASE amount # 0
  <2>1. PICK e : e = Entry(k, amount)
    OBVIOUS
  <2>2. journal' = journal \cup {e}
    BY <1>6, <1>8, <2>1 DEF Post
  <2>3. e.key = k /\ e.amount = amount /\ e \notin journal
    BY <1>1, <2>1 DEF Entry, Posted
  <2>4. \A l : Posted(l)' <=> Posted(l) \/ l = k
    BY <2>2, <2>3 DEF Posted
  <2>5. Balance(Of("opening")) \in Int /\ Balance(journal) \in Int
    BY <1>4, BalanceType DEF Of, Figures
  <2>6. k \in AnyKey
    BY <1>1 DEF Left, AtWork, PostingInv, RunsKnow
  <2>7. amount \in Int
    <3>1. CASE k.event = "opening"
      BY <1>4, <1>6, <2>5, <3>1 DEF Amount, Delta, Figures
    <3>2. CASE k.event # "opening"
      <4>1. k \in Events
        BY <2>6, <3>2, OpeningFields DEF AnyKey, OpeningKeys
      <4> QED
        BY <1>6, <3>2, <4>1, ReceivableType DEF Amount
    <3> QED
      BY <3>1, <3>2
  <2>8. Figures'
    BY <1>3, <1>4, <2>2, <2>3, <2>7 DEF Figures
  <2>9. Balance(journal') = Balance(journal) + amount
    <3>1. \A d \in journal \cup {e} : d.amount \in Int
      BY <1>4, <2>3, <2>7 DEF Figures
    <3>2. Balance(journal \cup {e}) = Balance(journal) + e.amount
      BY <1>4, <2>3, <3>1, BalanceMore
    <3> QED
      BY <2>2, <2>3, <3>2
  <2>10. Owing(counted) \in Int /\ Owing(PostedEvents) \in Int /\ baseline \in Int
    BY <1>4, OwingType DEF Figures, PostedEvents
  <2>11. Balance(journal) = baseline + Owing(counted) + Balance(Of("opening")) + Owing(PostedEvents)
    BY <1>2, <1>4 DEF BooksAddUp
  <2>12. PostedSince' /\ BooksAddUp'
    <3>1. CASE k.event = "opening"
      <4>1. k \notin Events
        BY <3>1, EventsAreNoOpenings
      <4>2. PostedEvents' = PostedEvents
        BY <2>4, <4>1 DEF PostedEvents
      <4>3. PICK openings : openings = Of("opening")
        OBVIOUS
      <4>4. Of("opening")' = openings \cup {e} /\ e \notin openings
        BY <2>2, <2>3, <3>1, <4>3 DEF Of
      <4>5. IsFiniteSet(openings) /\ \A d \in openings \cup {e} : d.amount \in Int
        BY <1>4, <2>3, <2>7, <4>3 DEF Of, Figures
      <4>6. Balance(openings \cup {e}) = Balance(openings) + e.amount
        BY <4>4, <4>5, BalanceMore
      <4>7. Balance(Of("opening")') = Balance(Of("opening")) + amount
        BY <2>3, <4>3, <4>4, <4>6
      <4>8. Balance(journal') = baseline' + Owing(counted') + Balance(Of("opening")') + Owing(PostedEvents')
        <5>1. Owing(PostedEvents') = Owing(PostedEvents) /\ Owing(counted') = Owing(counted) /\ baseline' = baseline
          BY <1>3, <4>2
        <5> QED
          BY <2>5, <2>7, <2>9, <2>10, <2>11, <4>7, <5>1
      <4>9. BooksAddUp'
        BY <4>8 DEF BooksAddUp
      <4> QED
        BY <1>3, <1>4, <4>2, <4>9 DEF PostedSince, Since
    <3>2. CASE k.event # "opening"
      <4>1. k \in Events
        BY <2>6, <3>2, OpeningFields DEF AnyKey, OpeningKeys
      <4>2. PICK posted : posted = PostedEvents
        OBVIOUS
      <4>3. PostedEvents' = posted \cup {k} /\ k \notin posted /\ posted \in SUBSET Events
        BY <1>1, <2>4, <4>1, <4>2 DEF PostedEvents
      <4>4. k \in Since
        BY <1>1, <1>4, <4>1 DEF PickedSince
      <4>5. Of("opening")' = Of("opening")
        BY <2>2, <2>3, <3>2 DEF Of
      <4>6. Owing(posted \cup {k}) = Owing(posted) + Receivable(k)
        BY <4>1, <4>3, OwingMore
      <4>7. amount = Receivable(k)
        BY <1>6, <3>2 DEF Amount
      <4>8. Balance(journal') = baseline' + Owing(counted') + Balance(Of("opening")') + Owing(PostedEvents')
        <5>1. Owing(PostedEvents') = Owing(PostedEvents) + amount
          BY <4>2, <4>3, <4>6, <4>7
        <5>2. Owing(counted') = Owing(counted) /\ baseline' = baseline
              /\ Balance(Of("opening")') = Balance(Of("opening"))
          BY <1>3, <4>5
        <5> QED
          BY <2>5, <2>7, <2>9, <2>10, <2>11, <5>1, <5>2
      <4>9. BooksAddUp'
        BY <4>8 DEF BooksAddUp
      <4> QED
        BY <1>3, <1>4, <4>2, <4>3, <4>4, <4>9 DEF PostedSince, Since
    <3> QED
      BY <3>1, <3>2
  <2>13. PickedSince'
    BY <1>3, <1>5 DEF PickedSince, Since
  <2> QED
    BY <2>8, <2>12, <2>13 DEF BooksInv
<1> QED
  BY <1>7, <1>8

LEMMA BooksStep == PostingInv /\ BooksInv /\ [Next]_vars => BooksInv'
<1> SUFFICES ASSUME PostingInv, BooksInv, [Next]_vars PROVE BooksInv'
  OBVIOUS
<1>0. \A r \in Runs : Left(r) \cap Events \subseteq Since
  BY DEF BooksInv, PickedSince
<1>1. ASSUME NEW k \in Events, NEW before \in BOOLEAN, Happen(k, before) PROVE BooksInv'
  BY <1>1, BooksHappen
<1>2. ASSUME NEW owed \in OpeningBalances, ChangeOpening(owed) PROVE BooksInv'
  <2>1. owed \in Int /\ opening' = owed
    BY <1>2 DEF ChangeOpening
  <2>2. UNCHANGED <<happened, early, activation, journal, counted, baseline, run>>
    BY <1>2 DEF ChangeOpening, setupVars
  <2>3. \A r \in Runs : Left(r)' = Left(r)
    BY <2>2 DEF Left, AtWork
  <2>4. Since' = Since /\ early \subseteq happened /\ counted \subseteq happened
    BY <2>2 DEF Since, BooksInv, Figures
  <2> QED
    BY <1>0, <2>1, <2>2, <2>3, <2>4, BooksBeside
<1>3. CASE BeginActivation
  <2>1. /\ UNCHANGED <<happened, early, opening, journal, counted, baseline, run>>
        /\ activation' # "on"
    BY <1>3 DEF BeginActivation, documentVars
  <2>2. PostedEvents' = PostedEvents /\ \A r \in Runs : Left(r)' = Left(r)
    BY <2>1 DEF PostedEvents, Posted, Left, AtWork
  <2> QED
    BY <2>1, <2>2 DEF BooksInv, Figures, PostedSince, PickedSince, BooksAddUp, Since
<1>4. CASE Activate
  BY <1>4, BooksActivate
<1>5. ASSUME NEW r \in Runs, Start(r) PROVE BooksInv'
  BY <1>5, BooksRead DEF Start, documentVars, setupVars
<1>6. ASSUME NEW r \in Runs, Proceed(r) PROVE BooksInv'
  <2>1. run' = [run EXCEPT ![r] = Read(run[r].next, r \in Forcing)]
    BY <1>6 DEF Proceed, PostingInv, RunsKnow
  <2> QED
    BY <1>6, <2>1, BooksRead DEF Proceed, documentVars, setupVars
<1>7. ASSUME NEW r \in Runs, End(r) \/ Stop(r) PROVE BooksInv'
  <2>1. Leave(r) /\ UNCHANGED <<happened, early, opening, activation, journal, counted, baseline>>
    BY <1>7 DEF End, Stop, documentVars, setupVars
  <2>2. \A q \in Runs : Left(q)' \subseteq Left(q)
    BY <2>1 DEF Leave, PostingInv, RunsKnow, Left, AtWork
  <2>3. \A q \in Runs : Left(q)' \cap Events \subseteq Since
    BY <1>0, <2>2
  <2> QED
    BY <2>1, <2>3, BooksRun
<1>8. ASSUME NEW r \in Runs, NEW k \in First(r), Post(r, k) PROVE BooksInv'
  BY <1>8, BooksPost
<1>9. ASSUME NEW r \in Runs, NEW k \in First(r), PostedByAnother(r, k) \/ PostFails(r, k) PROVE BooksInv'
  <2>1. k \in Left(r) /\ Done(r, k) /\ UNCHANGED <<happened, early, opening, activation, journal, counted, baseline>>
    BY <1>9 DEF First, PostedByAnother, PostFails, documentVars, setupVars
  <2>2. \A q \in Runs : Left(q)' \subseteq Left(q)
    BY <2>1, RunDone
  <2>3. \A q \in Runs : Left(q)' \cap Events \subseteq Since
    BY <1>0, <2>2
  <2> QED
    BY <2>1, <2>3, BooksRun
<1>10. ASSUME UNCHANGED <<happened, early, opening, activation, journal, counted, baseline, run>> PROVE BooksInv'
  <2>1. \A r \in Runs : Left(r)' = Left(r)
    BY <1>10 DEF Left, AtWork
  <2> QED
    BY <1>0, <1>10, <2>1, BooksRun
<1>11. ASSUME NEW k \in recent, RetryAfter(k) PROVE BooksInv'
  BY <1>10, <1>11 DEF RetryAfter, documentVars, setupVars
<1>12. CASE LoseLock
  BY <1>10, <1>12 DEF LoseLock, documentVars, setupVars
<1>13. CASE UNCHANGED vars
  BY <1>10, <1>13 DEF vars, documentVars, setupVars
<1> QED
  BY <1>1, <1>2, <1>3, <1>4, <1>5, <1>6, <1>7, <1>8, <1>9, <1>11, <1>12, <1>13 DEF Next

LEMMA BooksAlways == Spec => []BooksInv
<1>1. Init => BooksInv
  BY BooksInit
<1>2. PostingInv /\ BooksInv /\ [Next]_vars => BooksInv'
  BY BooksStep
<1> QED
  BY <1>1, <1>2, PostingAlways, PTL DEF Spec

(* With nothing left to post, every event of after the activation has its entry,   *)
(* and so has every change of the opening balance                                 *)
LEMMA NothingLeftToPost ==
  ASSUME PostingInv, BooksInv, Owed = {}
  PROVE  PostedEvents = Since /\ opening = baseline + Balance(Of("opening"))
<1>1. Picked(TRUE) = {} /\ PickedOpening(TRUE) = {}
  BY DEF Owed, Candidates
<1>2. \A k : Due(k, TRUE)
  BY DEF Due
<1>3. \A k \in Since : Posted(k)
  BY <1>1, <1>2 DEF Picked, Since
<1>4. PostedEvents = Since
  BY <1>3 DEF PostedEvents, Since, BooksInv, PostedSince, PostingInv
<1>5. Delta = 0
  BY <1>1, <1>2 DEF PickedOpening
<1>6. IsFiniteSet(Of("opening"))
  BY NumbersNat DEF PostingInv, Numbering
<1>7. Balance(Of("opening")) \in Int /\ opening \in Int /\ baseline \in Int
  BY <1>6, BalanceType DEF Of, BooksInv, Figures
<1> QED
  BY <1>4, <1>5, <1>7 DEF Delta

(* What the customer owes by the books is the balance of his statement once        *)
(* everything is posted, but for what the opening entry missed or counted twice,    *)
(* for any documents, opening balances, runs and faults (activate, pick, postOne,    *)
(* partyOpenings).                                                                   *)
THEOREM BooksMatch == Spec => []BooksMatchStatements
<1>1. PostingInv /\ BooksInv => BooksMatchStatements
  <2> SUFFICES ASSUME PostingInv, BooksInv, activation = "on", Owed = {}
               PROVE  Balance(journal)
                        = opening + Owing(happened) - Owing(early \ counted) + Owing(counted \ early)
    BY DEF BooksMatchStatements
  <2>1. /\ early \subseteq happened /\ counted \subseteq happened /\ happened \subseteq Events
        /\ opening \in Int /\ baseline \in Int
    BY DEF BooksInv, Figures, PostingInv
  <2>2. PICK both : both = early \cap counted
    OBVIOUS
  <2>3. Owing(happened) = Owing(early) + Owing(happened \ early)
    BY <2>1, OwingSplit
  <2>4. Owing(early) = Owing(both) + Owing(early \ counted)
    <3>1. early \ both = early \ counted /\ both \in SUBSET early
      BY <2>2
    <3> QED
      BY <2>1, <3>1, OwingSplit
  <2>5. Owing(counted) = Owing(both) + Owing(counted \ early)
    <3>1. counted \ both = counted \ early /\ both \in SUBSET counted
      BY <2>2
    <3> QED
      BY <2>1, <3>1, OwingSplit
  <2>6. /\ Owing(happened \ early) \in Int /\ Owing(both) \in Int
        /\ Owing(early \ counted) \in Int /\ Owing(counted \ early) \in Int
    BY <2>1, <2>2, OwingType
  <2>7. IsFiniteSet(Of("opening"))
    BY NumbersNat DEF PostingInv, Numbering
  <2>8. Balance(Of("opening")) \in Int
    BY <2>7, BalanceType DEF Of, BooksInv, Figures
  <2>9. Owing(PostedEvents) = Owing(happened \ early) /\ opening = baseline + Balance(Of("opening"))
    BY NothingLeftToPost DEF Since
  <2>10. Balance(journal) = baseline + Owing(counted) + Balance(Of("opening")) + Owing(PostedEvents)
    BY DEF BooksInv, BooksAddUp
  <2> QED
    BY <2>1, <2>3, <2>4, <2>5, <2>6, <2>8, <2>9, <2>10
<1> QED
  BY <1>1, PostingAlways, BooksAlways, PTL

-----------------------------------------------------------------------------
(***************************************************************************)
(* Payrolls.  A bonus or a settlement is paid once, a loan ends with its last  *)
(* installment, and a payslip adds up.  The invariant follows an extra from its *)
(* direct payment to the payrolls of its month, which take off what was paid     *)
(* ahead, and an installment from the payment that counts it, the only one that  *)
(* does, to the loan: each as long as the history does not excuse it.            *)
(***************************************************************************)

(* The rows of loans and deductions, and those of bonuses and settlements, are *)
(* taken together                                                              *)
DebtRow ==
  [status : LoanStatus \cup DeductionStatus \cup {"none", "removed"},
   count : Counts \cup {0}, paid : Nat, start : Months]
ExtraRow ==
  [status : BonusStatus \cup {"none", "removed"}, month : Months, isDisbursed : BOOLEAN]

DebtsTyped ==
  /\ debt \in [Debts -> DebtRow]
  /\ \A d \in Loans : debt[d] \in LoanRow
  /\ \A d \in Deductions : debt[d] \in DeductionRow
ExtrasTyped ==
  /\ extra \in [Extras -> ExtraRow]
  /\ direct \in [Extras -> ExtraRow]
  /\ \A x \in Payouts : extra[x].status \in {"none", "approved"} /\ direct[x].status \in {"none", "approved"}
PayrollsTyped ==
  /\ payroll \in [Payrolls -> PayrollRow]
  /\ \A p \in Payrolls : payroll[p].state \notin {"paying", "paid"} => payroll[p].fresh = {}
SalariesTyped == DebtsTyped /\ ExtrasTyped /\ PayrollsTyped /\ thisMonth \in Months

(* What is among the dues of a payroll is there, of its month *)
DuesOfMonth(x) ==
  \A p \in Payrolls : x \in payroll[p].item.extras =>
    /\ extra[x].status # "none"
    /\ x \notin edited => extra[x].month = payroll[p].month

(* What a payroll takes off as paid ahead was paid *)
PrepaidWasPaid(x) ==
  \A p \in Payrolls : x \in payroll[p].item.prepaid \cup payroll[p].fresh =>
    /\ extra[x].isDisbursed
    /\ x \notin edited => extra[x].month = payroll[p].month

(* What was paid directly was approved and stays so, unless it is edited *)
PaidIsApproved(x) ==
  extra[x].isDisbursed => extra[x].status # "none" /\ (x \notin edited => extra[x].status = "approved")

(* A direct payment at work has not been made, and no payroll of its month is  *)
(* paid meanwhile unless the row is contested                                   *)
DirectHeld(x) ==
  direct[x] # NoExtra =>
    /\ direct[x].status = "approved" /\ ~direct[x].isDisbursed
    /\ extra[x].status # "none" /\ ~extra[x].isDisbursed
    /\ x \notin edited => extra[x].month = direct[x].month
    /\ x \notin contested =>
         \A p \in Payrolls : payroll[p].month = direct[x].month => payroll[p].state \notin {"paying", "paid"}

(* What was paid directly is taken off by the payrolls that hold it *)
PaidAhead(x) ==
  x \notin edited \cup contested /\ extra[x].isDisbursed =>
    \A p \in Payrolls : x \in payroll[p].item.extras =>
      /\ payroll[p].state = "paid" => x \in payroll[p].item.prepaid
      /\ payroll[p].state = "paying" => x \in payroll[p].fresh

ExtraSound(x) ==
  DuesOfMonth(x) /\ PrepaidWasPaid(x) /\ PaidIsApproved(x) /\ DirectHeld(x) /\ PaidAhead(x)

(* A month has one payroll, unless two were generated at the same time *)
OnePerMonth ==
  \A p, q \in Payrolls :
    payroll[p].state # "none" /\ payroll[q].state # "none" /\ payroll[p].month = payroll[q].month =>
      p = q \/ payroll[p].month \in overlapped

(* The net of a payroll is what its lines make, and a payment takes off what   *)
(* the draft took off at least                                                  *)
NetHeld ==
  edited = {} =>
    \A p \in Payrolls :
      /\ payroll[p].state # "none" => payroll[p].item.net = Net(payroll[p].item)
      /\ payroll[p].state = "paying" => payroll[p].item.prepaid \subseteq payroll[p].fresh

ExtrasSound == (\A x \in Extras : ExtraSound(x)) /\ OnePerMonth /\ NetHeld

(* The installments of a loan follow its status *)
LoansFollow ==
  \A d \in Loans \ contested :
    /\ debt[d].status = "none" => debt[d].paid = 0
    /\ debt[d].status \in {"pending", "rejected", "approved"} => debt[d].paid < debt[d].count
    /\ debt[d].status \in {"pending", "rejected"} => debt[d].paid = 0
    /\ debt[d].status = "completed" => debt[d].paid = debt[d].count

(* An installment that a payment counts is due, is its last one if it was read *)
(* as such, and is counted by no other payment                                  *)
CountedIsDue ==
  \A p \in Payrolls : payroll[p].state = "paying" =>
    \A d \in (payroll[p].counted \cap Loans) \ contested :
      /\ debt[d].status = "approved" /\ debt[d].paid < debt[d].count
      /\ d \in payroll[p].completes <=> debt[d].paid + 1 >= debt[d].count
      /\ \A q \in Payrolls \ {p} : payroll[q].state = "paying" => d \notin payroll[q].counted

LoansSound == LoansFollow /\ CountedIsDue

PayrollInv == SalariesTyped /\ ExtrasSound /\ LoansSound

-----------------------------------------------------------------------------
LEMMA PayrollInitially ==
  ASSUME PayrollInit PROVE PayrollInv
<1> USE PayrollConstants DEF PayrollInit
<1>1. NoPayroll \in PayrollRow /\ NoExtra \in ExtraRow
  BY DEF NoPayroll, NoItem, PayrollRow, Item, NoExtra, ExtraRow
<1>2. SalariesTyped
  BY <1>1 DEF SalariesTyped, DebtsTyped, ExtrasTyped, PayrollsTyped, DebtRow, LoanRow, DeductionRow, NoExtra, NoPayroll, Debts, Extras
<1>3. ExtrasSound
  BY DEF ExtrasSound, ExtraSound, DuesOfMonth, PrepaidWasPaid, PaidIsApproved, DirectHeld, PaidAhead,
    OnePerMonth, NetHeld, NoPayroll, NoItem, NoExtra
<1>4. LoansSound
  BY DEF LoansSound, LoansFollow, CountedIsDue, NoPayroll, Debts
<1> QED
  BY <1>2, <1>3, <1>4 DEF PayrollInv

(* A step that touches neither payrolls nor extras, and one that touches neither *)
(* payrolls nor debts                                                            *)
LEMMA ExtrasApart ==
  ASSUME ExtrasSound, UNCHANGED <<payroll, extra, direct, overlapped, contested, edited>>
  PROVE  ExtrasSound'
BY DEF ExtrasSound, ExtraSound, DuesOfMonth, PrepaidWasPaid, PaidIsApproved, DirectHeld, PaidAhead,
  OnePerMonth, NetHeld, Net, AtLeastZero

LEMMA LoansApart ==
  ASSUME LoansSound, UNCHANGED <<payroll, debt>>, contested \subseteq contested'
  PROVE  LoansSound'
BY DEF LoansSound, LoansFollow, CountedIsDue

-----------------------------------------------------------------------------
(* A row, field by field, and a row of which fields are replaced *)
LEMMA DebtRowFields ==
  ASSUME NEW r \in DebtRow
  PROVE  /\ r = [status |-> r.status, count |-> r.count, paid |-> r.paid, start |-> r.start]
         /\ r.paid \in Nat /\ r.count \in Nat
         /\ r.count \in Counts \cup {0} /\ r.start \in Months
         /\ r.status \in LoanStatus \cup DeductionStatus \cup {"none", "removed"}
<1>1. /\ r = [status |-> r.status, count |-> r.count, paid |-> r.paid, start |-> r.start]
      /\ r.paid \in Nat /\ r.count \in Counts \cup {0} /\ r.start \in Months
      /\ r.status \in LoanStatus \cup DeductionStatus \cup {"none", "removed"}
  BY DEF DebtRow
<1> QED
  BY <1>1, PayrollConstants

LEMMA DebtRowChanged ==
  ASSUME NEW r \in DebtRow, NEW status, NEW count \in Counts, NEW start \in Months
  PROVE  LET changed == [r EXCEPT !.status = status, !.start = start, !.count = count]
             corrected == [r EXCEPT !.status = status, !.count = count]
             decided == [r EXCEPT !.status = status]
         IN /\ status \in DeductionStatus \cup LoanStatus => changed \in DebtRow /\ corrected \in DebtRow
            /\ status \in DeductionStatus \cup LoanStatus \cup {"removed"} => decided \in DebtRow
            /\ status \in LoanStatus => changed \in LoanRow
            /\ status \in DeductionStatus => changed \in DeductionRow
            /\ changed.status = status /\ changed.count = count /\ changed.paid = r.paid
            /\ decided.status = status /\ decided.count = r.count /\ decided.paid = r.paid
BY DEF DebtRow, LoanRow, DeductionRow

LEMMA LoanRowDecided ==
  ASSUME NEW r \in LoanRow, NEW status \in LoanStatus
  PROVE  [r EXCEPT !.status = status] \in LoanRow
BY DEF LoanRow

LEMMA DeductionRowChanged ==
  ASSUME NEW r \in DeductionRow, NEW status \in DeductionStatus \cup {"removed"}
  PROVE  /\ [r EXCEPT !.status = status] \in DeductionRow
         /\ \A count \in Counts : [r EXCEPT !.status = status, !.count = count] \in DeductionRow
BY DEF DeductionRow

LEMMA DebtStepInv ==
  ASSUME PayrollInv, NEW d \in Debts, DebtStep(d) PROVE PayrollInv'
<1> USE DEF PayrollInv
<1>0. UNCHANGED <<payroll, extra, direct, thisMonth, overlapped, contested, edited>>
  BY DEF DebtStep, RequestLoan, DecideLoan, CreateDeduction, DecideDeduction, EditDeduction,
    RemoveDeduction, DebtsUnchanged
<1>1. ExtrasSound'
  BY <1>0, ExtrasApart
<1>2. /\ debt[d] \in DebtRow /\ debt \in [Debts -> DebtRow]
      /\ d \in Loans => debt[d] \in LoanRow
      /\ d \in Deductions => debt[d] \in DeductionRow
  BY DEF SalariesTyped, DebtsTyped
<1> DEFINE Changed == /\ debt' = [debt EXCEPT ![d] = debt'[d]]
                      /\ debt'[d] \in DebtRow
                      /\ d \in Loans => debt'[d] \in LoanRow
                      /\ d \in Deductions => debt'[d] \in DeductionRow
<1>3. Changed
  <2>1. ASSUME NEW row \in DebtRow, debt' = [debt EXCEPT ![d] = row],
               d \in Loans => row \in LoanRow, d \in Deductions => row \in DeductionRow
        PROVE  Changed
    <3>1. debt'[d] = row
      BY <1>2, <2>1
    <3> QED
      BY <2>1, <3>1
  <2>2. d \in Loans => d \notin Deductions
    BY PayrollConstants
  <2>3. ASSUME NEW start \in Months, NEW count \in Counts, RequestLoan(d, start, count) PROVE Changed
    BY <1>2, <2>1, <2>2, <2>3, DebtRowChanged DEF RequestLoan, LoanStatus
  <2>4. ASSUME NEW status \in LoanStatus, DecideLoan(d, status) PROVE Changed
    <3>1. [debt[d] EXCEPT !.status = status] \in LoanRow /\ [debt[d] EXCEPT !.status = status] \in DebtRow
      BY <1>2, <2>4, LoanRowDecided DEF DecideLoan, DebtRow
    <3> QED
      BY <2>1, <2>2, <2>4, <3>1 DEF DecideLoan
  <2>5. ASSUME NEW status \in DeductionStatus, NEW start \in Months, NEW count \in Counts,
               CreateDeduction(d, status, start, count) PROVE Changed
    BY <1>2, <2>1, <2>2, <2>5, DebtRowChanged DEF CreateDeduction
  <2>6. ASSUME NEW status \in DeductionStatus, DecideDeduction(d, status) PROVE Changed
    <3>1. [debt[d] EXCEPT !.status = status] \in DebtRow
      BY <1>2 DEF DebtRow
    <3> QED
      BY <1>2, <2>1, <2>2, <2>6, <3>1, DeductionRowChanged DEF DecideDeduction
  <2>7. ASSUME NEW status \in DeductionStatus, NEW count \in Counts, EditDeduction(d, status, count) PROVE Changed
    <3>1. [debt[d] EXCEPT !.status = status, !.count = count] \in DebtRow
      BY <1>2, <2>7 DEF DebtRow
    <3> QED
      BY <1>2, <2>1, <2>2, <2>7, <3>1, DeductionRowChanged DEF EditDeduction
  <2>8. ASSUME RemoveDeduction(d) PROVE Changed
    <3>1. [debt[d] EXCEPT !.status = "removed"] \in DebtRow
      BY <1>2 DEF DebtRow
    <3> QED
      BY <1>2, <2>1, <2>2, <2>8, <3>1, DeductionRowChanged DEF RemoveDeduction
  <2> QED
    BY <2>3, <2>4, <2>5, <2>6, <2>7, <2>8 DEF DebtStep
<1>4. SalariesTyped'
  <2>1. debt' \in [Debts -> DebtRow]
    BY <1>2, <1>3
  <2>2. /\ \A e \in Loans : debt'[e] \in LoanRow
        /\ \A e \in Deductions : debt'[e] \in DeductionRow
    BY <1>2, <1>3 DEF SalariesTyped, DebtsTyped, Debts
  <2> QED
    BY <1>0, <2>1, <2>2 DEF SalariesTyped, DebtsTyped, ExtrasTyped, PayrollsTyped
<1>5. ASSUME d \in Loans
      PROVE  \/ /\ debt[d].status = "none" /\ debt'[d].status = "pending"
                /\ debt'[d].count >= 2 /\ debt'[d].paid = debt[d].paid
             \/ /\ debt[d].status = "pending" /\ debt'[d].status \in {"approved", "rejected"}
                /\ debt'[d].count = debt[d].count /\ debt'[d].paid = debt[d].paid
  <2>1. d \notin Deductions
    BY <1>5, PayrollConstants
  <2>2. CASE \E start \in Months, count \in Counts : RequestLoan(d, start, count)
    BY <1>2, <2>2 DEF RequestLoan, DebtRow
  <2>3. CASE \E status \in LoanStatus : DecideLoan(d, status)
    BY <1>2, <2>3 DEF DecideLoan, DebtRow, Transition, LoanDecisions
  <2> QED
    BY <2>1, <2>2, <2>3 DEF DebtStep, CreateDeduction, DecideDeduction, EditDeduction, RemoveDeduction
<1>6. LoansSound'
  <2>1. \A e \in Loans \ {d} : debt'[e] = debt[e]
    BY <1>2, <1>3 DEF Debts
  <2>2. \A e \in Loans : debt[e].paid \in Nat /\ debt[e].count \in Nat
    BY DebtRowFields DEF SalariesTyped, DebtsTyped, Debts
  <2>3. LoansFollow'
    <3>1. SUFFICES ASSUME NEW e \in Loans, e \notin contested
                   PROVE  /\ debt'[e].status = "none" => debt'[e].paid = 0
                          /\ debt'[e].status \in {"pending", "rejected", "approved"} => debt'[e].paid < debt'[e].count
                          /\ debt'[e].status \in {"pending", "rejected"} => debt'[e].paid = 0
                          /\ debt'[e].status = "completed" => debt'[e].paid = debt'[e].count
      BY <1>0 DEF LoansFollow
    <3>2. CASE e = d
      <4>1. debt'[d].count \in Nat
        BY <1>3, DebtRowFields
      <4> QED
        BY <1>5, <2>2, <3>1, <3>2, <4>1 DEF LoansSound, LoansFollow
    <3>3. CASE e # d
      BY <2>1, <3>1, <3>3 DEF LoansSound, LoansFollow
    <3> QED
      BY <3>2, <3>3
  <2>4. CountedIsDue'
    BY <1>0, <1>5, <2>1, <2>2 DEF LoansSound, CountedIsDue
  <2> QED
    BY <2>3, <2>4 DEF LoansSound
<1> QED
  BY <1>1, <1>4, <1>6

-----------------------------------------------------------------------------
LEMMA ExtraRowChanged ==
  ASSUME NEW r \in ExtraRow, NEW status \in BonusStatus, NEW month \in Months
  PROVE  LET changed == [r EXCEPT !.status = status, !.month = month]
         IN changed \in ExtraRow /\ changed.status = status /\ changed.month = month
              /\ changed.isDisbursed = r.isDisbursed
BY DEF ExtraRow

(* A step on one extra: what it leaves alone *)
LEMMA ExtraStepFrame ==
  ASSUME PayrollInv, NEW x \in Extras, ExtraStep(x)
  PROVE  /\ UNCHANGED <<payroll, debt, thisMonth, overlapped>>
         /\ extra' \in [Extras -> ExtraRow] /\ direct' \in [Extras -> ExtraRow]
         /\ extra'[x] \in ExtraRow /\ direct'[x] \in ExtraRow
         /\ x \in Payouts => /\ extra'[x].status \in {"none", "approved"}
                             /\ direct'[x].status \in {"none", "approved"}
         /\ \A y \in Extras \ {x} :
              /\ extra'[y] = extra[y] /\ direct'[y] = direct[y]
              /\ y \in edited' <=> y \in edited
              /\ y \in contested' <=> y \in contested
         /\ edited \subseteq edited' /\ contested \subseteq contested'
<1> USE PayrollConstants DEF PayrollInv, SalariesTyped, ExtrasTyped
<1>1. /\ extra \in [Extras -> ExtraRow] /\ direct \in [Extras -> ExtraRow]
      /\ extra[x] \in ExtraRow /\ direct[x] \in ExtraRow
      /\ NoExtra \in ExtraRow /\ NoExtra.status = "none"
      /\ x \in Payouts => /\ extra[x].status \in {"none", "approved"} /\ direct[x].status \in {"none", "approved"}
                          /\ x \notin Bonuses
  BY DEF NoExtra, ExtraRow
<1> DEFINE Framed == /\ extra' = [extra EXCEPT ![x] = extra'[x]] /\ extra'[x] \in ExtraRow
                     /\ direct' = [direct EXCEPT ![x] = direct'[x]] /\ direct'[x] \in ExtraRow
                     /\ x \in Payouts => /\ extra'[x].status \in {"none", "approved"}
                                         /\ direct'[x].status \in {"none", "approved"}
                     /\ edited' \in {edited, edited \cup {x}}
                     /\ contested' \in {contested, contested \cup {x}}
                     /\ UNCHANGED <<payroll, debt, thisMonth, overlapped>>
<1>2. ASSUME NEW row \in ExtraRow, extra' = [extra EXCEPT ![x] = row], x \in Payouts => row.status = "approved",
             direct' = direct, edited' \in {edited, edited \cup {x}}, contested' = contested, ExtrasUnchanged
      PROVE  Framed
  BY <1>1, <1>2 DEF ExtrasUnchanged
<1>3. ASSUME NEW status \in BonusStatus, NEW month \in Months, CreateBonus(x, status, month) PROVE Framed
  BY <1>1, <1>2, <1>3, ExtraRowChanged DEF CreateBonus
<1>4. ASSUME NEW status \in BonusStatus, DecideBonus(x, status) PROVE Framed
  <2>1. [extra[x] EXCEPT !.status = status] \in ExtraRow
    BY <1>1 DEF ExtraRow
  <2> QED
    BY <1>1, <1>2, <1>4, <2>1 DEF DecideBonus
<1>5. ASSUME NEW status \in BonusStatus, NEW month \in Months, EditBonus(x, status, month) PROVE Framed
  BY <1>1, <1>2, <1>5, ExtraRowChanged DEF EditBonus
<1>6. ASSUME RemoveBonus(x) PROVE Framed
  <2>1. [extra[x] EXCEPT !.status = "removed"] \in ExtraRow
    BY <1>1 DEF ExtraRow
  <2> QED
    BY <1>1, <1>2, <1>6, <2>1 DEF RemoveBonus
<1>7. ASSUME NEW month \in Months, ConfirmSettlement(x, month) PROVE Framed
  <2>1. PICK confirmed : confirmed = [extra[x] EXCEPT !.status = "approved", !.month = month]
    OBVIOUS
  <2>2. confirmed \in ExtraRow /\ confirmed.status = "approved"
    BY <1>1, <2>1 DEF ExtraRow, BonusStatus
  <2> QED
    BY <1>1, <1>2, <1>7, <2>1, <2>2 DEF ConfirmSettlement
<1>8. ASSUME CheckDirect(x) PROVE Framed
  BY <1>1, <1>8 DEF CheckDirect, ExtrasUnchanged
<1>9. ASSUME SaveDirect(x) PROVE Framed
  <2>1. [direct[x] EXCEPT !.isDisbursed = TRUE] \in ExtraRow
        /\ [direct[x] EXCEPT !.isDisbursed = TRUE].status = direct[x].status
    BY <1>1 DEF ExtraRow
  <2>2. direct[x].status # "none" \/ x \notin Payouts
    BY <1>9 DEF SaveDirect, ExtrasSound, ExtraSound, DirectHeld
  <2> QED
    BY <1>1, <1>9, <2>1, <2>2 DEF SaveDirect, ExtrasUnchanged
<1>10. Framed
  BY <1>3, <1>4, <1>5, <1>6, <1>7, <1>8, <1>9 DEF ExtraStep
<1> QED
  BY <1>1, <1>10

(* .. and how it leaves the extra itself *)
LEMMA ExtraStepSound ==
  ASSUME PayrollInv, NEW x \in Extras, ExtraStep(x)
  PROVE  ExtraSound(x)'
<1> USE DEF ExtraSound, DuesOfMonth, PrepaidWasPaid, PaidIsApproved, DirectHeld, PaidAhead
<1>1. /\ extra \in [Extras -> ExtraRow] /\ direct \in [Extras -> ExtraRow]
      /\ extra[x] \in ExtraRow /\ direct[x] \in ExtraRow
      /\ ExtraSound(x)
  BY DEF PayrollInv, SalariesTyped, ExtrasTyped, ExtrasSound
<1>2. CASE \E status \in BonusStatus, month \in Months : CreateBonus(x, status, month)
  BY <1>1, <1>2 DEF CreateBonus, ExtraRow, ExtrasUnchanged
<1>3. CASE \E status \in BonusStatus : DecideBonus(x, status)
  BY <1>1, <1>3 DEF DecideBonus, ExtraRow, ExtrasUnchanged, Transition
<1>4. CASE \E status \in BonusStatus, month \in Months : EditBonus(x, status, month)
  BY <1>1, <1>4 DEF EditBonus, ExtraRow, ExtrasUnchanged, BonusStatus
<1>5. CASE RemoveBonus(x)
  BY <1>1, <1>5 DEF RemoveBonus, ExtraRow, ExtrasUnchanged
<1>6. CASE \E month \in Months : ConfirmSettlement(x, month)
  BY <1>1, <1>6 DEF ConfirmSettlement, ExtraRow, ExtrasUnchanged
<1>7. CASE CheckDirect(x)
  BY <1>1, <1>7 DEF CheckDirect, ExtraRow, ExtrasUnchanged, BeingPaid, PaidByPayroll
<1>8. CASE SaveDirect(x)
  BY <1>1, <1>8 DEF SaveDirect, ExtraRow, ExtrasUnchanged
<1> QED
  BY <1>2, <1>3, <1>4, <1>5, <1>6, <1>7, <1>8 DEF ExtraStep

LEMMA ExtraStepInv ==
  ASSUME PayrollInv, NEW x \in Extras, ExtraStep(x) PROVE PayrollInv'
<1>1. LoansSound'
  BY ExtraStepFrame, LoansApart DEF PayrollInv
<1>2. SalariesTyped'
  <2>1. /\ UNCHANGED <<payroll, debt, thisMonth>>
        /\ extra' \in [Extras -> ExtraRow] /\ direct' \in [Extras -> ExtraRow]
    BY ExtraStepFrame
  <2>2. \A y \in Payouts : extra'[y].status \in {"none", "approved"} /\ direct'[y].status \in {"none", "approved"}
    BY ExtraStepFrame DEF PayrollInv, SalariesTyped, ExtrasTyped, Extras
  <2> QED
    BY <2>1, <2>2 DEF PayrollInv, SalariesTyped, DebtsTyped, ExtrasTyped, PayrollsTyped
<1>3. \A y \in Extras \ {x} : ExtraSound(y)'
  BY ExtraStepFrame DEF PayrollInv, ExtrasSound, ExtraSound, DuesOfMonth, PrepaidWasPaid, PaidIsApproved,
    DirectHeld, PaidAhead
<1>4. OnePerMonth' /\ NetHeld'
  BY ExtraStepFrame DEF PayrollInv, ExtrasSound, OnePerMonth, NetHeld, Net, AtLeastZero
<1> QED
  BY <1>1, <1>2, <1>3, <1>4, ExtraStepSound DEF PayrollInv, ExtrasSound

-----------------------------------------------------------------------------
(* What a step on a payroll leaves behind: its row, the rows that are contested *)
(* then and the months that have two payrolls                                    *)
RowSound(p, row, held, doubled) ==
  /\ row \in PayrollRow
  /\ row.state \notin {"paying", "paid"} => row.fresh = {}
  /\ \A x \in row.item.extras :
       extra[x].status # "none" /\ (x \notin edited => extra[x].month = row.month)
  /\ \A x \in row.item.prepaid \cup row.fresh :
       extra[x].isDisbursed /\ (x \notin edited => extra[x].month = row.month)
  /\ \A x \in Extras : direct[x] # NoExtra /\ x \notin held /\ row.month = direct[x].month =>
       row.state \notin {"paying", "paid"}
  /\ \A x \in row.item.extras : x \notin edited \cup held /\ extra[x].isDisbursed =>
       /\ row.state = "paid" => x \in row.item.prepaid
       /\ row.state = "paying" => x \in row.fresh
  /\ row.state # "none" =>
       \A q \in Payrolls \ {p} : payroll[q].state # "none" /\ payroll[q].month = row.month =>
         row.month \in doubled
  /\ edited = {} =>
       /\ row.state # "none" => row.item.net = Net(row.item)
       /\ row.state = "paying" => row.item.prepaid \subseteq row.fresh

LEMMA PayrollStepFrame ==
  ASSUME PayrollInv, NEW p \in Payrolls, NEW row, RowSound(p, row, contested', overlapped'),
         payroll' = [payroll EXCEPT ![p] = row], UNCHANGED <<extra, direct, thisMonth, edited>>,
         contested \subseteq contested', overlapped \subseteq overlapped'
  PROVE  ExtrasSound' /\ ExtrasTyped' /\ PayrollsTyped' /\ thisMonth' \in Months
<1>1. /\ payroll \in [Payrolls -> PayrollRow] /\ payroll'[p] = row
      /\ \A q \in Payrolls \ {p} : payroll'[q] = payroll[q]
      /\ row \in PayrollRow
  BY DEF PayrollInv, SalariesTyped, PayrollsTyped, RowSound
<1>2. PayrollsTyped' /\ ExtrasTyped' /\ thisMonth' \in Months
  BY <1>1 DEF PayrollInv, SalariesTyped, PayrollsTyped, ExtrasTyped, RowSound
<1>3. ASSUME NEW x \in Extras PROVE ExtraSound(x)'
  <2>1. ExtraSound(x)
    BY DEF PayrollInv, ExtrasSound
  <2>2. DuesOfMonth(x)'
    BY <1>1, <2>1 DEF ExtraSound, DuesOfMonth, RowSound
  <2>3. PrepaidWasPaid(x)'
    BY <1>1, <2>1 DEF ExtraSound, PrepaidWasPaid, RowSound
  <2>4. PaidIsApproved(x)'
    BY <2>1 DEF ExtraSound, PaidIsApproved
  <2>5. DirectHeld(x)'
    BY <1>1, <2>1 DEF ExtraSound, DirectHeld, RowSound
  <2>6. PaidAhead(x)'
    BY <1>1, <2>1 DEF ExtraSound, PaidAhead, RowSound
  <2> QED
    BY <2>2, <2>3, <2>4, <2>5, <2>6 DEF ExtraSound
<1>4. OnePerMonth'
  BY <1>1 DEF PayrollInv, ExtrasSound, OnePerMonth, RowSound
<1>5. NetHeld'
  <2>1. SUFFICES ASSUME edited = {}, NEW q \in Payrolls
                 PROVE  /\ payroll'[q].state # "none" => payroll'[q].item.net = Net(payroll'[q].item)
                        /\ payroll'[q].state = "paying" => payroll'[q].item.prepaid \subseteq payroll'[q].fresh
    BY DEF NetHeld, Net, AtLeastZero
  <2> QED
    BY <1>1, <2>1 DEF PayrollInv, ExtrasSound, NetHeld, RowSound
<1> QED
  BY <1>2, <1>3, <1>4, <1>5 DEF ExtrasSound

(* A payment that is not at work, or counts nothing more than it did *)
LEMMA PayrollStepCounts ==
  ASSUME PayrollInv, NEW p \in Payrolls, NEW row, payroll' = [payroll EXCEPT ![p] = row],
         row.state # "paying", debt' = debt, contested' = contested
  PROVE  LoansSound'
BY DEF PayrollInv, SalariesTyped, PayrollsTyped, LoansSound, LoansFollow, CountedIsDue

(* The lines of a draft *)
LEMMA DraftLines ==
  ASSUME PayrollInv, NEW month \in Months, NEW withheld \in Withholdings
  PROVE  LET item == Draft(month, withheld)
         IN /\ item \in Item
            /\ item.extras = OfMonth(month) /\ item.prepaid = Prepaid(month)
            /\ item.net = Net(item)
<1> DEFINE bare == [extras |-> OfMonth(month), prepaid |-> Prepaid(month),
                    debts |-> DebtsOfDraft(month), withheld |-> withheld, net |-> 0]
           item == [extras |-> OfMonth(month), prepaid |-> Prepaid(month),
                    debts |-> DebtsOfDraft(month), withheld |-> withheld, net |-> Net(bare)]
<1>1. Draft(month, withheld) = item
  BY DEF Draft
<1>2. /\ OfMonth(month) \subseteq Extras /\ Prepaid(month) \subseteq Extras
      /\ DebtsOfDraft(month) \subseteq Debts
  BY DEF OfMonth, Prepaid, DebtsOfDraft
<1>3. /\ Cardinality(OfMonth(month)) \in Nat /\ Cardinality(Prepaid(month)) \in Nat
      /\ Cardinality(DebtsOfDraft(month)) \in Nat
  BY <1>2, FS_Subset, FS_CardinalityType, PayrollConstants DEF Extras, Debts
<1>4. Net(bare) \in Nat
  BY <1>3, PayrollConstants DEF Net, AtLeastZero
<1>5. Net(item) = Net(bare)
  BY DEF Net
<1>6. item \in Item
  BY <1>2, <1>4 DEF Item
<1> QED
  BY <1>1, <1>5, <1>6

LEMMA GenerateInv ==
  ASSUME PayrollInv, NEW p \in Payrolls, NEW month \in Months, NEW withheld \in Withholdings,
         Generate(p, month, withheld)
  PROVE  PayrollInv'
<1>1. payroll[p] \in PayrollRow /\ payroll[p].fresh = {}
  BY DEF PayrollInv, SalariesTyped, PayrollsTyped, Generate
<1>2. PICK row : row = [payroll[p] EXCEPT !.state = "computing", !.month = month, !.item = Draft(month, withheld)]
  OBVIOUS
<1>3. PICK item : item = Draft(month, withheld)
  OBVIOUS
<1>4. /\ row \in PayrollRow /\ row.state = "computing" /\ row.month = month /\ row.item = item
      /\ row.fresh = {}
  BY <1>1, <1>2, <1>3, DraftLines DEF PayrollRow
<1>5. /\ payroll' = [payroll EXCEPT ![p] = row]
      /\ debt' = debt /\ contested' = contested /\ UNCHANGED <<extra, direct, thisMonth, edited>>
      /\ overlapped \subseteq overlapped'
      /\ (\E q \in Payrolls : payroll[q].state = "computing" /\ payroll[q].month = month) => month \in overlapped'
      /\ \A q \in Payrolls : payroll[q].month = month => payroll[q].state \in {"none", "computing"}
  BY <1>2 DEF Generate, PayrollsUnchanged, OfTheMonth
<1>6. RowSound(p, row, contested', overlapped')
  <2>1. \A x \in item.extras : x \in Extras /\ extra[x].status = "approved" /\ extra[x].month = month
    BY <1>3, DraftLines DEF OfMonth
  <2>2. \A x \in item.prepaid : extra[x].isDisbursed /\ extra[x].month = month
    BY <1>3, DraftLines DEF OfMonth, Prepaid
  <2>3. item.net = Net(item)
    BY <1>3, DraftLines
  <2> QED
    BY <1>4, <1>5, <2>1, <2>2, <2>3 DEF RowSound
<1>7. ExtrasSound' /\ ExtrasTyped' /\ PayrollsTyped' /\ thisMonth' \in Months
  BY <1>5, <1>6, PayrollStepFrame
<1>8. LoansSound'
  BY <1>4, <1>5, PayrollStepCounts
<1> QED
  BY <1>5, <1>7, <1>8 DEF PayrollInv, SalariesTyped, DebtsTyped

LEMMA SaveDraftInv ==
  ASSUME PayrollInv, NEW p \in Payrolls, SaveDraft(p) PROVE PayrollInv'
<1>1. payroll[p] \in PayrollRow /\ payroll[p].state = "computing" /\ payroll[p].fresh = {}
  BY DEF PayrollInv, SalariesTyped, PayrollsTyped, SaveDraft
<1>2. PICK row : row = [payroll[p] EXCEPT !.state = "draft"]
  OBVIOUS
<1>3. /\ row \in PayrollRow /\ row.state = "draft" /\ row.month = payroll[p].month
      /\ row.item = payroll[p].item /\ row.fresh = {}
  BY <1>1, <1>2 DEF PayrollRow
<1>4. /\ payroll' = [payroll EXCEPT ![p] = row]
      /\ UNCHANGED <<debt, overlapped, contested, extra, direct, thisMonth, edited>>
  BY <1>1, <1>2 DEF SaveDraft, PayrollsUnchanged, PayrollInv, SalariesTyped, PayrollsTyped
<1>5. RowSound(p, row, contested', overlapped')
  BY <1>1, <1>3, <1>4 DEF RowSound, PayrollInv, ExtrasSound, ExtraSound, DuesOfMonth, PrepaidWasPaid,
    OnePerMonth, NetHeld, PayrollRow, Item
<1>6. ExtrasSound' /\ ExtrasTyped' /\ PayrollsTyped' /\ thisMonth' \in Months
  BY <1>4, <1>5, PayrollStepFrame
<1>7. LoansSound'
  BY <1>3, <1>4, PayrollStepCounts
<1> QED
  BY <1>4, <1>6, <1>7 DEF PayrollInv, SalariesTyped, DebtsTyped

LEMMA DeleteDraftInv ==
  ASSUME PayrollInv, NEW p \in Payrolls, DeleteDraft(p) PROVE PayrollInv'
<1>1. /\ NoPayroll \in PayrollRow /\ NoPayroll.state = "none" /\ NoPayroll.fresh = {}
      /\ NoPayroll.item.extras = {} /\ NoPayroll.item.prepaid = {}
  BY PayrollConstants DEF NoPayroll, NoItem, PayrollRow, Item
<1>2. RowSound(p, NoPayroll, contested', overlapped')
  BY <1>1 DEF RowSound
<1>3. /\ payroll' = [payroll EXCEPT ![p] = NoPayroll]
      /\ UNCHANGED <<debt, overlapped, contested, extra, direct, thisMonth, edited>>
  BY DEF DeleteDraft, PayrollsUnchanged
<1>4. ExtrasSound' /\ ExtrasTyped' /\ PayrollsTyped' /\ thisMonth' \in Months
  BY <1>2, <1>3, PayrollStepFrame
<1>5. LoansSound'
  BY <1>1, <1>3, PayrollStepCounts
<1> QED
  BY <1>3, <1>4, <1>5 DEF PayrollInv, SalariesTyped, DebtsTyped

LEMMA RollbackInv ==
  ASSUME PayrollInv, NEW p \in Payrolls, RollbackDisburse(p) PROVE PayrollInv'
<1>1. payroll[p] \in PayrollRow /\ payroll[p].state = "paying"
  BY DEF PayrollInv, SalariesTyped, PayrollsTyped, RollbackDisburse
<1>2. PICK row : row = [payroll[p] EXCEPT !.state = "draft", !.fresh = {}, !.counted = {}, !.completes = {}]
  OBVIOUS
<1>3. /\ row \in PayrollRow /\ row.state = "draft" /\ row.month = payroll[p].month
      /\ row.item = payroll[p].item /\ row.fresh = {}
  BY <1>1, <1>2 DEF PayrollRow
<1>4. /\ payroll' = [payroll EXCEPT ![p] = row]
      /\ UNCHANGED <<debt, overlapped, contested, extra, direct, thisMonth, edited>>
  BY <1>1, <1>2 DEF RollbackDisburse, PayrollsUnchanged, PayrollInv, SalariesTyped, PayrollsTyped
<1>5. RowSound(p, row, contested', overlapped')
  BY <1>1, <1>3, <1>4 DEF RowSound, PayrollInv, ExtrasSound, ExtraSound, DuesOfMonth, PrepaidWasPaid,
    OnePerMonth, NetHeld, PayrollRow, Item
<1>6. ExtrasSound' /\ ExtrasTyped' /\ PayrollsTyped' /\ thisMonth' \in Months
  BY <1>4, <1>5, PayrollStepFrame
<1>7. LoansSound'
  BY <1>3, <1>4, PayrollStepCounts
<1> QED
  BY <1>4, <1>6, <1>7 DEF PayrollInv, SalariesTyped, DebtsTyped

-----------------------------------------------------------------------------
LEMMA BeginDisburseInv ==
  ASSUME PayrollInv, NEW p \in Payrolls, BeginDisburse(p) PROVE PayrollInv'
<1>1. PICK month : month = payroll[p].month
  OBVIOUS
<1>2. PICK due : due = DebtsToCount(month)
  OBVIOUS
<1>3. PICK last : last = {d \in due : debt[d].paid + 1 >= debt[d].count}
  OBVIOUS
<1>4. PICK ahead : ahead = Prepaid(month)
  OBVIOUS
<1>5. PICK row : row = [payroll[p] EXCEPT !.state = "paying", !.fresh = ahead, !.counted = due, !.completes = last]
  OBVIOUS
<1>6. payroll[p] \in PayrollRow /\ payroll[p].state = "draft" /\ payroll \in [Payrolls -> PayrollRow]
  BY DEF PayrollInv, SalariesTyped, PayrollsTyped, BeginDisburse
<1>7. /\ due \subseteq Debts /\ last \subseteq Debts
      /\ ahead \subseteq Extras
  BY <1>2, <1>3, <1>4 DEF DebtsToCount, Prepaid, OfMonth
<1>8. /\ row \in PayrollRow /\ row.state = "paying" /\ row.month = month /\ row.item = payroll[p].item
      /\ row.fresh = ahead /\ row.counted = due /\ row.completes = last
  BY <1>1, <1>5, <1>6, <1>7 DEF PayrollRow
<1>9. /\ payroll' = [payroll EXCEPT ![p] = row]
      /\ contested' = contested \cup PaidDirectly(month) \cup (due \cap BeingCounted)
      /\ UNCHANGED <<debt, overlapped, extra, direct, thisMonth, edited>>
  BY <1>1, <1>2, <1>3, <1>4, <1>5 DEF BeginDisburse, PayrollsUnchanged
<1>10. \A x \in Extras : x \in ahead <=> extra[x].status = "approved" /\ extra[x].month = month /\ extra[x].isDisbursed
  BY <1>4 DEF Prepaid, OfMonth
<1>11. RowSound(p, row, contested', overlapped')
  <2>1. \A x \in row.item.extras \cup row.item.prepaid : x \in Extras /\ ExtraSound(x)
    BY <1>6, <1>8 DEF PayrollInv, ExtrasSound, PayrollRow, Item
  <2>2. \A x \in row.item.extras : extra[x].status # "none" /\ (x \notin edited => extra[x].month = month)
    BY <1>1, <1>8, <2>1 DEF ExtraSound, DuesOfMonth
  <2>3. \A x \in row.item.prepaid : extra[x].isDisbursed /\ (x \notin edited => extra[x].month = month)
    BY <1>1, <1>8, <2>1 DEF ExtraSound, PrepaidWasPaid
  <2>4. \A x \in row.item.extras \cup row.item.prepaid :
          x \notin edited /\ extra[x].isDisbursed => x \in ahead
    BY <1>10, <2>1, <2>2, <2>3 DEF ExtraSound, PaidIsApproved
  <2>5. \A x \in Extras : direct[x] # NoExtra /\ x \notin contested' => direct[x].month # month
    BY <1>9 DEF PaidDirectly
  <2>6. \A q \in Payrolls \ {p} : payroll[q].state # "none" /\ payroll[q].month = month => month \in overlapped
    BY <1>1, <1>6 DEF PayrollInv, ExtrasSound, OnePerMonth
  <2>7. edited = {} => payroll[p].item.net = Net(payroll[p].item)
    BY <1>6 DEF PayrollInv, ExtrasSound, NetHeld
  <2> QED
    BY <1>7, <1>8, <1>9, <1>10, <2>2, <2>3, <2>4, <2>5, <2>6, <2>7 DEF RowSound
<1>12. ExtrasSound' /\ ExtrasTyped' /\ PayrollsTyped' /\ thisMonth' \in Months
  BY <1>9, <1>11, PayrollStepFrame
<1>13. LoansFollow'
  BY <1>9 DEF PayrollInv, LoansSound, LoansFollow
<1>14. \A d \in due \cap Loans : debt[d].status = "approved" /\ debt[d].paid < debt[d].count
  BY <1>2 DEF DebtsToCount, Unpaid
<1>15. CountedIsDue'
  <2>1. ASSUME NEW q \in Payrolls, q # p, payroll[q].state = "paying",
               NEW d \in due \cap payroll[q].counted
        PROVE  d \in contested'
    BY <1>9, <2>1 DEF BeingCounted
  <2>2. payroll'[p] = row /\ \A q \in Payrolls \ {p} : payroll'[q] = payroll[q]
    BY <1>6, <1>9
  <2>3. SUFFICES ASSUME NEW q \in Payrolls, payroll'[q].state = "paying",
                        NEW d \in (payroll'[q].counted \cap Loans) \ contested'
                 PROVE  /\ debt[d].status = "approved" /\ debt[d].paid < debt[d].count
                        /\ d \in payroll'[q].completes <=> debt[d].paid + 1 >= debt[d].count
                        /\ \A o \in Payrolls \ {q} : payroll'[o].state = "paying" => d \notin payroll'[o].counted
    BY <1>9 DEF CountedIsDue
  <2>4. CASE q = p
    BY <1>3, <1>8, <1>14, <2>1, <2>2, <2>3, <2>4
  <2>5. CASE q # p
    <3>1. /\ debt[d].status = "approved" /\ debt[d].paid < debt[d].count
          /\ d \in payroll[q].completes <=> debt[d].paid + 1 >= debt[d].count
          /\ \A o \in Payrolls \ {q} : payroll[o].state = "paying" => d \notin payroll[o].counted
      BY <1>9, <2>2, <2>3, <2>5 DEF PayrollInv, LoansSound, CountedIsDue
    <3> QED
      BY <1>8, <2>1, <2>2, <2>3, <2>5, <3>1
  <2> QED
    BY <2>4, <2>5
<1> QED
  BY <1>9, <1>12, <1>13, <1>15 DEF PayrollInv, SalariesTyped, DebtsTyped, LoansSound

(* Bringing up to date takes off what was paid since, and no more *)
LEMMA ResyncNets ==
  ASSUME NEW item \in Item, NEW ahead \in SUBSET Extras
  PROVE  LET new == Resync(item, ahead)
         IN /\ new \in Item
            /\ new.extras = item.extras /\ new.prepaid = ahead
            /\ item.prepaid \subseteq ahead /\ item.net = Net(item) => new.net = Net(new)
<1>1. /\ item.extras \subseteq Extras /\ item.prepaid \subseteq Extras /\ item.debts \subseteq Debts
      /\ item.net \in Nat /\ item.withheld \in Nat
  <2>1. /\ item.extras \subseteq Extras /\ item.prepaid \subseteq Extras /\ item.debts \subseteq Debts
        /\ item.net \in Nat /\ item.withheld \in Withholdings \cup {0}
    BY DEF Item
  <2>2. Withholdings \cup {0} \subseteq Nat
    BY PayrollConstants
  <2> QED
    BY <2>1, <2>2
<1>2. /\ IsFiniteSet(ahead)
      /\ Cardinality(item.extras) \in Nat /\ Cardinality(item.prepaid) \in Nat
      /\ Cardinality(item.debts) \in Nat /\ Cardinality(ahead) \in Nat
  BY <1>1, FS_Subset, FS_CardinalityType, PayrollConstants DEF Extras, Debts
<1>3. PICK net : net = AtLeastZero(item.net - (Cardinality(ahead) - Cardinality(item.prepaid)))
  OBVIOUS
<1>4. net \in Nat
  BY <1>1, <1>2, <1>3 DEF AtLeastZero
<1>5. PICK new : new = [item EXCEPT !.prepaid = ahead, !.net = net]
  OBVIOUS
<1>6. new = Resync(item, ahead)
  BY <1>3, <1>5 DEF Resync
<1>7. /\ new \in Item /\ new.extras = item.extras /\ new.prepaid = ahead /\ new.debts = item.debts
      /\ new.withheld = item.withheld /\ new.net = net
  BY <1>4, <1>5 DEF Item
<1>8. ASSUME item.prepaid \subseteq ahead, item.net = Net(item) PROVE net = Net(new)
  <2>1. Cardinality(item.prepaid) <= Cardinality(ahead)
    BY <1>2, <1>8, FS_Subset
  <2> QED
    BY <1>1, <1>2, <1>3, <1>7, <1>8, <2>1, PayrollConstants DEF Net, AtLeastZero
<1> QED
  BY <1>6, <1>7, <1>8

LEMMA CommitDisburseInv ==
  ASSUME PayrollInv, NEW p \in Payrolls, CommitDisburse(p) PROVE PayrollInv'
<1>1. payroll[p] \in PayrollRow /\ payroll[p].state = "paying" /\ payroll \in [Payrolls -> PayrollRow]
  BY DEF PayrollInv, SalariesTyped, PayrollsTyped, CommitDisburse
<1>2. PICK item : item = Resync(payroll[p].item, payroll[p].fresh)
  OBVIOUS
<1>3. PICK row : row = [payroll[p] EXCEPT !.state = "paid", !.item = Resync(@, payroll[p].fresh)]
  OBVIOUS
<1>4. payroll[p].item \in Item /\ payroll[p].fresh \in SUBSET Extras
  BY <1>1 DEF PayrollRow
<1>5. /\ item \in Item /\ item.extras = payroll[p].item.extras /\ item.prepaid = payroll[p].fresh
      /\ payroll[p].item.prepaid \subseteq payroll[p].fresh /\ payroll[p].item.net = Net(payroll[p].item)
           => item.net = Net(item)
  BY <1>2, <1>4, ResyncNets
<1>6. /\ row \in PayrollRow /\ row.state = "paid" /\ row.month = payroll[p].month /\ row.item = item
      /\ row.fresh = payroll[p].fresh
  BY <1>1, <1>2, <1>3, <1>5 DEF PayrollRow
<1>7. /\ payroll' = [payroll EXCEPT ![p] = row]
      /\ UNCHANGED <<overlapped, contested, extra, direct, thisMonth, edited>>
  BY <1>3 DEF CommitDisburse, PayrollsUnchanged
<1>8. RowSound(p, row, contested', overlapped')
  <2>1. \A x \in item.extras \cup item.prepaid : x \in Extras
    BY <1>5 DEF Item
  <2>2. \A x \in Extras : ExtraSound(x)
    BY DEF PayrollInv, ExtrasSound
  <2>3. \A x \in item.extras : extra[x].status # "none" /\ (x \notin edited => extra[x].month = row.month)
    BY <1>5, <1>6, <2>1, <2>2 DEF ExtraSound, DuesOfMonth
  <2>4. \A x \in item.prepaid \cup row.fresh : extra[x].isDisbursed /\ (x \notin edited => extra[x].month = row.month)
    BY <1>5, <1>6, <2>1, <2>2 DEF ExtraSound, PrepaidWasPaid
  <2>5. \A x \in Extras : direct[x] # NoExtra /\ x \notin contested => row.month # direct[x].month
    BY <1>1, <1>6, <2>2 DEF ExtraSound, DirectHeld
  <2>6. \A x \in item.extras : x \notin edited \cup contested /\ extra[x].isDisbursed => x \in item.prepaid
    BY <1>1, <1>5, <2>1, <2>2 DEF ExtraSound, PaidAhead
  <2>7. \A q \in Payrolls \ {p} : payroll[q].state # "none" /\ payroll[q].month = row.month => row.month \in overlapped
    BY <1>1, <1>6 DEF PayrollInv, ExtrasSound, OnePerMonth
  <2>8. edited = {} => item.net = Net(item)
    BY <1>1, <1>5 DEF PayrollInv, ExtrasSound, NetHeld
  <2> QED
    BY <1>6, <1>7, <2>3, <2>4, <2>5, <2>6, <2>7, <2>8 DEF RowSound
<1>9. ExtrasSound' /\ ExtrasTyped' /\ PayrollsTyped' /\ thisMonth' \in Months
  BY <1>7, <1>8, PayrollStepFrame
<1>10. /\ DOMAIN debt' = Debts
       /\ \A d \in Debts : debt'[d] =
            IF d \notin payroll[p].counted \/ debt[d].status = "removed" THEN debt[d]
            ELSE [debt[d] EXCEPT !.paid = @ + 1,
                    !.status = IF d \in payroll[p].completes THEN "completed" ELSE @]
       /\ debt' = [d \in Debts |-> debt'[d]]
  BY DEF CommitDisburse
<1>11. \A d \in Debts :
         /\ debt[d] \in DebtRow
         /\ d \in Loans => debt[d] \in LoanRow
         /\ d \in Deductions => debt[d] \in DeductionRow
         /\ debt[d].paid \in Nat /\ debt[d].count \in Nat
  BY DebtRowFields DEF PayrollInv, SalariesTyped, DebtsTyped, Debts
<1>12. ASSUME NEW d \in Debts, NEW status,
              status \in (IF d \in Loans THEN LoanStatus \cup {"none"} ELSE DeductionStatus \cup {"none", "removed"})
       PROVE  LET once == [debt[d] EXCEPT !.paid = @ + 1, !.status = status]
              IN /\ once \in DebtRow
                 /\ d \in Loans => once \in LoanRow
                 /\ d \in Deductions => once \in DeductionRow
                 /\ once.paid = debt[d].paid + 1 /\ once.status = status /\ once.count = debt[d].count
  <2>1. PICK n : n = debt[d].paid + 1
    OBVIOUS
  <2>2. PICK once : once = [debt[d] EXCEPT !.paid = n, !.status = status]
    OBVIOUS
  <2>3. once = [debt[d] EXCEPT !.paid = @ + 1, !.status = status]
    BY <2>1, <2>2
  <2>4. n \in Nat
    BY <1>11, <2>1
  <2>5. d \in Deductions => d \notin Loans
    BY PayrollConstants
  <2>6. once \in DebtRow /\ once.paid = n /\ once.status = status /\ once.count = debt[d].count
    BY <1>11, <1>12, <2>2, <2>4 DEF DebtRow
  <2>7. d \in Loans => once \in LoanRow
    BY <1>11, <1>12, <2>2, <2>4 DEF LoanRow
  <2>8. d \in Deductions => once \in DeductionRow
    BY <1>11, <1>12, <2>2, <2>4, <2>5 DEF DeductionRow
  <2> QED
    BY <2>1, <2>3, <2>6, <2>7, <2>8
<1>13. ASSUME NEW d \in Debts
       PROVE  /\ debt'[d] \in DebtRow
              /\ d \in Loans => debt'[d] \in LoanRow
              /\ d \in Deductions => debt'[d] \in DeductionRow
              /\ d \in payroll[p].counted /\ debt[d].status # "removed" =>
                   /\ debt'[d].paid = debt[d].paid + 1 /\ debt'[d].count = debt[d].count
                   /\ debt'[d].status = IF d \in payroll[p].completes THEN "completed" ELSE debt[d].status
              /\ d \notin payroll[p].counted => debt'[d] = debt[d]
  <2>1. PICK status : status = IF d \in payroll[p].completes THEN "completed" ELSE debt[d].status
    OBVIOUS
  <2>2. status \in (IF d \in Loans THEN LoanStatus \cup {"none"} ELSE DeductionStatus \cup {"none", "removed"})
    BY <1>11, <2>1 DEF LoanRow, DeductionRow, LoanStatus, DeductionStatus, Debts
  <2>3. CASE d \notin payroll[p].counted \/ debt[d].status = "removed"
    BY <1>10, <1>11, <2>3
  <2>4. CASE ~(d \notin payroll[p].counted \/ debt[d].status = "removed")
    <3>1. debt'[d] = [debt[d] EXCEPT !.paid = @ + 1, !.status = status]
      BY <1>10, <2>1, <2>4
    <3>2. PICK once : once = [debt[d] EXCEPT !.paid = @ + 1, !.status = status]
      OBVIOUS
    <3>3. /\ once \in DebtRow
          /\ d \in Loans => once \in LoanRow
          /\ d \in Deductions => once \in DeductionRow
          /\ once.paid = debt[d].paid + 1 /\ once.status = status /\ once.count = debt[d].count
      BY <1>12, <2>2, <3>2
    <3>4. debt'[d] = once
      BY <3>1, <3>2
    <3> QED
      BY <2>1, <2>4, <3>3, <3>4
  <2> QED
    BY <2>3, <2>4
<1>14. DebtsTyped'
  BY <1>10, <1>13 DEF DebtsTyped, Debts
<1>15. \A d \in Loans : d \in Debts /\ debt[d].status # "removed"
  BY <1>11 DEF Debts, LoanRow, LoanStatus
<1>16. LoansFollow'
  <2>1. SUFFICES ASSUME NEW d \in Loans, d \notin contested
                 PROVE  /\ debt'[d].status = "none" => debt'[d].paid = 0
                        /\ debt'[d].status \in {"pending", "rejected", "approved"} => debt'[d].paid < debt'[d].count
                        /\ debt'[d].status \in {"pending", "rejected"} => debt'[d].paid = 0
                        /\ debt'[d].status = "completed" => debt'[d].paid = debt'[d].count
    BY <1>7 DEF LoansFollow
  <2>2. CASE d \notin payroll[p].counted
    BY <1>13, <1>15, <2>1, <2>2 DEF PayrollInv, LoansSound, LoansFollow
  <2>3. CASE d \in payroll[p].counted
    <3>1. /\ debt[d].status = "approved" /\ debt[d].paid < debt[d].count
          /\ d \in payroll[p].completes <=> debt[d].paid + 1 >= debt[d].count
      BY <1>1, <2>1, <2>3 DEF PayrollInv, LoansSound, CountedIsDue
    <3> QED
      BY <1>11, <1>13, <1>15, <2>1, <2>3, <3>1
  <2> QED
    BY <2>2, <2>3
<1>17. CountedIsDue'
  <2>1. payroll'[p] = row /\ \A q \in Payrolls \ {p} : payroll'[q] = payroll[q]
    BY <1>1, <1>7
  <2>2. SUFFICES ASSUME NEW q \in Payrolls, payroll'[q].state = "paying",
                        NEW d \in (payroll'[q].counted \cap Loans) \ contested
                 PROVE  /\ debt'[d].status = "approved" /\ debt'[d].paid < debt'[d].count
                        /\ d \in payroll'[q].completes <=> debt'[d].paid + 1 >= debt'[d].count
                        /\ \A o \in Payrolls \ {q} : payroll'[o].state = "paying" => d \notin payroll'[o].counted
    BY <1>7 DEF CountedIsDue
  <2>3. q # p
    BY <1>6, <2>1, <2>2
  <2>4. /\ payroll[q].state = "paying" /\ d \in payroll[q].counted
        /\ debt[d].status = "approved" /\ debt[d].paid < debt[d].count
        /\ d \in payroll[q].completes <=> debt[d].paid + 1 >= debt[d].count
        /\ \A o \in Payrolls \ {q} : payroll[o].state = "paying" => d \notin payroll[o].counted
    BY <2>1, <2>2, <2>3 DEF PayrollInv, LoansSound, CountedIsDue
  <2>5. debt'[d] = debt[d]
    BY <1>1, <1>13, <1>15, <2>2, <2>3, <2>4
  <2> QED
    BY <1>6, <2>1, <2>3, <2>4, <2>5
<1> QED
  BY <1>9, <1>14, <1>16, <1>17 DEF PayrollInv, SalariesTyped, LoansSound

-----------------------------------------------------------------------------
LEMMA PayrollNextInv ==
  ASSUME PayrollInv, [PayrollNext]_payrollVars PROVE PayrollInv'
<1>1. CASE UNCHANGED payrollVars
  <2>1. UNCHANGED <<payroll, debt, extra, direct, thisMonth, overlapped, contested, edited>>
    BY <1>1 DEF payrollVars
  <2>2. SalariesTyped'
    BY <2>1 DEF PayrollInv, SalariesTyped, DebtsTyped, ExtrasTyped, PayrollsTyped
  <2> QED
    BY <2>1, <2>2, ExtrasApart, LoansApart DEF PayrollInv
<1>2. CASE NextMonth
  <2>1. /\ UNCHANGED <<payroll, debt, extra, direct, overlapped, contested, edited>>
        /\ thisMonth' \in Months
    BY <1>2 DEF NextMonth
  <2>2. SalariesTyped'
    BY <2>1 DEF PayrollInv, SalariesTyped, DebtsTyped, ExtrasTyped, PayrollsTyped
  <2> QED
    BY <2>1, <2>2, ExtrasApart, LoansApart DEF PayrollInv
<1>3. ASSUME NEW p \in Payrolls, PayrollStep(p) PROVE PayrollInv'
  BY <1>3, GenerateInv, SaveDraftInv, DeleteDraftInv, BeginDisburseInv, CommitDisburseInv, RollbackInv DEF PayrollStep
<1> QED
  BY <1>1, <1>2, <1>3, DebtStepInv, ExtraStepInv DEF PayrollNext

-----------------------------------------------------------------------------
(* The parts of the property follow from the invariant *)
LEMMA PayrollRowsKept ==
  ASSUME PayrollInv PROVE PayrollRows
<1>1. \A x \in Extras : extra[x] \in ExtraRow
  BY DEF PayrollInv, SalariesTyped, ExtrasTyped
<1>2. \A x \in Bonuses : extra[x] \in BonusRow
  BY <1>1 DEF Extras, ExtraRow, BonusRow
<1>3. \A x \in Payouts : extra[x] \in PayoutRow
  BY <1>1 DEF Extras, ExtraRow, PayoutRow, PayrollInv, SalariesTyped, ExtrasTyped
<1> QED
  BY <1>2, <1>3 DEF PayrollInv, SalariesTyped, DebtsTyped, PayrollsTyped, PayrollRows

LEMMA AtMostOne ==
  ASSUME NEW S, \A p, q \in S : p = q PROVE Cardinality(S) <= 1
<1>1. CASE S = {}
  BY <1>1, FS_EmptySet
<1>2. CASE S # {}
  <2>1. PICK p : p \in S
    BY <1>2
  <2>2. S = {p}
    BY <2>1
  <2>3. Cardinality({p}) = 1
    BY FS_Singleton
  <2> QED
    BY <2>2, <2>3
<1> QED
  BY <1>1, <1>2

(* An extra that no two drafts of its month hold, and that was not contested *)
LEMMA ReceivedOnce ==
  ASSUME PayrollInv, NEW x \in Extras \ (edited \cup contested), extra[x].month \notin overlapped
  PROVE  Received(x) <= 1
<1> DEFINE among == {p \in Paid : x \in payroll[p].item.extras}
           ahead == {p \in Paid : x \in payroll[p].item.prepaid}
<1>1. ExtraSound(x) /\ among \subseteq Payrolls /\ ahead \subseteq Payrolls
  BY DEF PayrollInv, ExtrasSound, Paid
<1>2. /\ IsFiniteSet(among) /\ IsFiniteSet(ahead)
      /\ Cardinality(among) \in Nat /\ Cardinality(ahead) \in Nat
  BY <1>1, FS_Subset, FS_CardinalityType, PayrollConstants
<1>3. CASE extra[x].isDisbursed
  <2>1. among \subseteq ahead
    BY <1>1, <1>3 DEF ExtraSound, PaidAhead, Paid
  <2>2. Cardinality(among) <= Cardinality(ahead)
    BY <1>2, <2>1, FS_Subset
  <2> QED
    BY <1>2, <1>3, <2>2 DEF Received
<1>4. CASE ~extra[x].isDisbursed
  <2>1. \A p, q \in among : p = q
    BY <1>1 DEF ExtraSound, DuesOfMonth, Paid, PayrollInv, ExtrasSound, OnePerMonth
  <2>2. Cardinality(among) <= 1
    BY <2>1, AtMostOne
  <2> QED
    BY <1>2, <1>4, <2>2 DEF Received
<1> QED
  BY <1>3, <1>4

LEMMA InstallmentsFollow ==
  ASSUME PayrollInv PROVE InstallmentsEnd
<1>1. SUFFICES ASSUME NEW d \in Loans \ contested
               PROVE  /\ debt[d].paid <= debt[d].count
                      /\ debt[d].status = "completed" <=> debt[d].status # "none" /\ debt[d].paid = debt[d].count
  BY DEF InstallmentsEnd
<1>2. /\ debt[d].paid \in Nat /\ debt[d].count \in Nat
      /\ debt[d].status \in LoanStatus \cup {"none"}
  BY DebtRowFields DEF PayrollInv, SalariesTyped, DebtsTyped, Debts, LoanRow
<1> QED
  BY <1>2 DEF PayrollInv, LoansSound, LoansFollow, LoanStatus

LEMMA PayrollSound ==
  ASSUME PayrollInv PROVE PayrollsAddUp
<1>1. NotPaidTwice
  BY ReceivedOnce DEF NotPaidTwice
<1>2. PayslipAddsUp
  BY DEF PayslipAddsUp, Paid, PayrollInv, ExtrasSound, NetHeld
<1> QED
  BY <1>1, <1>2, PayrollRowsKept, InstallmentsFollow DEF PayrollsAddUp

(* Payrolls add up whatever the numbers of payrolls, months, loans, deductions, *)
(* bonuses and settlements: nothing is paid twice, installments end, payslips   *)
(* make their net (PayrollService, LoansService, BonusesService,                *)
(* SettlementsService)                                                          *)
THEOREM PayrollsCorrect == PayrollSpec => []PayrollsAddUp
<1>1. PayrollSpec => []PayrollInv
  BY PayrollInitially, PayrollNextInv, PTL DEF PayrollSpec
<1>2. PayrollInv => PayrollsAddUp
  BY PayrollSound
<1> QED
  BY <1>1, <1>2, PTL

-----------------------------------------------------------------------------
(***************************************************************************)
(* Advances and the award.  What requests are about to save is what they read, *)
(* moved one step on, unless two of them work on one advance; what is granted  *)
(* stays within the highest salary there was as long as the grants under way   *)
(* do.                                                                         *)
(***************************************************************************)

(* What a request on an advance is about to save: a new row, a decision on the *)
(* row it read, or its disbursement                                            *)
AsksFor(row, old) ==
  old.status = "none" /\ row.status = "pending" /\ ~row.isDisbursed
DecidesOn(row, old) ==
  /\ old.status \in {"pending", "approved"} /\ row.status \in {"approved", "rejected"}
  /\ ~old.isDisbursed /\ ~row.isDisbursed /\ row.amount = old.amount
HandsOver(row, old) ==
  /\ old.status = "approved" /\ row.status = "approved" /\ row.isDisbursed
  /\ row.amount = old.amount

AdvancesTyped ==
  /\ advance \in [Advances -> AdvanceRow]
  /\ salaries \in [SalaryRows -> Nat] /\ peak \in Nat
  /\ \A s \in SalaryRows : salaries[s] <= peak
  /\ handedOver \subseteq Advances
  /\ advanceDesk \in [AdvanceDesks -> [a : Advances \cup {"none"}, row : AdvanceRow]]
  /\ \A r \in AdvanceDesks : advanceDesk[r] # NoDesk => advanceDesk[r].a \in Advances

(* An advance that one request at most works on: its row is as that one read it *)
AdvanceSound(a) ==
  /\ \A r, q \in AdvanceDesks :
       advanceDesk[r] # NoDesk /\ advanceDesk[q] # NoDesk /\ advanceDesk[r].a = a /\ advanceDesk[q].a = a => r = q
  /\ \A r \in AdvanceDesks : advanceDesk[r] # NoDesk /\ advanceDesk[r].a = a =>
       \/ AsksFor(advanceDesk[r].row, advance[a])
       \/ DecidesOn(advanceDesk[r].row, advance[a])
       \/ HandsOver(advanceDesk[r].row, advance[a])
  /\ advance[a].isDisbursed => advance[a].status = "approved"
  /\ a \in handedOver => advance[a].isDisbursed

(* What is granted, and asked for, stays within the highest salary *)
GrantsWithin ==
  ~beside /\ crossed = {} =>
    /\ SumOf(Granted) <= peak
    /\ \A r \in AdvanceDesks :
         advanceDesk[r] # NoDesk /\ advance[advanceDesk[r].a].status = "none" =>
           /\ SumOf(Granted) + advanceDesk[r].row.amount <= peak
           /\ \A q \in AdvanceDesks \ {r} :
                advanceDesk[q] # NoDesk => advance[advanceDesk[q].a].status # "none"

EntitlementInv ==
  /\ AdvancesTyped
  /\ \A a \in Advances \ crossed : AdvanceSound(a)
  /\ GrantsWithin

-----------------------------------------------------------------------------
LEMMA AdvanceRowFields ==
  ASSUME NEW r \in AdvanceRow
  PROVE  /\ r.status \in AdvanceStatus \cup {"none"} /\ r.amount \in Nat /\ r.isDisbursed \in BOOLEAN
<1>1. /\ r.status \in AdvanceStatus \cup {"none"} /\ r.amount \in Amounts \cup {0}
      /\ r.isDisbursed \in BOOLEAN
  BY DEF AdvanceRow
<1>2. Amounts \cup {0} \subseteq Nat
  BY EntitlementConstants
<1> QED
  BY <1>1, <1>2

(* What is granted by each advance *)
GrantOf == [a \in Advances |-> IF advance[a].status \in {"pending", "approved"} THEN advance[a].amount ELSE 0]

LEMMA GrantsAddUp ==
  ASSUME AdvancesTyped
  PROVE  /\ GrantOf \in [Advances -> Nat]
         /\ SumOf(Granted) = Total(GrantOf) /\ SumOf(Granted) \in Int
<1> DEFINE rest == Advances \ Granted
           part == [a \in Granted |-> advance[a].amount]
           none == [a \in rest |-> 0]
<1>1. \A a \in Advances : advance[a].amount \in Nat
  BY AdvanceRowFields DEF AdvancesTyped
<1>2. GrantOf \in [Advances -> Nat] /\ GrantOf \in [Advances -> Int]
  BY <1>1 DEF GrantOf
<1>3. Granted \subseteq Advances /\ Advances = Granted \cup rest /\ Granted \cap rest = {}
  BY DEF Granted
<1>4. PartOf(part, Granted, GrantOf)
  BY <1>1, <1>3 DEF PartOf, GrantOf, Granted
<1>5. PartOf(none, rest, GrantOf)
  BY DEF PartOf, GrantOf, Granted
<1>6. Total(none) = 0
  BY TotalZero
<1>7. Total(GrantOf) = Total(part) + Total(none)
  <2> HIDE DEF rest, part, none
  <2> QED
    BY <1>2, <1>3, <1>4, <1>5, TotalSplit, EntitlementConstants
<1>8. IsFiniteSet(Granted) /\ part \in [Granted -> Int]
  BY <1>3, <1>4, FS_Subset, EntitlementConstants DEF PartOf
<1>9. Total(part) \in Int
  BY <1>8, TotalType
<1>10. SumOf(Granted) = Total(part)
  BY DEF SumOf
<1> QED
  BY <1>2, <1>6, <1>7, <1>9, <1>10

(* The same at the next state, as a formula of its own *)
GrantsTotal ==
  GrantOf \in [Advances -> Nat] /\ SumOf(Granted) = Total(GrantOf) /\ SumOf(Granted) \in Int

LEMMA GrantsTotalNow ==
  ASSUME AdvancesTyped PROVE GrantsTotal
BY GrantsAddUp DEF GrantsTotal

LEMMA GrantsTotalThen ==
  ASSUME AdvancesTyped' PROVE GrantsTotal'
BY GrantsTotalNow, PTL

(* A step that replaces one row *)
LEMMA GrantsChange ==
  ASSUME AdvancesTyped, AdvancesTyped', NEW a \in Advances, \A b \in Advances \ {a} : advance'[b] = advance[b]
  PROVE  SumOf(Granted)' = SumOf(Granted) - GrantOf[a] + (GrantOf[a])'
<1>1. GrantsTotal /\ GrantsTotal'
  BY GrantsTotalNow, GrantsTotalThen
<1>2. PICK f, g : f = GrantOf /\ g = GrantOf'
  OBVIOUS
<1>3. f \in [Advances -> Int] /\ g \in [Advances -> Int]
  BY <1>1, <1>2 DEF GrantsTotal
<1>4. \A b \in Advances \ {a} : g[b] = f[b]
  BY <1>2 DEF GrantOf
<1>5. Total(g) = Total(f) - f[a] + g[a]
  BY <1>3, <1>4, TotalUpdate, EntitlementConstants
<1> QED
  BY <1>1, <1>2, <1>5 DEF GrantsTotal

-----------------------------------------------------------------------------
LEMMA EntitlementInitially ==
  ASSUME EntitlementInit PROVE EntitlementInv
<1>1. NoAdvance \in AdvanceRow
  BY DEF NoAdvance, AdvanceRow
<1>2. AdvancesTyped
  BY <1>1 DEF EntitlementInit, AdvancesTyped, NoDesk
<1>3. SumOf(Granted) = 0
  <2>1. Granted = {}
    BY DEF Granted, EntitlementInit, NoAdvance
  <2>2. [a \in Granted |-> advance[a].amount] = [a \in Granted |-> 0]
    BY <2>1
  <2> QED
    BY <2>2, TotalZero DEF SumOf
<1>4. GrantsWithin
  BY <1>3 DEF EntitlementInit, GrantsWithin
<1>5. \A a \in Advances : AdvanceSound(a)
  BY DEF EntitlementInit, AdvanceSound, NoAdvance
<1> QED
  BY <1>2, <1>4, <1>5 DEF EntitlementInv

LEMMA SaveSalaryInv ==
  ASSUME EntitlementInv, NEW s \in SalaryRows, NEW total \in Totals, SaveSalary(s, total)
  PROVE  EntitlementInv'
<1>1. /\ salaries' = [salaries EXCEPT ![s] = total]
      /\ peak' = IF total > peak THEN total ELSE peak
      /\ UNCHANGED <<advance, advanceDesk, handedOver, crossed, beside>>
      /\ total \in Nat
  BY EntitlementConstants DEF SaveSalary
<1>2. salaries \in [SalaryRows -> Nat] /\ peak \in Nat /\ \A q \in SalaryRows : salaries[q] <= peak
  BY DEF EntitlementInv, AdvancesTyped
<1>3. /\ salaries' \in [SalaryRows -> Nat] /\ peak' \in Nat /\ peak <= peak'
      /\ \A q \in SalaryRows : salaries'[q] <= peak'
  BY <1>1, <1>2
<1>4. AdvancesTyped'
  BY <1>1, <1>3 DEF EntitlementInv, AdvancesTyped
<1>5. \A a \in Advances \ crossed' : AdvanceSound(a)'
  BY <1>1 DEF EntitlementInv, AdvanceSound
<1>6. Granted' = Granted /\ SumOf(Granted)' = SumOf(Granted)
  BY <1>1 DEF Granted, SumOf
<1>7. SumOf(Granted) \in Int /\ \A r \in AdvanceDesks : advanceDesk[r].row.amount \in Nat
  BY GrantsAddUp, AdvanceRowFields DEF EntitlementInv, AdvancesTyped
<1>8. GrantsWithin'
  BY <1>1, <1>2, <1>3, <1>6, <1>7 DEF EntitlementInv, GrantsWithin
<1> QED
  BY <1>4, <1>5, <1>8 DEF EntitlementInv

-----------------------------------------------------------------------------
(* A request that reads an advance and holds the row it is about to save *)
LEMMA TakeAdvanceTyped ==
  ASSUME EntitlementInv, NEW r \in AdvanceDesks, NEW a \in Advances, NEW row \in AdvanceRow, row.status # "none",
         TakeAdvance(r, a, row), Unchecked
  PROVE  /\ AdvancesTyped'
         /\ advanceDesk[r] = NoDesk /\ advanceDesk'[r] = [a |-> a, row |-> row] /\ advanceDesk'[r] # NoDesk
         /\ \A q \in AdvanceDesks \ {r} : advanceDesk'[q] = advanceDesk[q]
         /\ crossed' = crossed \cup (AdvancesAtWork \cap {a})
         /\ \A q \in AdvanceDesks : advanceDesk[q] # NoDesk => advanceDesk[q].a \in AdvancesAtWork
<1>1. /\ advanceDesk' = [advanceDesk EXCEPT ![r] = [a |-> a, row |-> row]] /\ advanceDesk[r] = NoDesk
      /\ crossed' = crossed \cup (AdvancesAtWork \cap {a})
      /\ UNCHANGED <<salaries, advance, handedOver, peak>>
  BY DEF TakeAdvance, Unchecked
<1>2. [a |-> a, row |-> row] # NoDesk
  BY DEF NoDesk, NoAdvance
<1>3. AdvancesTyped'
  BY <1>1 DEF EntitlementInv, AdvancesTyped
<1>4. \A q \in AdvanceDesks : advanceDesk[q] # NoDesk => advanceDesk[q].a \in AdvancesAtWork
  BY DEF AdvancesAtWork
<1> QED
  BY <1>1, <1>2, <1>3, <1>4 DEF EntitlementInv, AdvancesTyped

LEMMA TakeAdvanceSound ==
  ASSUME EntitlementInv, NEW r \in AdvanceDesks, NEW a \in Advances, NEW row \in AdvanceRow, row.status # "none",
         TakeAdvance(r, a, row), Unchecked,
         a \notin crossed => AsksFor(row, advance[a]) \/ DecidesOn(row, advance[a]) \/ HandsOver(row, advance[a])
  PROVE  \A b \in Advances \ crossed' : AdvanceSound(b)'
<1>1. /\ advanceDesk[r] = NoDesk /\ advanceDesk'[r] = [a |-> a, row |-> row] /\ advanceDesk'[r] # NoDesk
      /\ \A q \in AdvanceDesks \ {r} : advanceDesk'[q] = advanceDesk[q]
      /\ crossed' = crossed \cup (AdvancesAtWork \cap {a})
      /\ \A q \in AdvanceDesks : advanceDesk[q] # NoDesk => advanceDesk[q].a \in AdvancesAtWork
  BY TakeAdvanceTyped
<1>2. advance' = advance /\ handedOver' = handedOver
  BY DEF Unchecked
<1>3. SUFFICES ASSUME NEW b \in Advances \ crossed' PROVE AdvanceSound(b)'
  OBVIOUS
<1>4. AdvanceSound(b)
  BY <1>1, <1>3 DEF EntitlementInv
<1>5. CASE b # a
  BY <1>1, <1>2, <1>4, <1>5 DEF AdvanceSound
<1>6. CASE b = a
  <2>1. \A q \in AdvanceDesks : advanceDesk[q] # NoDesk => advanceDesk[q].a # a
    BY <1>1, <1>3, <1>6
  <2>2. AsksFor(row, advance[a]) \/ DecidesOn(row, advance[a]) \/ HandsOver(row, advance[a])
    BY <1>1, <1>3, <1>6
  <2> QED
    BY <1>1, <1>2, <1>4, <1>6, <2>1, <2>2 DEF AdvanceSound
<1> QED
  BY <1>5, <1>6

LEMMA GrantsUnchanged ==
  ASSUME UNCHANGED advance PROVE SumOf(Granted)' = SumOf(Granted)
BY DEF Granted, SumOf

LEMMA AskAdvanceInv ==
  ASSUME EntitlementInv, NEW r \in AdvanceDesks, NEW a \in Advances, NEW amount \in Amounts,
         AskAdvance(r, a, amount)
  PROVE  EntitlementInv'
<1>1. PICK row : row = [status |-> "pending", amount |-> amount, isDisbursed |-> FALSE]
  OBVIOUS
<1>2. /\ TakeAdvance(r, a, row) /\ Unchecked /\ advance[a].status = "none" /\ a \notin AdvancesAtWork
      /\ beside' = (beside \/ \E b \in AdvancesAtWork : advance[b].status = "none")
      /\ \E s \in SalaryRows : Within(salaries[s], amount)
  BY <1>1 DEF AskAdvance
<1>3. row \in AdvanceRow /\ row.status = "pending" /\ row.amount = amount /\ ~row.isDisbursed
  BY <1>1 DEF AdvanceRow, AdvanceStatus
<1>4. AsksFor(row, advance[a])
  BY <1>2, <1>3 DEF AsksFor
<1>5. /\ AdvancesTyped'
      /\ advanceDesk[r] = NoDesk /\ advanceDesk'[r] = [a |-> a, row |-> row] /\ advanceDesk'[r] # NoDesk
      /\ \A q \in AdvanceDesks \ {r} : advanceDesk'[q] = advanceDesk[q]
      /\ crossed' = crossed \cup (AdvancesAtWork \cap {a})
      /\ \A q \in AdvanceDesks : advanceDesk[q] # NoDesk => advanceDesk[q].a \in AdvancesAtWork
  BY <1>2, <1>3, TakeAdvanceTyped
<1>6. \A b \in Advances \ crossed' : AdvanceSound(b)'
  BY <1>2, <1>3, <1>4, TakeAdvanceSound
<1>7. UNCHANGED <<advance, peak, salaries>>
  BY <1>2 DEF Unchecked
<1>8. SumOf(Granted)' = SumOf(Granted)
  BY <1>7, GrantsUnchanged
<1>9. SumOf(Granted) + amount <= peak
  <2>1. PICK s \in SalaryRows : SumOf(Granted) + amount <= salaries[s]
    BY <1>2 DEF Within
  <2>2. SumOf(Granted) \in Int /\ amount \in Nat /\ salaries[s] \in Nat /\ peak \in Nat /\ salaries[s] <= peak
    BY GrantsAddUp, EntitlementConstants DEF EntitlementInv, AdvancesTyped
  <2> QED
    BY <2>1, <2>2
<1>10. GrantsWithin'
  <2>1. SUFFICES ASSUME ~beside', crossed' = {}
                 PROVE  /\ SumOf(Granted) <= peak
                        /\ \A q \in AdvanceDesks :
                             advanceDesk'[q] # NoDesk /\ advance[advanceDesk'[q].a].status = "none" =>
                               /\ SumOf(Granted) + advanceDesk'[q].row.amount <= peak
                               /\ \A o \in AdvanceDesks \ {q} :
                                    advanceDesk'[o] # NoDesk => advance[advanceDesk'[o].a].status # "none"
    BY <1>7, <1>8 DEF GrantsWithin
  <2>2. ~beside /\ crossed = {} /\ \A b \in AdvancesAtWork : advance[b].status # "none"
    BY <1>2, <1>5, <2>1
  <2>3. SumOf(Granted) <= peak
    BY <2>2 DEF EntitlementInv, GrantsWithin
  <2>4. \A q \in AdvanceDesks \ {r} : advanceDesk'[q] # NoDesk => advance[advanceDesk'[q].a].status # "none"
    BY <1>5, <2>2
  <2>5. advanceDesk'[r].row.amount = amount
    BY <1>3, <1>5
  <2> QED
    BY <1>9, <2>3, <2>4, <2>5
<1> QED
  BY <1>5, <1>6, <1>10 DEF EntitlementInv

(* A request on an advance there is asks for nothing more *)
LEMMA TakeAdvanceWithin ==
  ASSUME EntitlementInv, NEW r \in AdvanceDesks, NEW a \in Advances, NEW row \in AdvanceRow, row.status # "none",
         TakeAdvance(r, a, row), Unchecked, beside' = beside, advance[a].status # "none"
  PROVE  GrantsWithin'
<1>1. /\ advanceDesk[r] = NoDesk /\ advanceDesk'[r] = [a |-> a, row |-> row] /\ advanceDesk'[r] # NoDesk
      /\ \A q \in AdvanceDesks \ {r} : advanceDesk'[q] = advanceDesk[q]
      /\ crossed' = crossed \cup (AdvancesAtWork \cap {a})
  BY TakeAdvanceTyped
<1>2. UNCHANGED <<advance, peak>>
  BY DEF Unchecked
<1>3. SumOf(Granted)' = SumOf(Granted)
  BY <1>2, GrantsUnchanged
<1>4. SUFFICES ASSUME ~beside, crossed = {}
               PROVE  /\ SumOf(Granted) <= peak
                      /\ \A q \in AdvanceDesks :
                           advanceDesk'[q] # NoDesk /\ advance[advanceDesk'[q].a].status = "none" =>
                             /\ SumOf(Granted) + advanceDesk'[q].row.amount <= peak
                             /\ \A o \in AdvanceDesks \ {q} :
                                  advanceDesk'[o] # NoDesk => advance[advanceDesk'[o].a].status # "none"
  BY <1>1, <1>2, <1>3 DEF GrantsWithin
<1>5. advance[advanceDesk'[r].a].status # "none"
  BY <1>1
<1> QED
  BY <1>1, <1>4, <1>5 DEF EntitlementInv, GrantsWithin

LEMMA DecideAdvanceInv ==
  ASSUME EntitlementInv, NEW r \in AdvanceDesks, NEW a \in Advances, NEW status \in AdvanceStatus,
         DecideAdvance(r, a, status)
  PROVE  EntitlementInv'
<1>1. PICK row : row = [advance[a] EXCEPT !.status = status]
  OBVIOUS
<1>2. advance[a] \in AdvanceRow
  BY DEF EntitlementInv, AdvancesTyped
<1>3. row \in AdvanceRow /\ row.status = status /\ row.amount = advance[a].amount
      /\ row.isDisbursed = advance[a].isDisbursed
  BY <1>1, <1>2 DEF AdvanceRow
<1>4. TakeAdvance(r, a, row) /\ Unchecked /\ beside' = beside
  BY <1>1 DEF DecideAdvance
<1>5. /\ advance[a].status \in {"pending", "approved"} /\ status \in {"approved", "rejected"}
      /\ advance[a].status = "approved" => ~advance[a].isDisbursed
  BY DEF DecideAdvance, AdvanceDecisions
<1>6. a \notin crossed => DecidesOn(row, advance[a])
  BY <1>3, <1>5 DEF EntitlementInv, AdvanceSound, DecidesOn
<1>7. row.status # "none"
  BY <1>3, <1>5
<1> QED
  BY <1>3, <1>4, <1>5, <1>6, <1>7, TakeAdvanceTyped, TakeAdvanceSound, TakeAdvanceWithin DEF EntitlementInv

LEMMA DisburseAdvanceInv ==
  ASSUME EntitlementInv, NEW r \in AdvanceDesks, NEW a \in Advances, DisburseAdvance(r, a)
  PROVE  EntitlementInv'
<1>1. PICK row : row = [advance[a] EXCEPT !.isDisbursed = TRUE]
  OBVIOUS
<1>2. advance[a] \in AdvanceRow /\ advance[a].status = "approved"
  BY DEF EntitlementInv, AdvancesTyped, DisburseAdvance
<1>3. row \in AdvanceRow /\ row.status = "approved" /\ row.amount = advance[a].amount /\ row.isDisbursed
  BY <1>1, <1>2 DEF AdvanceRow
<1>4. TakeAdvance(r, a, row) /\ Unchecked /\ beside' = beside
  BY <1>1 DEF DisburseAdvance
<1>5. HandsOver(row, advance[a])
  BY <1>2, <1>3 DEF HandsOver
<1> QED
  BY <1>2, <1>3, <1>4, <1>5, TakeAdvanceTyped, TakeAdvanceSound, TakeAdvanceWithin DEF EntitlementInv

-----------------------------------------------------------------------------
LEMMA SaveAdvanceInv ==
  ASSUME EntitlementInv, NEW r \in AdvanceDesks, SaveAdvance(r) PROVE EntitlementInv'
<1>1. PICK a, row : a = advanceDesk[r].a /\ row = advanceDesk[r].row
  OBVIOUS
<1>2. /\ advanceDesk[r] # NoDesk /\ advance' = [advance EXCEPT ![a] = row]
      /\ handedOver' = IF row.isDisbursed THEN handedOver \cup {a} ELSE handedOver
      /\ advanceDesk' = [advanceDesk EXCEPT ![r] = NoDesk]
      /\ UNCHANGED <<salaries, peak, crossed, beside>>
  BY <1>1 DEF SaveAdvance
<1>3. a \in Advances /\ row \in AdvanceRow /\ AdvancesTyped
  BY <1>1, <1>2 DEF EntitlementInv, AdvancesTyped
<1>4. /\ advance'[a] = row /\ \A b \in Advances \ {a} : advance'[b] = advance[b]
      /\ advanceDesk'[r] = NoDesk /\ \A q \in AdvanceDesks \ {r} : advanceDesk'[q] = advanceDesk[q]
  BY <1>2, <1>3 DEF AdvancesTyped
<1>5. AdvancesTyped'
  <2>1. NoDesk \in [a : Advances \cup {"none"}, row : AdvanceRow]
    BY DEF NoDesk, NoAdvance, AdvanceRow
  <2>2. advance' \in [Advances -> AdvanceRow] /\ handedOver' \subseteq Advances
    BY <1>2, <1>3 DEF AdvancesTyped
  <2>3. advanceDesk' \in [AdvanceDesks -> [a : Advances \cup {"none"}, row : AdvanceRow]]
    BY <1>2, <1>3, <2>1 DEF AdvancesTyped
  <2> QED
    BY <1>2, <1>3, <1>4, <2>2, <2>3 DEF AdvancesTyped
<1>6. a \notin crossed => AsksFor(row, advance[a]) \/ DecidesOn(row, advance[a]) \/ HandsOver(row, advance[a])
  BY <1>1, <1>2, <1>3 DEF EntitlementInv, AdvanceSound
<1>7. \A b \in Advances \ crossed' : AdvanceSound(b)'
  <2>1. SUFFICES ASSUME NEW b \in Advances \ crossed PROVE AdvanceSound(b)'
    BY <1>2
  <2>2. AdvanceSound(b)
    BY DEF EntitlementInv
  <2>3. CASE b # a
    BY <1>2, <1>4, <2>2, <2>3 DEF AdvanceSound
  <2>4. CASE b = a
    <3>1. \A q \in AdvanceDesks \ {r} : advanceDesk[q] # NoDesk => advanceDesk[q].a # a
      BY <1>1, <1>2, <2>2, <2>4 DEF AdvanceSound
    <3>2. \A q \in AdvanceDesks : advanceDesk'[q] # NoDesk => advanceDesk'[q].a # a
      BY <1>4, <3>1
    <3>3. row.isDisbursed => row.status = "approved"
      BY <1>6, <2>4 DEF AsksFor, DecidesOn, HandsOver
    <3>4. a \in handedOver => HandsOver(row, advance[a])
      BY <1>6, <2>2, <2>4 DEF AdvanceSound, AsksFor, DecidesOn
    <3>5. a \in handedOver' => row.isDisbursed
      BY <1>2, <3>4 DEF HandsOver
    <3> QED
      BY <1>4, <2>4, <3>2, <3>3, <3>5 DEF AdvanceSound
  <2> QED
    BY <2>3, <2>4
<1>8. GrantsWithin'
  <2>1. SUFFICES ASSUME ~beside, crossed = {} PROVE GrantsWithin'
    BY <1>2 DEF GrantsWithin
  <2>2. /\ SumOf(Granted) <= peak
        /\ \A q \in AdvanceDesks :
             advanceDesk[q] # NoDesk /\ advance[advanceDesk[q].a].status = "none" =>
               /\ SumOf(Granted) + advanceDesk[q].row.amount <= peak
               /\ \A o \in AdvanceDesks \ {q} :
                    advanceDesk[o] # NoDesk => advance[advanceDesk[o].a].status # "none"
    BY <2>1 DEF EntitlementInv, GrantsWithin
  <2>3. SumOf(Granted)' = SumOf(Granted) - GrantOf[a] + (GrantOf[a])'
    BY <1>3, <1>4, <1>5, GrantsChange
  <2>4. /\ GrantOf[a] = IF advance[a].status \in {"pending", "approved"} THEN advance[a].amount ELSE 0
        /\ (GrantOf[a])' = IF row.status \in {"pending", "approved"} THEN row.amount ELSE 0
    BY <1>3, <1>4 DEF GrantOf
  <2>5. /\ SumOf(Granted) \in Int /\ peak \in Nat /\ row.amount \in Nat /\ advance[a].amount \in Nat
        /\ \A q \in AdvanceDesks : advanceDesk[q].row.amount \in Nat
    BY <1>3, GrantsAddUp, AdvanceRowFields DEF AdvancesTyped
  <2>6. AdvanceSound(a)
    BY <1>3, <2>1 DEF EntitlementInv
  <2>7. \A q \in AdvanceDesks \ {r} : advanceDesk[q] # NoDesk => advanceDesk[q].a \in Advances \ {a}
    BY <1>1, <1>2, <1>3, <2>6 DEF AdvanceSound, AdvancesTyped
  <2>8. CASE AsksFor(row, advance[a])
    <3>1. advance[a].status = "none" /\ row.status = "pending"
      BY <2>8 DEF AsksFor
    <3>2. SumOf(Granted)' = SumOf(Granted) + row.amount
      BY <2>3, <2>4, <2>5, <3>1
    <3>3. SumOf(Granted)' <= peak
      BY <1>1, <1>2, <2>2, <3>1, <3>2
    <3>4. \A q \in AdvanceDesks : advanceDesk'[q] # NoDesk => advance'[advanceDesk'[q].a].status # "none"
      BY <1>1, <1>2, <1>4, <2>2, <2>7, <3>1
    <3> QED
      BY <1>2, <3>3, <3>4 DEF GrantsWithin
  <2>9. CASE DecidesOn(row, advance[a]) \/ HandsOver(row, advance[a])
    <3>1. /\ advance[a].status \in {"pending", "approved"} /\ row.status # "none"
          /\ row.amount = advance[a].amount
      BY <2>9 DEF DecidesOn, HandsOver
    <3>2. SumOf(Granted)' <= SumOf(Granted) /\ SumOf(Granted)' \in Int
      BY <2>3, <2>4, <2>5, <3>1
    <3>3. SumOf(Granted)' <= peak
      BY <2>2, <2>5, <3>2
    <3>4. ASSUME NEW q \in AdvanceDesks, advanceDesk'[q] # NoDesk, advance'[advanceDesk'[q].a].status = "none"
          PROVE  /\ SumOf(Granted)' + advanceDesk'[q].row.amount <= peak
                 /\ \A o \in AdvanceDesks \ {q} :
                      advanceDesk'[o] # NoDesk => advance'[advanceDesk'[o].a].status # "none"
      <4>1. q # r /\ advanceDesk'[q] = advanceDesk[q] /\ advance[advanceDesk[q].a].status = "none"
        BY <1>4, <2>7, <3>4
      <4>2. SumOf(Granted)' + advanceDesk[q].row.amount <= peak
        BY <2>2, <2>5, <3>2, <3>4, <4>1
      <4>3. \A o \in AdvanceDesks \ {q} :
              advanceDesk'[o] # NoDesk => advance'[advanceDesk'[o].a].status # "none"
        BY <1>4, <2>2, <2>7, <3>4, <4>1
      <4> QED
        BY <4>1, <4>2, <4>3
    <3> QED
      BY <1>2, <3>3, <3>4 DEF GrantsWithin
  <2> QED
    BY <1>6, <1>3, <2>1, <2>8, <2>9
<1> QED
  BY <1>5, <1>7, <1>8 DEF EntitlementInv

LEMMA EntitlementNextInv ==
  ASSUME EntitlementInv, [EntitlementNext]_entitlementVars PROVE EntitlementInv'
<1>1. CASE UNCHANGED entitlementVars
  <2>1. UNCHANGED <<salaries, advance, advanceDesk, handedOver, peak, crossed, beside>>
    BY <1>1 DEF entitlementVars
  <2>2. SumOf(Granted)' = SumOf(Granted)
    BY <2>1, GrantsUnchanged
  <2> QED
    BY <2>1, <2>2 DEF EntitlementInv, AdvancesTyped, AdvanceSound, GrantsWithin
<1> QED
  BY <1>1, SaveSalaryInv, AskAdvanceInv, DecideAdvanceInv, DisburseAdvanceInv, SaveAdvanceInv DEF EntitlementNext

-----------------------------------------------------------------------------
(* The award never falls with the months of service, and who resigns gets no *)
(* more than who is let go, whatever the service (EosService)                *)
THEOREM AwardNeverFalls ==
  ASSUME NEW months \in Nat
  PROVE  /\ \A reason \in {"resignation", "termination"} : Award(months, reason) <= Award(months + 1, reason)
         /\ Award(months, "resignation") <= Award(months, "termination")
<1>1. \A n \in Nat : HalfUpTo(n) \in Nat /\ HalfUpTo(n) <= HalfUpTo(n + 1)
  BY DEF HalfUpTo, MonthsOf
<1>2. \A n \in Nat : Entitled(n) \in {0, 1, 2, 3} /\ Entitled(n) <= Entitled(n + 1)
  BY DEF Entitled, MonthsOf
<1>3. \A m, n \in Nat, s, t \in {0, 1, 2, 3} : m <= n /\ s <= t => m * s <= n * t
  OBVIOUS
<1>4. \A m, n \in Nat : m <= n => m * 3 <= n * 3
  OBVIOUS
<1>5. Award(months, "resignation") <= Award(months + 1, "resignation")
  BY <1>1, <1>2, <1>3 DEF Award
<1>6. Award(months, "termination") <= Award(months + 1, "termination")
  BY <1>1, <1>4 DEF Award
<1>7. Award(months, "resignation") <= Award(months, "termination")
  BY <1>1, <1>2, <1>3 DEF Award
<1> QED
  BY <1>5, <1>6, <1>7

(* Advances stay within the highest salary and what was handed over is owed,  *)
(* whatever the numbers of advances, salaries and requests (AdvancesService)  *)
THEOREM AdvancesCorrect == EntitlementSpec => []AdvancesCovered
<1>1. EntitlementSpec => []EntitlementInv
  BY EntitlementInitially, EntitlementNextInv, PTL DEF EntitlementSpec
<1>2. AwardGrows
  BY AwardNeverFalls DEF AwardGrows, MonthsOf
<1>3. EntitlementInv => AdvancesCovered
  BY <1>2 DEF EntitlementInv, AdvancesTyped, AdvanceSound, GrantsWithin, AdvancesCovered, AdvanceRows,
    AdvancesWithinSalary, HandedIsOwed
<1> QED
  BY <1>1, <1>3, PTL

-----------------------------------------------------------------------------
(***************************************************************************)
(* Leaves.  Standing requests are apart from one another and from the one that *)
(* is being asked for, a balance that was not written from an old reading says *)
(* what its year's settlements paid, and a cycle is carried over by one run.   *)
(***************************************************************************)

(* A sum over a part of a finite set, as one over the set *)
LEMMA TotalOfPart ==
  ASSUME NEW S, IsFiniteSet(S), NEW T \in SUBSET S, NEW f \in [T -> Int], NEW g \in [S -> Int],
         \A x \in T : g[x] = f[x], \A x \in S \ T : g[x] = 0
  PROVE  Total(f) = Total(g) /\ Total(f) \in Int
<1> DEFINE rest == S \ T
           none == [x \in rest |-> 0]
<1>1. S = T \cup rest /\ T \cap rest = {} /\ IsFiniteSet(T)
  BY FS_Subset
<1>2. PartOf(f, T, g) /\ PartOf(none, rest, g)
  BY DEF PartOf
<1>3. Total(none) = 0
  BY TotalZero
<1>4. Total(g) = Total(f) + Total(none)
  <2> HIDE DEF rest, none
  <2> QED
    BY <1>1, <1>2, TotalSplit
<1>5. Total(f) \in Int
  BY <1>1, TotalType
<1> QED
  BY <1>3, <1>4, <1>5

-----------------------------------------------------------------------------
Work == [do : Works \cup LeaveTypes, on : LeaveRequests \cup Nat, row : BalanceRow, n : Int]

(* What each kind of work holds *)
WorkSound(w) ==
  /\ w.row.carriedOver <= MaxCarry
  /\ w.do \in LeaveTypes => w.on \in LeaveDays /\ w.n \in LeaveDays
  /\ w.do \in {"approved", "rejected"} => w.on \in LeaveRequests
  /\ w.do \in {"setBalance", "carry"} => w.on \in YearsOf
  /\ w.do = "carry" => w.n <= MaxCarry /\ Anniversary(w.on) \in LeaveDays
  /\ w.do \in {"FULL", "PARTIAL"} => w.on \in LeaveDays

LeaveTabled ==
  /\ leaveDay \in LeaveDays
  /\ leave \in [LeaveRequests -> LeaveRow]
  /\ balance \in [YearsOf -> BalanceRow]
  /\ carried \in [YearsOf -> Nat]
  /\ settlement \in [Settlements -> SettlementRow]

WorksTyped ==
  leaveWork \in [LeaveDesks -> Work] /\ \A r \in LeaveDesks : WorkSound(leaveWork[r])

(* Standing requests are apart and so is what is asked for; a decision at work *)
(* finds the request as it read it                                              *)
Decides(w) == w.do \in {"approved", "rejected"}
RequestsApart ==
  together \cap {"requests", "decisions"} = {} =>
    /\ \A l, other \in Standing : l # other => ~Overlaps(l, leave[other].from, leave[other].to)
    /\ \A r, q \in LeaveDesks :
         leaveWork[r].do \in LeaveTypes /\ leaveWork[q].do \in LeaveTypes => r = q
    /\ \A r \in LeaveDesks : leaveWork[r].do \in LeaveTypes =>
         \A l \in Standing : ~Overlaps(l, leaveWork[r].on, leaveWork[r].n)
    /\ \A r, q \in LeaveDesks :
         Decides(leaveWork[r]) /\ Decides(leaveWork[q]) /\ leaveWork[r].on = leaveWork[q].on => r = q
    /\ \A r \in LeaveDesks : Decides(leaveWork[r]) => leaveWork[r].on \in Standing

SettledDays(y) ==
  Total([s \in {s \in Settlements : settlement[s].type # "none" /\ YearOfDay(settlement[s].date) = y} |->
           settlement[s].days])

FullySettled == \E s \in Settlements : settlement[s].type = "FULL"

(* A balance that is not there is an empty one; one that is has what was consumed *)
(* and starts with its cycle                                                      *)
BalanceSound(y) ==
  /\ ~balance[y].exists => balance[y] = NoBalance
  /\ carried[y] > 0 => balance[y].exists
  /\ balance[y].carriedOver <= MaxCarry
  /\ y \notin staleYears =>
       /\ balance[y].consumed = SettledDays(y)
       /\ carried[y] > 0 => balance[y].start >= Anniversary(y) \/ FullySettled

(* A cycle is carried over by one run *)
CyclesOnce ==
  "cycles" \notin together =>
    /\ \A y \in YearsOf : carried[y] <= 1
    /\ \A r \in LeaveDesks : leaveWork[r].do = "carry" =>
         /\ carried[leaveWork[r].on] = 0
         /\ \A q \in LeaveDesks : leaveWork[q].do = "carry" /\ leaveWork[q].on = leaveWork[r].on => q = r

BalancesSound == \A y \in YearsOf : BalanceSound(y)

LeavesInv == LeaveTabled /\ WorksTyped /\ RequestsApart /\ BalancesSound /\ CyclesOnce

-----------------------------------------------------------------------------
(* Days, years and what is available *)
LEMMA LeaveYearsGrow ==
  ASSUME NEW d \in Nat, NEW e \in Nat, d <= e
  PROVE  YearOfDay(d) \in Nat /\ YearOfDay(e) \in Nat /\ YearOfDay(d) <= YearOfDay(e)
<1> DEFINE p == d \div YearLength
           q == e \div YearLength
<1>1. YearLength \in Nat /\ YearLength > 0
  BY LeaveConstants
<1>2. /\ p \in Nat /\ q \in Nat
      /\ YearLength * p <= d /\ e < YearLength * q + YearLength
  BY <1>1
<1>3. p <= q
  <2> HIDE DEF p, q
  <2>1. SUFFICES ASSUME q + 1 <= p PROVE FALSE
    BY <1>2
  <2>2. YearLength * (q + 1) <= YearLength * p
    BY <1>1, <1>2, <2>1
  <2>3. YearLength * (q + 1) = YearLength * q + YearLength
    BY <1>1, <1>2
  <2> QED
    BY <1>1, <1>2, <2>2, <2>3
<1> QED
  BY <1>2, <1>3 DEF YearOfDay

LEMMA YearInYears ==
  ASSUME NEW d \in LeaveDays
  PROVE  YearOfDay(d) \in YearsOf
<1>1. d \in Nat /\ LastLeaveDay \in Nat /\ d <= LastLeaveDay
  BY LeaveConstants DEF LeaveDays
<1> QED
  BY <1>1, LeaveYearsGrow DEF YearsOf

LEMMA AnniversaryInDays ==
  ASSUME NEW y \in YearsOf, y > YearOfDay(Hired), Anniversary(y) <= leaveDay, leaveDay \in LeaveDays
  PROVE  Anniversary(y) \in LeaveDays /\ y - 1 \in YearsOf
<1>1. Hired \in Nat /\ YearLength \in Nat /\ LastLeaveDay \in Nat
  BY LeaveConstants DEF LeaveDays
<1>2. YearOfDay(Hired) \in Nat /\ YearOfDay(LastLeaveDay) \in Nat
  BY <1>1, LeaveYearsGrow
<1>3. PICK k : k = y - YearOfDay(Hired)
  OBVIOUS
<1>4. k \in Nat /\ y - 1 \in YearsOf
  BY <1>2, <1>3 DEF YearsOf
<1>5. YearLength * k \in Nat
  BY <1>1, <1>4
<1> QED
  BY <1>1, <1>3, <1>4, <1>5 DEF Anniversary, LeaveDays

LEMMA LeaveRowFields ==
  ASSUME LeaveTabled, NEW l \in LeaveRequests
  PROVE  leave[l].from \in Nat /\ leave[l].to \in Nat
BY LeaveConstants DEF LeaveTabled, LeaveRow, LeaveDays

LEMMA BalanceRowFields ==
  ASSUME NEW row \in BalanceRow
  PROVE  /\ row.exists \in BOOLEAN /\ row.allowance \in Int /\ row.consumed \in Int
         /\ row.start \in LeaveDays /\ row.start \in Nat /\ row.carriedOver \in Int
BY LeaveConstants DEF BalanceRow, LeaveDays

LEMMA AvailableType ==
  ASSUME LeaveTabled, NEW row \in BalanceRow, NEW asOf \in LeaveDays
  PROVE  Available(row, asOf) \in Nat
<1>1. asOf \in Nat /\ row.start \in Nat
  BY BalanceRowFields, LeaveConstants DEF LeaveDays
<1>2. UnpaidDays(row.start, asOf) \in Int
  <2>1. \A l \in Approved("unpaid") : Clipped(l, row.start, asOf) \in Int
    BY <1>1, LeaveRowFields DEF Approved, Clipped, Inclusive, AtLeast, AtMost
  <2>2. IsFiniteSet(Approved("unpaid"))
    BY FS_Subset, LeaveConstants DEF Approved
  <2> QED
    BY <2>1, <2>2, TotalType DEF UnpaidDays
<1>3. ConsumedAnnual(row.start) \in Int
  <2> DEFINE S == {l \in Approved("annual") : leave[l].from >= row.start}
  <2>1. \A l \in S : Inclusive(leave[l].from, leave[l].to) \in Int
    BY LeaveRowFields DEF Approved, Inclusive, AtLeast
  <2>2. IsFiniteSet(S)
    BY FS_Subset, LeaveConstants DEF Approved
  <2>3. [l \in S |-> Inclusive(leave[l].from, leave[l].to)] \in [S -> Int]
    BY <2>1
  <2>4. Total([l \in S |-> Inclusive(leave[l].from, leave[l].to)]) \in Int
    BY <2>2, <2>3, TotalType
  <2> QED
    BY <2>4 DEF ConsumedAnnual
<1>4. Earned(row, asOf) \in Int
  <2>1. PICK m : m = AtLeast(Duration(row.start, asOf) - UnpaidDays(row.start, asOf), 0)
    OBVIOUS
  <2>2. m \in Int
    BY <1>1, <1>2, <2>1 DEF AtLeast, Duration
  <2>3. PICK k : k = row.allowance \div YearLength
    OBVIOUS
  <2>4. k \in Int
    BY <2>3, BalanceRowFields, LeaveConstants
  <2>5. k * m \in Int
    BY <2>2, <2>4
  <2> QED
    BY <2>1, <2>3, <2>5 DEF Earned
<1> QED
  BY <1>3, <1>4, BalanceRowFields DEF Available, AtLeast

LEMMA NoBalanceRow ==
  /\ NoBalance \in BalanceRow
  /\ ~NoBalance.exists /\ NoBalance.consumed = 0 /\ NoBalance.carriedOver = 0 /\ NoBalance.start = Hired
BY LeaveConstants DEF NoBalance, BalanceRow

LEMMA NewBalanceRow ==
  ASSUME NEW allowance \in Int
  PROVE  LET row == NewBalance(allowance)
         IN /\ row \in BalanceRow /\ row.exists /\ row.consumed = 0 /\ row.carriedOver = 0
            /\ row.start = Hired
<1>1. PICK row : row = NewBalance(allowance)
  OBVIOUS
<1>2. row = [NoBalance EXCEPT !.exists = TRUE, !.allowance = allowance]
  BY <1>1 DEF NewBalance
<1>3. /\ row \in BalanceRow /\ row.exists = TRUE /\ row.consumed = NoBalance.consumed
      /\ row.carriedOver = NoBalance.carriedOver /\ row.start = NoBalance.start
  BY <1>2, NoBalanceRow DEF BalanceRow
<1> QED
  BY <1>1, <1>3, NoBalanceRow

(* The row of a year, made if there is none *)
LEMMA BalanceOfRow ==
  ASSUME LeaveTabled, BalancesSound, NEW y \in YearsOf
  PROVE  /\ BalanceOf(y) \in BalanceRow /\ BalanceOf(y).exists
         /\ BalanceOf(y).consumed = balance[y].consumed
         /\ BalanceOf(y).carriedOver <= MaxCarry
         /\ balance[y].exists => BalanceOf(y) = balance[y]
<1>1. balance[y] \in BalanceRow /\ balance[y].carriedOver <= MaxCarry
      /\ (~balance[y].exists => balance[y] = NoBalance)
  BY DEF LeaveTabled, BalancesSound, BalanceSound
<1> QED
  BY <1>1, NewBalanceRow, NoBalanceRow, LeaveConstants DEF BalanceOf

-----------------------------------------------------------------------------
(* What each settlement paid of a year *)
SettledBy(y) ==
  [s \in Settlements |->
     IF settlement[s].type # "none" /\ YearOfDay(settlement[s].date) = y THEN settlement[s].days ELSE 0]

SettledSum(y) ==
  SettledBy(y) \in [Settlements -> Int] /\ SettledDays(y) = Total(SettledBy(y)) /\ SettledDays(y) \in Int

SettledSums == \A y \in YearsOf : SettledSum(y)

LEMMA SettledAddUp ==
  ASSUME LeaveTabled PROVE SettledSums
<1> SUFFICES ASSUME NEW y \in YearsOf PROVE SettledSum(y)
  BY DEF SettledSums
<1> DEFINE T == {s \in Settlements : settlement[s].type # "none" /\ YearOfDay(settlement[s].date) = y}
           f == [s \in T |-> settlement[s].days]
           g == SettledBy(y)
<1>1. \A s \in Settlements : settlement[s].days \in Int
  BY DEF LeaveTabled, SettlementRow
<1>2. T \in SUBSET Settlements /\ f \in [T -> Int] /\ g \in [Settlements -> Int]
  BY <1>1 DEF SettledBy
<1>3. (\A s \in T : g[s] = f[s]) /\ (\A s \in Settlements \ T : g[s] = 0)
  BY DEF SettledBy
<1>4. Total(f) = Total(g) /\ Total(f) \in Int
  <2> HIDE DEF T, f, g
  <2> QED
    BY <1>2, <1>3, TotalOfPart, LeaveConstants
<1> QED
  BY <1>2, <1>4 DEF SettledDays, SettledSum

LEMMA SettledAddUpThen ==
  ASSUME LeaveTabled' PROVE SettledSums'
BY SettledAddUp, PTL

(* A settlement adds what it paid to its year and to no other *)
LEMMA SettledChange ==
  ASSUME LeaveTabled, NEW s \in Settlements, settlement[s].type = "none", NEW row \in SettlementRow,
         row.type # "none", settlement' = [settlement EXCEPT ![s] = row], LeaveTabled', NEW y \in YearsOf
  PROVE  SettledDays(y)' = SettledDays(y) + (IF YearOfDay(row.date) = y THEN row.days ELSE 0)
<1>1. PICK f, h : f = SettledBy(y) /\ h = SettledBy(y)'
  OBVIOUS
<1>2. /\ f \in [Settlements -> Int] /\ h \in [Settlements -> Int]
      /\ SettledDays(y) = Total(f) /\ SettledDays(y)' = Total(h)
  BY <1>1, SettledAddUp, SettledAddUpThen DEF SettledSum, SettledSums
<1>3. settlement \in [Settlements -> SettlementRow]
  BY DEF LeaveTabled
<1>4. /\ \A q \in Settlements \ {s} : h[q] = f[q]
      /\ f[s] = 0 /\ h[s] = IF YearOfDay(row.date) = y THEN row.days ELSE 0
  BY <1>1, <1>3 DEF YearOfDay, SettledBy
<1>5. Total(h) = Total(f) - f[s] + h[s]
  BY <1>2, <1>4, TotalUpdate, LeaveConstants
<1>6. Total(f) \in Int /\ h[s] \in Int
  BY <1>2, TotalType, LeaveConstants
<1> QED
  BY <1>2, <1>4, <1>5, <1>6

-----------------------------------------------------------------------------
LEMMA LeavesInitially ==
  ASSUME LeavesInit PROVE LeavesInv
<1>1. 0 \in LeaveDays /\ Hired \in LeaveDays
  BY LeaveConstants DEF LeaveDays
<1>2. NoWork \in Work /\ NoWork.do = "none" /\ NoWork.row = NoBalance
  BY NoBalanceRow DEF NoWork, Work, Works
<1>3. "none" \notin LeaveTypes
  BY LeaveConstants DEF Works
<1>4. LeaveTabled
  BY <1>1, NoBalanceRow, LeaveConstants DEF LeavesInit, LeaveTabled, LeaveRow, SettlementRow
<1>5. WorksTyped
  BY <1>2, <1>3, NoBalanceRow, LeaveConstants DEF LeavesInit, WorksTyped, WorkSound
<1>6. RequestsApart
  BY <1>2, <1>3 DEF LeavesInit, RequestsApart, Standing, Decides
<1>7. CyclesOnce
  BY <1>2 DEF LeavesInit, CyclesOnce
<1>8. ASSUME NEW y \in YearsOf PROVE BalanceSound(y)
  <2>1. SettledDays(y) = 0
    <3>1. [s \in {s \in Settlements : settlement[s].type # "none" /\ YearOfDay(settlement[s].date) = y} |->
             settlement[s].days]
            = [s \in {s \in Settlements : settlement[s].type # "none" /\ YearOfDay(settlement[s].date) = y} |-> 0]
      BY DEF LeavesInit
    <3> QED
      BY <3>1, TotalZero DEF SettledDays
  <2> QED
    BY <2>1, NoBalanceRow, LeaveConstants DEF LeavesInit, BalanceSound
<1> QED
  BY <1>4, <1>5, <1>6, <1>7, <1>8 DEF LeavesInv, BalancesSound

-----------------------------------------------------------------------------
(* A desk that takes up work *)
LEMMA WorkStep ==
  ASSUME WorksTyped, NEW r \in LeaveDesks, NEW w \in Work, WorkSound(w),
         leaveWork' = [leaveWork EXCEPT ![r] = w]
  PROVE  /\ WorksTyped' /\ leaveWork'[r] = w
         /\ \A q \in LeaveDesks \ {r} : leaveWork'[q] = leaveWork[q]
<1>1. /\ leaveWork' \in [LeaveDesks -> Work] /\ leaveWork'[r] = w
      /\ \A q \in LeaveDesks \ {r} : leaveWork'[q] = leaveWork[q]
  BY DEF WorksTyped
<1> QED
  BY <1>1 DEF WorksTyped

LEMMA WorkNames ==
  /\ \A w \in Works : w \notin LeaveTypes
  /\ NoWork \in Work /\ WorkSound(NoWork) /\ NoWork.do = "none" /\ NoWork.row = NoBalance
<1>1. \A w \in Works : w \notin LeaveTypes
  BY LeaveConstants
<1>2. /\ NoWork.do = "none" /\ NoWork.row = NoBalance
      /\ NoWork \in Work
  BY NoBalanceRow DEF NoWork, Work, Works
<1> QED
  BY <1>1, <1>2, NoBalanceRow, LeaveConstants DEF WorkSound, Works

LEMMA HeldWork ==
  ASSUME NEW w, NEW do \in Works \cup LeaveTypes, NEW on \in LeaveRequests \cup Nat, NEW row \in BalanceRow,
         NEW n \in Int, w = [do |-> do, on |-> on, row |-> row, n |-> n]
  PROVE  w \in Work /\ w.do = do /\ w.on = on /\ w.row = row /\ w.n = n
BY DEF Work

(* What a step leaves alone *)
LEMMA ApartKept ==
  ASSUME RequestsApart, UNCHANGED <<leave, leaveWork, together>>
  PROVE  RequestsApart'
BY DEF RequestsApart, Standing, Overlaps, Decides

LEMMA ApartBeside ==
  ASSUME RequestsApart, NEW r \in LeaveDesks, NEW w, leave' = leave, together \subseteq together',
         leaveWork'[r] = w, \A q \in LeaveDesks \ {r} : leaveWork'[q] = leaveWork[q],
         w.do \notin LeaveTypes, ~Decides(w)
  PROVE  RequestsApart'
BY DEF RequestsApart, Standing, Overlaps, Decides

LEMMA CyclesKept ==
  ASSUME CyclesOnce, UNCHANGED <<leaveWork, carried, together>>
  PROVE  CyclesOnce'
BY DEF CyclesOnce

LEMMA CyclesBeside ==
  ASSUME CyclesOnce, NEW r \in LeaveDesks, NEW w, carried' = carried, together \subseteq together',
         leaveWork'[r] = w, \A q \in LeaveDesks \ {r} : leaveWork'[q] = leaveWork[q], w.do # "carry"
  PROVE  CyclesOnce'
BY DEF CyclesOnce

LEMMA BalancesKept ==
  ASSUME BalancesSound, UNCHANGED <<balance, carried, settlement, staleYears>>
  PROVE  BalancesSound'
BY DEF BalancesSound, BalanceSound, SettledDays, YearOfDay, FullySettled, Anniversary

(* A desk whose work ends, and nothing else *)
LEMMA DoneInv ==
  ASSUME LeavesInv, NEW r \in LeaveDesks, LetGo(r),
         UNCHANGED <<leaveDay, leave, balance, carried, settlement, staleYears, together>>
  PROVE  LeavesInv'
<1>1. /\ WorksTyped' /\ leaveWork'[r] = NoWork
      /\ \A q \in LeaveDesks \ {r} : leaveWork'[q] = leaveWork[q]
  BY WorkStep, WorkNames DEF LetGo, LeavesInv
<1>2. NoWork.do \notin LeaveTypes /\ ~Decides(NoWork) /\ NoWork.do # "carry"
  BY WorkNames DEF Decides, Works
<1>3. LeaveTabled'
  BY DEF LeavesInv, LeaveTabled
<1> QED
  BY <1>1, <1>2, <1>3, ApartBeside, CyclesBeside, BalancesKept DEF LeavesInv

(* A desk that takes up work other than requests, decisions and cycles *)
LEMMA HoldInv ==
  ASSUME LeavesInv, NEW r \in LeaveDesks, NEW w \in Work, WorkSound(w),
         leaveWork' = [leaveWork EXCEPT ![r] = w], w.do \in {"setBalance", "FULL", "PARTIAL"},
         UNCHANGED <<leaveDay, leave, balance, carried, settlement, staleYears, together>>
  PROVE  LeavesInv'
<1>1. /\ WorksTyped' /\ leaveWork'[r] = w
      /\ \A q \in LeaveDesks \ {r} : leaveWork'[q] = leaveWork[q]
  BY WorkStep DEF LeavesInv
<1>2. w.do \notin LeaveTypes /\ ~Decides(w) /\ w.do # "carry"
  BY WorkNames DEF Decides, Works
<1>3. LeaveTabled'
  BY DEF LeavesInv, LeaveTabled
<1> QED
  BY <1>1, <1>2, <1>3, ApartBeside, CyclesBeside, BalancesKept DEF LeavesInv

-----------------------------------------------------------------------------
(* A balance that is made where there is none *)
LEMMA MadeBalanceSound ==
  ASSUME LeaveTabled, BalancesSound, NEW type, NEW y \in YearsOf, balance' = MadeBalance(type, y),
         UNCHANGED <<carried, settlement, staleYears>>
  PROVE  balance' \in [YearsOf -> BalanceRow] /\ BalancesSound'
<1>1. CASE balance' = balance
  BY <1>1, BalancesKept DEF LeaveTabled
<1>2. CASE balance' = [balance EXCEPT ![y] = BalanceOf(y)]
  <2>1. PICK row : row = BalanceOf(y)
    OBVIOUS
  <2>2. /\ row \in BalanceRow /\ row.exists /\ row.consumed = balance[y].consumed
        /\ row.carriedOver <= MaxCarry /\ (balance[y].exists => row = balance[y])
    BY <2>1, BalanceOfRow
  <2>3. /\ balance' \in [YearsOf -> BalanceRow] /\ balance'[y] = row
        /\ \A z \in YearsOf \ {y} : balance'[z] = balance[z]
    BY <1>2, <2>1, <2>2 DEF LeaveTabled
  <2>4. ASSUME NEW z \in YearsOf PROVE BalanceSound(z)'
    <3>1. BalanceSound(z) /\ SettledDays(z)' = SettledDays(z) /\ FullySettled' = FullySettled
      BY DEF BalancesSound, SettledDays, YearOfDay, FullySettled
    <3>2. CASE z # y
      BY <2>3, <3>1, <3>2 DEF BalanceSound, Anniversary, YearOfDay
    <3>3. CASE z = y
      BY <2>2, <2>3, <3>1, <3>3 DEF BalanceSound, Anniversary, YearOfDay
    <3> QED
      BY <3>2, <3>3
  <2> QED
    BY <2>3, <2>4 DEF BalancesSound
<1> QED
  BY <1>1, <1>2 DEF MadeBalance

LEMMA CheckRequestInv ==
  ASSUME LeavesInv, NEW r \in LeaveDesks, NEW type \in LeaveTypes, NEW days \in Spans,
         CheckRequest(r, type, days[1], days[2])
  PROVE  LeavesInv'
<1>1. PICK from, to : from = days[1] /\ to = days[2]
  OBVIOUS
<1>2. from \in LeaveDays /\ to \in LeaveDays /\ from \in Nat /\ to \in Nat
  BY <1>1, LeaveConstants DEF LeaveDays
<1>3. PICK w : w = [do |-> type, on |-> from, row |-> NoBalance, n |-> to]
  OBVIOUS
<1>4. w \in Work /\ w.do = type /\ w.on = from /\ w.n = to /\ w.row = NoBalance
  BY <1>2, <1>3, HeldWork, NoBalanceRow
<1>5. type \notin Works
  BY WorkNames
<1>6. WorkSound(w)
  BY <1>2, <1>4, <1>5, NoBalanceRow, LeaveConstants DEF WorkSound, Works
<1>7. /\ leaveWork' = [leaveWork EXCEPT ![r] = w]
      /\ Askable(from, to) /\ balance' = MadeBalance(type, YearOfDay(from))
      /\ together' = IF \E q \in LeaveDesks : leaveWork[q].do \in LeaveTypes
                     THEN together \cup {"requests"} ELSE together
      /\ UNCHANGED <<leaveDay, leave, carried, settlement, staleYears>>
  BY <1>1, <1>3 DEF CheckRequest, Hold
<1>8. /\ WorksTyped' /\ leaveWork'[r] = w
      /\ \A q \in LeaveDesks \ {r} : leaveWork'[q] = leaveWork[q]
  BY <1>4, <1>6, <1>7, WorkStep DEF LeavesInv
<1>9. balance' \in [YearsOf -> BalanceRow] /\ BalancesSound'
  BY <1>2, <1>7, YearInYears, MadeBalanceSound DEF LeavesInv
<1>10. LeaveTabled'
  BY <1>7, <1>9 DEF LeavesInv, LeaveTabled
<1>11. CyclesOnce'
  <2>1. w.do # "carry" /\ together \subseteq together'
    BY <1>4, <1>5, <1>7 DEF Works
  <2> QED
    BY <1>7, <1>8, <2>1, CyclesBeside DEF LeavesInv
<1>12. RequestsApart'
  <2>1. ~Decides(w) /\ Standing' = Standing
    BY <1>4, <1>5, <1>7 DEF Decides, Works, Standing
  <2>2. \A l \in Standing : ~Overlaps(l, from, to)
    BY <1>7 DEF Askable
  <2>3. SUFFICES ASSUME together' \cap {"requests", "decisions"} = {} PROVE RequestsApart'
    BY DEF RequestsApart
  <2>4. (\A q \in LeaveDesks : leaveWork[q].do \notin LeaveTypes) /\ together' = together
    BY <1>7, <2>3
  <2> QED
    BY <1>4, <1>7, <1>8, <2>1, <2>2, <2>3, <2>4 DEF LeavesInv, RequestsApart, Overlaps, Decides
<1> QED
  BY <1>8, <1>9, <1>10, <1>11, <1>12 DEF LeavesInv

LEMMA DenyRequestInv ==
  ASSUME LeavesInv, NEW type \in LeaveTypes, NEW days \in Spans, DenyRequest(type, days[1], days[2])
  PROVE  LeavesInv'
<1>1. /\ balance' = MadeBalance(type, YearOfDay(days[1]))
      /\ UNCHANGED <<leaveDay, leave, carried, settlement, leaveWork, staleYears, together>>
  BY DEF DenyRequest
<1>2. days[1] \in LeaveDays
  BY LeaveConstants
<1>3. balance' \in [YearsOf -> BalanceRow] /\ BalancesSound'
  BY <1>1, <1>2, YearInYears, MadeBalanceSound DEF LeavesInv
<1>4. LeaveTabled' /\ WorksTyped'
  BY <1>1, <1>3 DEF LeavesInv, LeaveTabled, WorksTyped
<1> QED
  BY <1>1, <1>3, <1>4, ApartKept, CyclesKept DEF LeavesInv

LEMMA SaveRequestInv ==
  ASSUME LeavesInv, NEW r \in LeaveDesks, NEW l \in LeaveRequests, SaveRequest(r, l)
  PROVE  LeavesInv'
<1>1. PICK w : w = leaveWork[r]
  OBVIOUS
<1>2. PICK row : row = [status |-> "pending", type |-> w.do, from |-> w.on, to |-> w.n]
  OBVIOUS
<1>3. /\ w.do \in LeaveTypes /\ leave[l].status = "none" /\ leave' = [leave EXCEPT ![l] = row]
      /\ LetGo(r) /\ UNCHANGED <<leaveDay, balance, carried, settlement, staleYears, together>>
  BY <1>1, <1>2 DEF SaveRequest
<1>4. w.on \in LeaveDays /\ w.n \in LeaveDays
  BY <1>1, <1>3 DEF LeavesInv, WorksTyped, WorkSound
<1>5. row \in LeaveRow /\ row.status = "pending" /\ row.from = w.on /\ row.to = w.n
  BY <1>2, <1>3, <1>4 DEF LeaveRow
<1>6. /\ leave' \in [LeaveRequests -> LeaveRow] /\ leave'[l] = row
      /\ \A o \in LeaveRequests \ {l} : leave'[o] = leave[o]
  BY <1>3, <1>5 DEF LeavesInv, LeaveTabled
<1>7. /\ WorksTyped' /\ leaveWork'[r] = NoWork
      /\ \A q \in LeaveDesks \ {r} : leaveWork'[q] = leaveWork[q]
  BY <1>3, WorkStep, WorkNames DEF LetGo, LeavesInv
<1>8. NoWork.do \notin LeaveTypes /\ ~Decides(NoWork) /\ NoWork.do # "carry"
  BY WorkNames DEF Decides, Works
<1>9. LeaveTabled'
  BY <1>3, <1>6 DEF LeavesInv, LeaveTabled
<1>10. CyclesOnce' /\ BalancesSound'
  BY <1>3, <1>7, <1>8, CyclesBeside, BalancesKept DEF LeavesInv
<1>11. RequestsApart'
  <2>1. SUFFICES ASSUME together \cap {"requests", "decisions"} = {} PROVE RequestsApart'
    BY <1>3 DEF RequestsApart
  <2>2. l \notin Standing /\ Standing' = Standing \cup {l}
    BY <1>3, <1>5, <1>6 DEF Standing
  <2>3. /\ \A o, other \in Standing : o # other => ~Overlaps(o, leave[other].from, leave[other].to)
        /\ \A q \in LeaveDesks : leaveWork[q].do \in LeaveTypes => r = q
        /\ \A o \in Standing : ~Overlaps(o, w.on, w.n)
        /\ \A p, q \in LeaveDesks :
             Decides(leaveWork[p]) /\ Decides(leaveWork[q]) /\ leaveWork[p].on = leaveWork[q].on => p = q
        /\ \A q \in LeaveDesks : Decides(leaveWork[q]) => leaveWork[q].on \in Standing
    BY <1>1, <1>3, <2>1 DEF LeavesInv, RequestsApart
  <2>4. \A o \in Standing : o \in LeaveRequests \ {l} /\ leave'[o] = leave[o]
    BY <1>6, <2>2 DEF Standing
  <2>5. \A o \in Standing : w.n \in Nat /\ w.on \in Nat /\ leave[o].from \in Nat /\ leave[o].to \in Nat
    BY <1>4, <2>4, LeaveRowFields, LeaveConstants DEF LeavesInv, LeaveDays
  <2>6. \A o, other \in Standing' : o # other => ~Overlaps(o, leave[other].from, leave[other].to)'
    <3>1. SUFFICES ASSUME NEW o \in Standing \cup {l}, NEW other \in Standing \cup {l}, o # other
                   PROVE  ~(leave'[o].from <= leave'[other].to /\ leave'[o].to >= leave'[other].from)
      BY <2>2 DEF Overlaps
    <3>2. CASE o # l /\ other # l
      BY <2>3, <2>4, <3>1, <3>2 DEF Overlaps
    <3>3. CASE o = l
      BY <1>5, <1>6, <2>3, <2>4, <2>5, <3>1, <3>3 DEF Overlaps
    <3>4. CASE other = l
      BY <1>5, <1>6, <2>3, <2>4, <3>1, <3>4 DEF Overlaps
    <3> QED
      BY <3>2, <3>3, <3>4
  <2>7. \A q \in LeaveDesks : leaveWork'[q].do \notin LeaveTypes
    BY <1>7, <1>8, <2>3
  <2>8. /\ \A p, q \in LeaveDesks :
             Decides(leaveWork'[p]) /\ Decides(leaveWork'[q]) /\ leaveWork'[p].on = leaveWork'[q].on => p = q
        /\ \A q \in LeaveDesks : Decides(leaveWork'[q]) => leaveWork'[q].on \in Standing'
    BY <1>7, <1>8, <2>2, <2>3
  <2> QED
    BY <2>6, <2>7, <2>8 DEF RequestsApart, Decides, Overlaps
<1> QED
  BY <1>7, <1>9, <1>10, <1>11 DEF LeavesInv

LEMMA CheckDecisionInv ==
  ASSUME LeavesInv, NEW r \in LeaveDesks, NEW l \in LeaveRequests, NEW status \in {"approved", "rejected"},
         CheckDecision(r, l, status)
  PROVE  LeavesInv'
<1>1. PICK w : w = [do |-> status, on |-> l, row |-> NoBalance, n |-> 0]
  OBVIOUS
<1>2. status \in Works
  BY DEF Works
<1>3. w \in Work /\ w.do = status /\ w.on = l /\ w.row = NoBalance
  BY <1>1, <1>2, HeldWork, NoBalanceRow
<1>4. status \notin LeaveTypes
  BY <1>2, WorkNames
<1>5. WorkSound(w)
  BY <1>3, <1>4, NoBalanceRow, LeaveConstants DEF WorkSound
<1>6. /\ leaveWork' = [leaveWork EXCEPT ![r] = w] /\ l \in Standing
      /\ together' = IF \E q \in LeaveDesks : Decides(leaveWork[q]) /\ leaveWork[q].on = l
                     THEN together \cup {"decisions"} ELSE together
      /\ UNCHANGED <<leaveDay, leave, balance, carried, settlement, staleYears>>
  BY <1>1 DEF CheckDecision, Hold, Decides, LeaveDecisions, Standing
<1>7. /\ WorksTyped' /\ leaveWork'[r] = w
      /\ \A q \in LeaveDesks \ {r} : leaveWork'[q] = leaveWork[q]
  BY <1>3, <1>5, <1>6, WorkStep DEF LeavesInv
<1>8. LeaveTabled'
  BY <1>6 DEF LeavesInv, LeaveTabled
<1>9. CyclesOnce' /\ BalancesSound'
  <2>1. w.do # "carry" /\ together \subseteq together'
    BY <1>3, <1>6
  <2> QED
    BY <1>6, <1>7, <2>1, CyclesBeside, BalancesKept DEF LeavesInv
<1>10. RequestsApart'
  <2>1. Standing' = Standing
    BY <1>6 DEF Standing
  <2>2. SUFFICES ASSUME together' \cap {"requests", "decisions"} = {} PROVE RequestsApart'
    BY DEF RequestsApart
  <2>3. (\A q \in LeaveDesks : ~(Decides(leaveWork[q]) /\ leaveWork[q].on = l)) /\ together' = together
    BY <1>6, <2>2
  <2> QED
    BY <1>3, <1>4, <1>6, <1>7, <2>1, <2>2, <2>3 DEF LeavesInv, RequestsApart, Overlaps, Decides
<1> QED
  BY <1>7, <1>8, <1>9, <1>10 DEF LeavesInv

LEMMA SaveDecisionInv ==
  ASSUME LeavesInv, NEW r \in LeaveDesks, SaveDecision(r)
  PROVE  LeavesInv'
<1>1. PICK w, l : w = leaveWork[r] /\ l = w.on
  OBVIOUS
<1>2. /\ Decides(w) /\ leave' = [leave EXCEPT ![l].status = w.do]
      /\ LetGo(r) /\ UNCHANGED <<leaveDay, balance, carried, settlement, staleYears, together>>
  BY <1>1 DEF SaveDecision, Decides
<1>3. l \in LeaveRequests /\ leave \in [LeaveRequests -> LeaveRow]
  BY <1>1, <1>2 DEF LeavesInv, WorksTyped, WorkSound, Decides, LeaveTabled
<1>4. PICK row : row = [leave[l] EXCEPT !.status = w.do]
  OBVIOUS
<1>5. /\ row \in LeaveRow /\ row.status = w.do /\ row.from = leave[l].from /\ row.to = leave[l].to
  BY <1>2, <1>3, <1>4 DEF LeaveRow, Decides
<1>6. /\ leave' \in [LeaveRequests -> LeaveRow] /\ leave'[l] = row
      /\ \A o \in LeaveRequests \ {l} : leave'[o] = leave[o]
  BY <1>2, <1>3, <1>4, <1>5
<1>7. /\ WorksTyped' /\ leaveWork'[r] = NoWork
      /\ \A q \in LeaveDesks \ {r} : leaveWork'[q] = leaveWork[q]
  BY <1>2, WorkStep, WorkNames DEF LetGo, LeavesInv
<1>8. NoWork.do \notin LeaveTypes /\ ~Decides(NoWork) /\ NoWork.do # "carry"
  BY WorkNames DEF Decides, Works
<1>9. LeaveTabled'
  BY <1>2, <1>6 DEF LeavesInv, LeaveTabled
<1>10. CyclesOnce' /\ BalancesSound'
  BY <1>2, <1>7, <1>8, CyclesBeside, BalancesKept DEF LeavesInv
<1>11. RequestsApart'
  <2>1. SUFFICES ASSUME together \cap {"requests", "decisions"} = {} PROVE RequestsApart'
    BY <1>2 DEF RequestsApart
  <2>2. /\ \A o, other \in Standing : o # other => ~Overlaps(o, leave[other].from, leave[other].to)
        /\ \A p, q \in LeaveDesks : leaveWork[p].do \in LeaveTypes /\ leaveWork[q].do \in LeaveTypes => p = q
        /\ \A q \in LeaveDesks : leaveWork[q].do \in LeaveTypes =>
             \A o \in Standing : ~Overlaps(o, leaveWork[q].on, leaveWork[q].n)
        /\ \A p, q \in LeaveDesks :
             Decides(leaveWork[p]) /\ Decides(leaveWork[q]) /\ leaveWork[p].on = leaveWork[q].on => p = q
        /\ \A q \in LeaveDesks : Decides(leaveWork[q]) => leaveWork[q].on \in Standing
    BY <2>1 DEF LeavesInv, RequestsApart
  <2>3. l \in Standing
    BY <1>1, <1>2, <2>2
  <2>4. Standing' \subseteq Standing /\ Standing \ {l} \subseteq Standing'
    BY <1>6, <2>3 DEF Standing
  <2>5. \A o \in LeaveRequests : leave'[o].from = leave[o].from /\ leave'[o].to = leave[o].to
    BY <1>5, <1>6
  <2>6. Standing \subseteq LeaveRequests
    BY DEF Standing
  <2>7. \A o, other \in Standing' : o # other => ~Overlaps(o, leave[other].from, leave[other].to)'
    BY <2>2, <2>4, <2>5, <2>6 DEF Overlaps
  <2>8. /\ \A p, q \in LeaveDesks : leaveWork'[p].do \in LeaveTypes /\ leaveWork'[q].do \in LeaveTypes => p = q
        /\ \A q \in LeaveDesks : leaveWork'[q].do \in LeaveTypes =>
             \A o \in Standing' : ~(leave'[o].from <= leaveWork'[q].n /\ leave'[o].to >= leaveWork'[q].on)
    BY <1>7, <1>8, <2>2, <2>4, <2>5, <2>6 DEF Overlaps
  <2>9. \A q \in LeaveDesks \ {r} : Decides(leaveWork[q]) => leaveWork[q].on \in Standing \ {l}
    BY <1>1, <1>2, <2>2
  <2>10. /\ \A p, q \in LeaveDesks :
              Decides(leaveWork'[p]) /\ Decides(leaveWork'[q]) /\ leaveWork'[p].on = leaveWork'[q].on => p = q
         /\ \A q \in LeaveDesks : Decides(leaveWork'[q]) => leaveWork'[q].on \in Standing'
    BY <1>7, <1>8, <2>2, <2>4, <2>9
  <2> QED
    BY <2>7, <2>8, <2>10 DEF RequestsApart, Decides, Overlaps
<1> QED
  BY <1>7, <1>9, <1>10, <1>11 DEF LeavesInv

-----------------------------------------------------------------------------
LEMMA BeginSetBalanceInv ==
  ASSUME LeavesInv, NEW r \in LeaveDesks, NEW y \in YearsOf, NEW n \in Allowances, BeginSetBalance(r, y, n)
  PROVE  LeavesInv'
<1>1. PICK w : w = [do |-> "setBalance", on |-> y, row |-> balance[y], n |-> n]
  OBVIOUS
<1>2. /\ "setBalance" \in Works /\ y \in Nat /\ n \in Int
      /\ balance[y] \in BalanceRow /\ balance[y].carriedOver <= MaxCarry
  BY LeaveConstants DEF Works, YearsOf, LeavesInv, LeaveTabled, BalancesSound, BalanceSound
<1>3. w \in Work /\ w.do = "setBalance" /\ w.on = y /\ w.row = balance[y]
  BY <1>1, <1>2, HeldWork
<1>4. WorkSound(w)
  BY <1>2, <1>3, WorkNames DEF WorkSound
<1>5. /\ leaveWork' = [leaveWork EXCEPT ![r] = w]
      /\ UNCHANGED <<leaveDay, leave, balance, carried, settlement, staleYears, together>>
  BY <1>1 DEF BeginSetBalance, Hold
<1> QED
  BY <1>3, <1>4, <1>5, HoldInv

LEMMA CheckSettlementInv ==
  ASSUME LeavesInv, NEW r \in LeaveDesks, NEW type \in {"FULL", "PARTIAL"}, NEW date \in Dates, NEW n \in 1..2,
         CheckSettlement(r, type, date, n)
  PROVE  LeavesInv'
<1>1. PICK w : w = [do |-> type, on |-> date, row |-> NoBalance, n |-> n]
  OBVIOUS
<1>2. type \in Works /\ date \in LeaveDays /\ date \in Nat /\ n \in Int
  BY LeaveConstants DEF Works, LeaveDays
<1>3. w \in Work /\ w.do = type /\ w.on = date /\ w.row = NoBalance
  BY <1>1, <1>2, HeldWork, NoBalanceRow
<1>4. WorkSound(w)
  BY <1>2, <1>3, WorkNames, NoBalanceRow, LeaveConstants DEF WorkSound
<1>5. /\ leaveWork' = [leaveWork EXCEPT ![r] = w]
      /\ UNCHANGED <<leaveDay, leave, balance, carried, settlement, staleYears, together>>
  BY <1>1 DEF CheckSettlement, Hold
<1> QED
  BY <1>3, <1>4, <1>5, HoldInv

(* A row that replaces the balance of a year: it was written from the row as it *)
(* is, or the year is stale                                                      *)
LEMMA WrittenBalance ==
  ASSUME LeaveTabled, BalancesSound, NEW y \in YearsOf, NEW row \in BalanceRow,
         balance' = [balance EXCEPT ![y] = row], row.exists, row.carriedOver <= MaxCarry,
         y \notin staleYears' => row.consumed = SettledDays(y)',
         y \notin staleYears' /\ carried'[y] > 0 => row.start >= Anniversary(y) \/ FullySettled',
         \A z \in YearsOf \ {y} : SettledDays(z)' = SettledDays(z) /\ carried'[z] = carried[z],
         FullySettled => FullySettled', staleYears \subseteq staleYears', staleYears' \subseteq staleYears \cup {y}
  PROVE  balance' \in [YearsOf -> BalanceRow] /\ BalancesSound'
<1>1. /\ balance' \in [YearsOf -> BalanceRow] /\ balance'[y] = row
      /\ \A z \in YearsOf \ {y} : balance'[z] = balance[z]
  BY DEF LeaveTabled
<1>2. ASSUME NEW z \in YearsOf PROVE BalanceSound(z)'
  <2>1. CASE z = y
    BY <1>1, <2>1 DEF BalanceSound, Anniversary, YearOfDay
  <2>2. CASE z # y
    <3>1. BalanceSound(z) /\ balance'[z] = balance[z] /\ SettledDays(z)' = SettledDays(z) /\ carried'[z] = carried[z]
          /\ (z \notin staleYears' => z \notin staleYears)
      BY <1>1, <2>2 DEF BalancesSound
    <3> QED
      BY <3>1 DEF BalanceSound, Anniversary, YearOfDay
  <2> QED
    BY <2>1, <2>2
<1> QED
  BY <1>1, <1>2 DEF BalancesSound

LEMMA SetBalanceInv ==
  ASSUME LeavesInv, NEW r \in LeaveDesks, SetBalance(r)
  PROVE  LeavesInv'
<1>1. PICK w, y, read : w = leaveWork[r] /\ y = w.on /\ read = w.row
  OBVIOUS
<1>2. PICK row : row = IF read.exists THEN [read EXCEPT !.allowance = w.n] ELSE NewBalance(w.n)
  OBVIOUS
<1>3. /\ w.do = "setBalance" /\ balance' = [balance EXCEPT ![y] = row]
      /\ staleYears' = IF balance[y] = read THEN staleYears ELSE staleYears \cup {y}
      /\ LetGo(r) /\ UNCHANGED <<leaveDay, leave, carried, settlement, together>>
  BY <1>1, <1>2 DEF SetBalance, WriteBack
<1>4. y \in YearsOf /\ read \in BalanceRow /\ read.carriedOver <= MaxCarry /\ w.n \in Int
  BY <1>1, <1>3 DEF LeavesInv, WorksTyped, WorkSound, Work
<1>5. /\ row \in BalanceRow /\ row.exists /\ row.carriedOver <= MaxCarry
      /\ read.exists => row.consumed = read.consumed /\ row.start = read.start
      /\ ~read.exists => row.consumed = 0
  <2>1. CASE read.exists
    BY <1>2, <1>4, <2>1 DEF BalanceRow
  <2>2. CASE ~read.exists
    BY <1>2, <1>4, <2>2, NewBalanceRow, LeaveConstants
  <2> QED
    BY <2>1, <2>2
<1>6. BalanceSound(y)
  BY <1>4 DEF LeavesInv, BalancesSound
<1>7. /\ \A z \in YearsOf : SettledDays(z)' = SettledDays(z)
      /\ FullySettled' <=> FullySettled
  BY <1>3 DEF SettledDays, YearOfDay, FullySettled
<1>8. y \notin staleYears' => balance[y] = read /\ y \notin staleYears
  BY <1>3
<1>9. y \notin staleYears' => row.consumed = SettledDays(y)'
  <2>1. SUFFICES ASSUME y \notin staleYears' PROVE row.consumed = SettledDays(y)
    BY <1>4, <1>7
  <2>2. balance[y].consumed = SettledDays(y) /\ (~balance[y].exists => balance[y] = NoBalance)
    BY <1>6, <1>8, <2>1 DEF BalanceSound
  <2> QED
    BY <1>5, <1>8, <2>1, <2>2, NoBalanceRow
<1>10. y \notin staleYears' /\ carried'[y] > 0 => row.start >= Anniversary(y) \/ FullySettled'
  BY <1>3, <1>5, <1>6, <1>7, <1>8 DEF BalanceSound
<1>11. balance' \in [YearsOf -> BalanceRow] /\ BalancesSound'
  BY <1>3, <1>4, <1>5, <1>7, <1>9, <1>10, WrittenBalance DEF LeavesInv
<1>12. /\ WorksTyped' /\ leaveWork'[r] = NoWork
       /\ \A q \in LeaveDesks \ {r} : leaveWork'[q] = leaveWork[q]
  BY <1>3, WorkStep, WorkNames DEF LetGo, LeavesInv
<1>13. NoWork.do \notin LeaveTypes /\ ~Decides(NoWork) /\ NoWork.do # "carry"
  BY WorkNames DEF Decides, Works
<1>14. LeaveTabled'
  BY <1>3, <1>11 DEF LeavesInv, LeaveTabled
<1> QED
  BY <1>3, <1>11, <1>12, <1>13, <1>14, ApartBeside, CyclesBeside DEF LeavesInv

LEMMA CarryOfType ==
  ASSUME LeaveTabled, NEW y \in YearsOf, y - 1 \in YearsOf, Anniversary(y) \in LeaveDays
  PROVE  CarryOf(y) \in Int /\ CarryOf(y) <= MaxCarry
<1>1. PICK before : before = IF balance[y - 1].exists THEN balance[y - 1] ELSE NewBalance(0)
  OBVIOUS
<1>2. before \in BalanceRow
  BY <1>1, NewBalanceRow DEF LeaveTabled
<1>3. PICK row : row = [before EXCEPT !.allowance = Contracted]
  OBVIOUS
<1>4. row \in BalanceRow
  BY <1>2, <1>3, LeaveConstants DEF BalanceRow
<1>5. Available(row, Anniversary(y)) \in Nat
  BY <1>4, AvailableType
<1>6. CarryOf(y) = AtMost(Available(row, Anniversary(y)), MaxCarry)
  BY <1>1, <1>3 DEF CarryOf
<1> QED
  BY <1>5, <1>6, LeaveConstants DEF AtMost

LEMMA BeginCarryOverInv ==
  ASSUME LeavesInv, NEW r \in LeaveDesks, NEW y \in YearsOf, BeginCarryOver(r, y)
  PROVE  LeavesInv'
<1>1. /\ carried[y] = 0 /\ Anniversary(y) \in LeaveDays /\ y - 1 \in YearsOf
  BY AnniversaryInDays DEF BeginCarryOver, DueCycles, LeavesInv, LeaveTabled
<1>2. PICK w : w = [do |-> "carry", on |-> y, row |-> balance[y], n |-> CarryOf(y)]
  OBVIOUS
<1>3. /\ "carry" \in Works /\ y \in Nat /\ CarryOf(y) \in Int /\ CarryOf(y) <= MaxCarry
      /\ balance[y] \in BalanceRow /\ balance[y].carriedOver <= MaxCarry
  BY <1>1, CarryOfType, LeaveConstants DEF Works, YearsOf, LeavesInv, LeaveTabled, BalancesSound, BalanceSound
<1>4. w \in Work /\ w.do = "carry" /\ w.on = y /\ w.row = balance[y] /\ w.n = CarryOf(y)
  BY <1>2, <1>3, HeldWork
<1>5. WorkSound(w)
  BY <1>1, <1>3, <1>4, WorkNames DEF WorkSound
<1>6. /\ leaveWork' = [leaveWork EXCEPT ![r] = w]
      /\ together' = IF \E q \in LeaveDesks : leaveWork[q].do = "carry" /\ leaveWork[q].on = y
                     THEN together \cup {"cycles"} ELSE together
      /\ UNCHANGED <<leaveDay, leave, balance, carried, settlement, staleYears>>
  BY <1>2 DEF BeginCarryOver, Hold
<1>7. /\ WorksTyped' /\ leaveWork'[r] = w
      /\ \A q \in LeaveDesks \ {r} : leaveWork'[q] = leaveWork[q]
  BY <1>4, <1>5, <1>6, WorkStep DEF LeavesInv
<1>8. LeaveTabled' /\ BalancesSound'
  BY <1>6, BalancesKept DEF LeavesInv, LeaveTabled
<1>9. RequestsApart'
  <2>1. w.do \notin LeaveTypes /\ ~Decides(w) /\ together \subseteq together'
    BY <1>3, <1>4, <1>6, WorkNames DEF Decides
  <2> QED
    BY <1>6, <1>7, <2>1, ApartBeside DEF LeavesInv
<1>10. CyclesOnce'
  <2>1. SUFFICES ASSUME "cycles" \notin together' PROVE CyclesOnce'
    BY DEF CyclesOnce
  <2>2. (\A q \in LeaveDesks : ~(leaveWork[q].do = "carry" /\ leaveWork[q].on = y)) /\ together' = together
    BY <1>6, <2>1
  <2> QED
    BY <1>1, <1>4, <1>6, <1>7, <2>1, <2>2 DEF LeavesInv, CyclesOnce
<1> QED
  BY <1>7, <1>8, <1>9, <1>10 DEF LeavesInv

LEMMA CarryOverInv ==
  ASSUME LeavesInv, NEW r \in LeaveDesks, CarryOver(r)
  PROVE  LeavesInv'
<1>1. PICK w, y, read : w = leaveWork[r] /\ y = w.on /\ read = w.row
  OBVIOUS
<1>2. PICK onto : onto = CarriedOnto(read)
  OBVIOUS
<1>3. PICK row : row = [onto EXCEPT !.carriedOver = w.n, !.start = Anniversary(y)]
  OBVIOUS
<1>4. /\ w.do = "carry" /\ balance' = [balance EXCEPT ![y] = row]
      /\ staleYears' = IF balance[y] = read THEN staleYears ELSE staleYears \cup {y}
      /\ carried' = [carried EXCEPT ![y] = @ + 1]
      /\ LetGo(r) /\ UNCHANGED <<leaveDay, leave, settlement, together>>
  BY <1>1, <1>2, <1>3 DEF CarryOver
<1>5. /\ y \in YearsOf /\ read \in BalanceRow /\ w.n \in Int /\ w.n <= MaxCarry /\ Anniversary(y) \in LeaveDays
  BY <1>1, <1>4 DEF LeavesInv, WorksTyped, WorkSound, Work
<1>6. /\ onto \in BalanceRow /\ onto.exists
      /\ read.exists => onto = read
      /\ ~read.exists => onto.consumed = 0
  BY <1>2, <1>5, NewBalanceRow, LeaveConstants DEF CarriedOnto
<1>7. /\ row \in BalanceRow /\ row.exists /\ row.carriedOver = w.n /\ row.consumed = onto.consumed
      /\ row.start = Anniversary(y)
  BY <1>3, <1>5, <1>6 DEF BalanceRow
<1>8. BalanceSound(y)
  BY <1>5 DEF LeavesInv, BalancesSound
<1>9. /\ \A z \in YearsOf : SettledDays(z)' = SettledDays(z)
      /\ FullySettled' <=> FullySettled
  BY <1>4 DEF SettledDays, YearOfDay, FullySettled
<1>10. /\ carried' \in [YearsOf -> Nat] /\ carried'[y] = carried[y] + 1
       /\ \A z \in YearsOf \ {y} : carried'[z] = carried[z]
  BY <1>4, <1>5 DEF LeavesInv, LeaveTabled
<1>11. y \notin staleYears' => row.consumed = SettledDays(y)'
  <2>1. SUFFICES ASSUME y \notin staleYears' PROVE row.consumed = SettledDays(y)
    BY <1>5, <1>9
  <2>2. balance[y] = read /\ y \notin staleYears
    BY <1>4, <2>1
  <2>3. balance[y].consumed = SettledDays(y) /\ (~balance[y].exists => balance[y] = NoBalance)
    BY <1>8, <2>2 DEF BalanceSound
  <2> QED
    BY <1>6, <1>7, <2>2, <2>3, NoBalanceRow
<1>12. row.start >= Anniversary(y)
  BY <1>5, <1>7, LeaveConstants DEF LeaveDays
<1>13. balance' \in [YearsOf -> BalanceRow] /\ BalancesSound'
  BY <1>4, <1>5, <1>7, <1>9, <1>10, <1>11, <1>12, WrittenBalance DEF LeavesInv
<1>14. /\ WorksTyped' /\ leaveWork'[r] = NoWork
       /\ \A q \in LeaveDesks \ {r} : leaveWork'[q] = leaveWork[q]
  BY <1>4, WorkStep, WorkNames DEF LetGo, LeavesInv
<1>15. NoWork.do \notin LeaveTypes /\ ~Decides(NoWork) /\ NoWork.do # "carry"
  BY WorkNames DEF Decides, Works
<1>16. LeaveTabled'
  BY <1>4, <1>10, <1>13 DEF LeavesInv, LeaveTabled
<1>17. CyclesOnce'
  <2>1. SUFFICES ASSUME "cycles" \notin together PROVE CyclesOnce'
    BY <1>4 DEF CyclesOnce
  <2>2. /\ carried[y] = 0
        /\ \A q \in LeaveDesks : leaveWork[q].do = "carry" /\ leaveWork[q].on = y => q = r
        /\ \A z \in YearsOf : carried[z] <= 1
    BY <1>1, <1>4, <2>1 DEF LeavesInv, CyclesOnce
  <2>3. \A z \in YearsOf : carried'[z] <= 1
    BY <1>10, <2>2
  <2>4. ASSUME NEW q \in LeaveDesks, leaveWork'[q].do = "carry"
        PROVE  /\ carried'[leaveWork'[q].on] = 0
               /\ \A o \in LeaveDesks : leaveWork'[o].do = "carry" /\ leaveWork'[o].on = leaveWork'[q].on => o = q
    <3>1. q # r /\ leaveWork'[q] = leaveWork[q]
      BY <1>14, <1>15, <2>4
    <3>2. leaveWork[q].on \in YearsOf \ {y} /\ carried[leaveWork[q].on] = 0
      BY <2>1, <2>2, <2>4, <3>1 DEF LeavesInv, CyclesOnce, WorksTyped, WorkSound
    <3>3. \A o \in LeaveDesks : leaveWork[o].do = "carry" /\ leaveWork[o].on = leaveWork[q].on => o = q
      BY <2>1, <2>4, <3>1 DEF LeavesInv, CyclesOnce
    <3> QED
      BY <1>10, <1>14, <1>15, <3>1, <3>2, <3>3
  <2> QED
    BY <2>3, <2>4 DEF CyclesOnce
<1> QED
  BY <1>4, <1>13, <1>14, <1>15, <1>16, <1>17, ApartBeside DEF LeavesInv

LEMMA SettleInv ==
  ASSUME LeavesInv, NEW r \in LeaveDesks, NEW s \in Settlements, Settle(r, s)
  PROVE  LeavesInv'
<1>1. PICK w, date, y, type : w = leaveWork[r] /\ date = w.on /\ y = YearOfDay(date) /\ type = w.do
  OBVIOUS
<1>2. PICK row : row = BalanceOf(y)
  OBVIOUS
<1>3. PICK days : days = IF type = "FULL" THEN Available(row, date) ELSE w.n
  OBVIOUS
<1>4. PICK settled : settled = [row EXCEPT !.consumed = @ + days]
  OBVIOUS
<1>5. PICK new : new = IF type = "FULL" THEN [settled EXCEPT !.start = date, !.carriedOver = 0] ELSE settled
  OBVIOUS
<1>6. PICK paid : paid = [type |-> type, date |-> date, days |-> days, from |-> row.start]
  OBVIOUS
<1>7. /\ type \in {"FULL", "PARTIAL"} /\ settlement[s].type = "none"
      /\ balance' = [balance EXCEPT ![y] = new]
      /\ settlement' = [settlement EXCEPT ![s] = paid]
      /\ LetGo(r) /\ UNCHANGED <<leaveDay, leave, carried, staleYears, together>>
  BY <1>1, <1>2, <1>3, <1>4, <1>5, <1>6 DEF Settle
<1>8. date \in LeaveDays /\ y \in YearsOf /\ w.n \in Int
  BY <1>1, <1>7, YearInYears DEF LeavesInv, WorksTyped, WorkSound, Work
<1>9. /\ row \in BalanceRow /\ row.exists /\ row.consumed = balance[y].consumed /\ row.carriedOver <= MaxCarry
      /\ balance[y].exists => row = balance[y]
  BY <1>2, <1>8, BalanceOfRow DEF LeavesInv
<1>10. days \in Int /\ row.consumed \in Int /\ row.start \in LeaveDays
  BY <1>3, <1>8, <1>9, AvailableType, BalanceRowFields DEF LeavesInv
<1>11. /\ settled \in BalanceRow /\ settled.exists /\ settled.consumed = row.consumed + days
       /\ settled.start = row.start /\ settled.carriedOver = row.carriedOver
  <2>1. PICK n : n = row.consumed + days
    OBVIOUS
  <2>2. n \in Int /\ settled = [row EXCEPT !.consumed = n]
    BY <1>4, <1>10, <2>1
  <2> QED
    BY <1>9, <2>1, <2>2 DEF BalanceRow
<1>12. /\ new \in BalanceRow /\ new.exists /\ new.consumed = row.consumed + days /\ new.carriedOver <= MaxCarry
       /\ type # "FULL" => new.start = row.start
  <2>1. CASE type = "FULL"
    <3>1. new = [settled EXCEPT !.start = date, !.carriedOver = 0]
      BY <1>5, <2>1
    <3>2. 0 \in Int /\ 0 <= MaxCarry
      BY LeaveConstants
    <3>3. new \in BalanceRow /\ new.exists = settled.exists /\ new.consumed = settled.consumed /\ new.carriedOver = 0
      BY <1>8, <1>11, <3>1, <3>2 DEF BalanceRow
    <3> QED
      BY <1>11, <2>1, <3>2, <3>3
  <2>2. CASE type # "FULL"
    BY <1>5, <1>9, <1>11, <2>2
  <2> QED
    BY <2>1, <2>2
<1>13. paid \in SettlementRow /\ paid.type = type /\ paid.date = date /\ paid.days = days
  BY <1>6, <1>7, <1>8, <1>10 DEF SettlementRow
<1>14. /\ settlement' \in [Settlements -> SettlementRow] /\ settlement'[s] = paid
       /\ \A q \in Settlements \ {s} : settlement'[q] = settlement[q]
  BY <1>7, <1>13 DEF LeavesInv, LeaveTabled
<1>15. balance' \in [YearsOf -> BalanceRow]
  BY <1>7, <1>12 DEF LeavesInv, LeaveTabled
<1>16. LeaveTabled'
  BY <1>7, <1>14, <1>15 DEF LeavesInv, LeaveTabled
<1>17. \A z \in YearsOf : SettledDays(z)' = SettledDays(z) + (IF y = z THEN days ELSE 0)
  <2>1. paid.type # "none"
    BY <1>7, <1>13
  <2> QED
    BY <1>1, <1>7, <1>13, <1>16, <2>1, SettledChange DEF LeavesInv
<1>18. \A z \in YearsOf : SettledDays(z) \in Int
  BY SettledAddUp DEF SettledSums, SettledSum, LeavesInv
<1>19. /\ FullySettled => FullySettled'
       /\ type = "FULL" => FullySettled'
  BY <1>7, <1>13, <1>14 DEF FullySettled
<1>20. BalanceSound(y)
  BY <1>8 DEF LeavesInv, BalancesSound
<1>21. BalancesSound'
  <2>1. y \notin staleYears' => new.consumed = SettledDays(y)'
    BY <1>7, <1>8, <1>9, <1>10, <1>12, <1>17, <1>18, <1>20 DEF BalanceSound
  <2>2. y \notin staleYears' /\ carried'[y] > 0 => new.start >= Anniversary(y) \/ FullySettled'
    BY <1>7, <1>9, <1>12, <1>19, <1>20 DEF BalanceSound
  <2>3. \A z \in YearsOf \ {y} : SettledDays(z)' = SettledDays(z) /\ carried'[z] = carried[z]
    BY <1>7, <1>17, <1>18
  <2> QED
    BY <1>7, <1>8, <1>12, <1>19, <2>1, <2>2, <2>3, WrittenBalance DEF LeavesInv
<1>22. /\ WorksTyped' /\ leaveWork'[r] = NoWork
       /\ \A q \in LeaveDesks \ {r} : leaveWork'[q] = leaveWork[q]
  BY <1>7, WorkStep, WorkNames DEF LetGo, LeavesInv
<1>23. NoWork.do \notin LeaveTypes /\ ~Decides(NoWork) /\ NoWork.do # "carry"
  BY WorkNames DEF Decides, Works
<1> QED
  BY <1>7, <1>16, <1>21, <1>22, <1>23, ApartBeside, CyclesBeside DEF LeavesInv

-----------------------------------------------------------------------------
LEMMA TomorrowInv ==
  ASSUME LeavesInv, Tomorrow PROVE LeavesInv'
<1>1. /\ leaveDay' \in LeaveDays
      /\ UNCHANGED <<leave, balance, carried, settlement, leaveWork, staleYears, together>>
  BY LeaveConstants DEF Tomorrow, LeavesInv, LeaveTabled, LeaveDays
<1>2. LeaveTabled' /\ WorksTyped'
  BY <1>1 DEF LeavesInv, LeaveTabled, WorksTyped
<1> QED
  BY <1>1, <1>2, ApartKept, CyclesKept, BalancesKept DEF LeavesInv

LEMMA LeavesNextInv ==
  ASSUME LeavesInv, [LeavesNext]_leaveVars PROVE LeavesInv'
<1>1. CASE UNCHANGED leaveVars
  <2>1. UNCHANGED <<leaveDay, leave, balance, carried, settlement, leaveWork, staleYears, together>>
    BY <1>1 DEF leaveVars
  <2>2. LeaveTabled' /\ WorksTyped'
    BY <2>1 DEF LeavesInv, LeaveTabled, WorksTyped
  <2> QED
    BY <2>1, <2>2, ApartKept, CyclesKept, BalancesKept DEF LeavesInv
<1>2. CASE LeavesNext
  <2>1. ASSUME NEW r \in LeaveDesks, Refused(r) \/ Rejected(r) PROVE LeavesInv'
    BY <2>1, DoneInv DEF Refused, Rejected
  <2> QED
    BY <1>2, <2>1, CheckRequestInv, SaveRequestInv, CheckDecisionInv, SaveDecisionInv, BeginSetBalanceInv,
      SetBalanceInv, BeginCarryOverInv, CarryOverInv, CheckSettlementInv, SettleInv, DenyRequestInv, TomorrowInv
      DEF LeavesNext
<1> QED
  BY <1>1, <1>2

(* Leaves are apart, balances say what was settled and cycles are carried over *)
(* once, whatever the numbers of requests, years, settlements and desks         *)
(* (LeavesService, LeaveCarryoverCronService, SettlementsService)               *)
THEOREM LeavesCorrect == LeavesSpec => []LeavesAddUp
<1>1. LeavesSpec => []LeavesInv
  BY LeavesInitially, LeavesNextInv, PTL DEF LeavesSpec
<1>2. ASSUME LeavesInv PROVE LeavesAddUp
  <2>1. LeaveRows
    BY <1>2 DEF LeavesInv, LeaveTabled, LeaveRows
  <2>2. LeavesApart
    BY <1>2 DEF LeavesInv, RequestsApart, LeavesApart
  <2>3. ConsumedIsSettled
    BY <1>2 DEF LeavesInv, BalancesSound, BalanceSound, SettledDays, ConsumedIsSettled
  <2>4. CarriedOnce
    BY <1>2 DEF LeavesInv, BalancesSound, BalanceSound, CyclesOnce, FullySettled, CarriedOnce
  <2> QED
    BY <2>1, <2>2, <2>3, <2>4 DEF LeavesAddUp
<1> QED
  BY <1>1, <1>2, PTL
=============================================================================
