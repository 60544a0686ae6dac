--------------------------- MODULE InvoiceProofs ---------------------------
(***************************************************************************)
(* Proofs about invoices, for every set of them.                             *)
(*                                                                           *)
(* Their numbers and their chain (module InvoiceChain) hold because only the *)
(* holder of the lock is past it, so what it has read stays the last until   *)
(* it commits: ChainInv.                                                     *)
(*                                                                           *)
(* Those that are delivered (module Delivery) leave nothing behind because   *)
(* what an order is and what its invoice is go together in every state, even *)
(* between the transactions of one request (OrdersSound); what a request has *)
(* read still holds as far as it goes by it (RequestsSound); and an order    *)
(* that a request has left without its invoice, or its invoice without it,   *)
(* is that request's alone (OneAtWork, DraftsHeld): DeliveryInv.  Each step  *)
(* changes one order with its invoice (Touch), and a lemma says of the step  *)
(* what it leaves of the rest.                                               *)
(***************************************************************************)
EXTENDS InvoiceChain, Delivery, Couriers, TLAPS

PastLock == {"locked", "numbered", "read"}

(* Whoever is past the lock holds it *)
LockHeld == \A i \in Invoices : at[i] \in PastLock => holder = i

(* What the holder has read is still the last *)
ReadingIsLast ==
  \A i \in Invoices :
    /\ at[i] \in {"numbered", "read"} => IsLastNumber(last[i].number)
    /\ at[i] = "read" => IsLastEntry(last[i].counter, last[i].hash)

(* A transaction past the lock has not issued its invoice yet *)
NotYetIssued == \A i \in Invoices : at[i] # "idle" => entry[i] = Nothing

(* Numbers of the sequence belong to the office's invoices *)
TillNumbers == \A i \in Issued : entry[i].number = 0 <=> i \in FromTill

ChainInv ==
  ChainTypeOK /\ LockHeld /\ NotYetIssued /\ ReadingIsLast /\ TillNumbers /\ ChainUnbroken /\ NumbersInSequence

-----------------------------------------------------------------------------
LEMMA InitChain == ChainInit => ChainInv
BY ChainAssumption DEF ChainInit, ChainInv, ChainTypeOK, LockHeld, NotYetIssued, ReadingIsLast, TillNumbers,
   ChainUnbroken, NumbersInSequence, Issued, Reading, NoReading, PastLock

(* A step that issues nothing: only the transactions move *)
LEMMA NothingIssued ==
  ASSUME ChainInv, entry' = entry
  PROVE  TillNumbers' /\ ChainUnbroken' /\ NumbersInSequence'
BY DEF ChainInv, TillNumbers, ChainUnbroken, NumbersInSequence, Issued

LEMMA StartStep ==
  ASSUME ChainInv, NEW i \in Invoices, Start(i) PROVE ChainInv'
<1> USE ChainAssumption
<1>1. entry' = entry /\ holder' = holder /\ last' = last /\ entry[i] = Nothing
  BY DEF Start
<1>2. at' = [at EXCEPT ![i] = "started"] /\ at \in [Invoices -> {"idle", "started", "locked", "numbered", "read"}]
  BY DEF Start, ChainInv, ChainTypeOK
<1>3. ChainTypeOK'
  BY <1>1, <1>2 DEF ChainInv, ChainTypeOK
<1>4. LockHeld' /\ NotYetIssued'
  BY <1>1, <1>2 DEF ChainInv, LockHeld, NotYetIssued, PastLock
<1>5. ReadingIsLast'
  BY <1>1, <1>2 DEF ChainInv, ReadingIsLast, IsLastNumber, IsLastEntry, Issued
<1> QED
  BY <1>1, <1>3, <1>4, <1>5, NothingIssued DEF ChainInv

LEMMA LockStep ==
  ASSUME ChainInv, NEW i \in Invoices, LockSequence(i) PROVE ChainInv'
<1> USE ChainAssumption
<1>1. entry' = entry /\ holder' = i /\ holder = Nobody /\ last' = last /\ at[i] = "started"
  BY DEF LockSequence
<1>2. at' = [at EXCEPT ![i] = "locked"] /\ at \in [Invoices -> {"idle", "started", "locked", "numbered", "read"}]
  BY DEF LockSequence, ChainInv, ChainTypeOK
<1>3. ChainTypeOK'
  BY <1>1, <1>2 DEF ChainInv, ChainTypeOK
<1>4. LockHeld'
  BY <1>1, <1>2 DEF ChainInv, LockHeld, PastLock
<1>5. NotYetIssued'
  BY <1>1, <1>2 DEF ChainInv, NotYetIssued
<1>6. ReadingIsLast'
  BY <1>1, <1>2 DEF ChainInv, ReadingIsLast, IsLastNumber, IsLastEntry, Issued
<1> QED
  BY <1>1, <1>3, <1>4, <1>5, <1>6, NothingIssued DEF ChainInv

LEMMA ReadNumberStep ==
  ASSUME ChainInv, NEW i \in Invoices, ReadNumber(i) PROVE ChainInv'
<1> USE ChainAssumption
<1>1. PICK n \in {0} \cup {entry[j].number : j \in Issued} :
        IsLastNumber(n) /\ last' = [last EXCEPT ![i].number = n]
  BY DEF ReadNumber
<1>2. entry' = entry /\ holder' = holder /\ at[i] = "locked"
  BY DEF ReadNumber
<1>3. at' = [at EXCEPT ![i] = "numbered"] /\ at \in [Invoices -> {"idle", "started", "locked", "numbered", "read"}]
  BY DEF ReadNumber, ChainInv, ChainTypeOK
<1>4. n \in Nat
  BY DEF ChainInv, ChainTypeOK, Issued, Entry
<1>5. last' \in [Invoices -> Reading]
  BY <1>1, <1>4 DEF ChainInv, ChainTypeOK, Reading
<1>6. ChainTypeOK'
  BY <1>2, <1>3, <1>5 DEF ChainInv, ChainTypeOK
<1>7. LockHeld' /\ NotYetIssued'
  BY <1>2, <1>3 DEF ChainInv, LockHeld, NotYetIssued, PastLock
<1>8. last'[i].number = n /\ \A j \in Invoices \ {i} : last'[j] = last[j]
  BY <1>1 DEF ChainInv, ChainTypeOK, Reading
<1>9. ReadingIsLast'
  BY <1>1, <1>2, <1>3, <1>8 DEF ChainInv, ReadingIsLast, IsLastNumber, IsLastEntry, Issued
<1> QED
  BY <1>2, <1>6, <1>7, <1>9, NothingIssued DEF ChainInv

LEMMA ReadEntryStep ==
  ASSUME ChainInv, NEW i \in Invoices, ReadEntry(i) PROVE ChainInv'
<1> USE ChainAssumption
<1>1. PICK c \in {0} \cup {entry[j].counter : j \in Issued}, h \in Issued \cup {Nothing} :
        IsLastEntry(c, h) /\ last' = [last EXCEPT ![i].counter = c, ![i].hash = h]
  BY DEF ReadEntry
<1>2. entry' = entry /\ holder' = holder /\ at[i] = "numbered"
  BY DEF ReadEntry
<1>3. at' = [at EXCEPT ![i] = "read"] /\ at \in [Invoices -> {"idle", "started", "locked", "numbered", "read"}]
  BY DEF ReadEntry, ChainInv, ChainTypeOK
<1>4. c \in Nat /\ h \in Invoices \cup {Nothing}
  BY DEF ChainInv, ChainTypeOK, Issued, Entry
<1>5. last' \in [Invoices -> Reading]
  <2>1. last \in [Invoices -> Reading]
    BY DEF ChainInv, ChainTypeOK
  <2>2. [last[i] EXCEPT !.counter = c, !.hash = h] \in Reading
    BY <1>4, <2>1 DEF Reading
  <2>3. last' = [last EXCEPT ![i] = [last[i] EXCEPT !.counter = c, !.hash = h]]
    BY <1>1, <2>1
  <2> QED
    BY <2>1, <2>2, <2>3
<1>6. ChainTypeOK'
  BY <1>2, <1>3, <1>5 DEF ChainInv, ChainTypeOK
<1>7. LockHeld' /\ NotYetIssued'
  BY <1>2, <1>3 DEF ChainInv, LockHeld, NotYetIssued, PastLock
<1>8. /\ last'[i].number = last[i].number /\ last'[i].counter = c /\ last'[i].hash = h
      /\ \A j \in Invoices \ {i} : last'[j] = last[j]
  BY <1>1 DEF ChainInv, ChainTypeOK, Reading
<1>9. ReadingIsLast'
  <2>1. Issued' = Issued
    BY <1>2 DEF Issued
  <2>2. IsLastNumber(last[i].number) /\ at'[i] = "read"
    BY <1>2, <1>3 DEF ChainInv, ReadingIsLast
  <2>3. IsLastNumber(last[i].number)'
    BY <2>1, <2>2, <1>2, <1>8 DEF IsLastNumber
  <2>4. IsLastEntry(last[i].counter, last[i].hash)'
    BY <2>1, <1>1, <1>2, <1>8 DEF IsLastEntry
  <2>5. ASSUME NEW j \in Invoices, j # i
        PROVE  (/\ at[j] \in {"numbered", "read"} => IsLastNumber(last[j].number)
                /\ at[j] = "read" => IsLastEntry(last[j].counter, last[j].hash))'
    <3>1. at'[j] = at[j] /\ last'[j] = last[j]
      BY <2>5, <1>3, <1>8
    <3>2. (at[j] \in {"numbered", "read"} => IsLastNumber(last[j].number))'
      BY <3>1, <2>1, <1>2 DEF ChainInv, ReadingIsLast, IsLastNumber
    <3>3. (at[j] = "read" => IsLastEntry(last[j].counter, last[j].hash))'
      BY <3>1, <2>1, <1>2 DEF ChainInv, ReadingIsLast, IsLastEntry
    <3> QED
      BY <3>2, <3>3
  <2>6. \A j \in Invoices :
          (/\ at[j] \in {"numbered", "read"} => IsLastNumber(last[j].number)
           /\ at[j] = "read" => IsLastEntry(last[j].counter, last[j].hash))'
    BY <2>2, <2>3, <2>4, <2>5
  <2> QED
    BY <2>6 DEF ReadingIsLast
<1> QED
  BY <1>2, <1>6, <1>7, <1>9, NothingIssued DEF ChainInv

(* The end of a transaction, whatever becomes of its invoice *)
LEMMA ReleaseStep ==
  ASSUME ChainInv, NEW i \in Invoices, at[i] # "idle", Release(i),
         entry' \in [Invoices -> Entry \cup {Nothing}], \A j \in Invoices \ {i} : entry'[j] = entry[j],
         entry' = entry \/ at[i] \in PastLock
  PROVE  ChainTypeOK' /\ LockHeld' /\ NotYetIssued' /\ ReadingIsLast'
<1> USE ChainAssumption
<1>1. /\ holder' = IF holder = i THEN Nobody ELSE holder
      /\ at' = [at EXCEPT ![i] = "idle"]
      /\ last' = [last EXCEPT ![i] = NoReading]
  BY DEF Release
<1>2. /\ at \in [Invoices -> {"idle", "started", "locked", "numbered", "read"}]
      /\ last \in [Invoices -> Reading] /\ holder \in Invoices \cup {Nobody}
  BY DEF ChainInv, ChainTypeOK
<1>3. NoReading \in Reading
  BY DEF NoReading, Reading
<1>4. ChainTypeOK'
  BY <1>1, <1>2, <1>3 DEF ChainTypeOK
<1>5. LockHeld'
  BY <1>1, <1>2 DEF ChainInv, LockHeld, PastLock
<1>6. NotYetIssued'
  BY <1>1, <1>2 DEF ChainInv, NotYetIssued
<1>7. ASSUME NEW j \in Invoices, at'[j] \in {"numbered", "read"} PROVE entry' = entry /\ last'[j] = last[j] /\ at'[j] = at[j]
  BY <1>1, <1>2, <1>7 DEF ChainInv, LockHeld, PastLock
<1>8. ReadingIsLast'
  BY <1>7 DEF ChainInv, ReadingIsLast, IsLastNumber, IsLastEntry, Issued
<1> QED
  BY <1>4, <1>5, <1>6, <1>8

LEMMA RollbackStep ==
  ASSUME ChainInv, NEW i \in Invoices, Rollback(i) PROVE ChainInv'
<1>1. entry' = entry /\ Release(i) /\ at[i] # "idle"
  BY DEF Rollback
<1>2. ChainTypeOK' /\ LockHeld' /\ NotYetIssued' /\ ReadingIsLast'
  BY <1>1, ReleaseStep DEF ChainInv, ChainTypeOK
<1> QED
  BY <1>1, <1>2, NothingIssued DEF ChainInv

LEMMA CommitStep ==
  ASSUME ChainInv, NEW i \in Invoices, Commit(i) PROVE ChainInv'
<1> USE ChainAssumption, EntryAssumption
<1> DEFINE number == IF i \in FromTill THEN 0 ELSE last[i].number + 1
           new == [number |-> number, counter |-> last[i].counter + 1, previous |-> last[i].hash]
<1>1. at[i] = "read" /\ entry' = [entry EXCEPT ![i] = new] /\ Release(i)
  BY DEF Commit
<1>2. /\ entry \in [Invoices -> Entry \cup {Nothing}] /\ entry[i] = Nothing
      /\ last[i].number \in Nat /\ last[i].counter \in Nat /\ last[i].hash \in Invoices \cup {Nothing}
  BY <1>1 DEF ChainInv, ChainTypeOK, NotYetIssued, Reading
<1>3. new \in Entry
  BY <1>2 DEF Entry
<1>4. /\ entry' \in [Invoices -> Entry \cup {Nothing}] /\ entry'[i] = new
      /\ \A j \in Invoices \ {i} : entry'[j] = entry[j]
  BY <1>1, <1>2, <1>3
<1>5. ChainTypeOK' /\ LockHeld' /\ NotYetIssued' /\ ReadingIsLast'
  BY <1>1, <1>4, ReleaseStep DEF PastLock
<1>6. Issued' = Issued \cup {i} /\ i \notin Issued
  BY <1>2, <1>3, <1>4 DEF Issued
<1>7. \A j \in Issued : entry'[j] = entry[j] /\ j # i /\ entry[j] \in Entry
  BY <1>2, <1>4, <1>6 DEF Issued
<1>8. IsLastNumber(last[i].number) /\ IsLastEntry(last[i].counter, last[i].hash)
  BY <1>1 DEF ChainInv, ReadingIsLast
<1>9. new.number = number /\ new.counter = last[i].counter + 1 /\ new.previous = last[i].hash
  OBVIOUS
<1> HIDE DEF new, number
<1>10. TillNumbers'
  <2>1. number = 0 <=> i \in FromTill
    BY <1>2 DEF number
  <2> QED
    BY <2>1, <1>4, <1>6, <1>7, <1>9 DEF ChainInv, TillNumbers
<1>11. ChainUnbroken'
  <2>1. \A j \in Issued : entry[j].counter \in Nat \ {0} /\ entry[j].counter <= last[i].counter
    BY <1>7, <1>8 DEF IsLastEntry, Entry
  <2>2. \A j, k \in Issued' : entry'[j].counter = entry'[k].counter => j = k
    BY <2>1, <1>2, <1>4, <1>6, <1>7, <1>9 DEF ChainInv, ChainUnbroken
  <2>3. ASSUME NEW j \in Issued
        PROVE  IF entry'[j].counter = 1 THEN entry'[j].previous = Nothing
               ELSE /\ entry'[j].previous \in Issued'
                    /\ entry'[entry'[j].previous].counter = entry'[j].counter - 1
    BY <1>6, <1>7 DEF ChainInv, ChainUnbroken
  <2>4. IF new.counter = 1 THEN new.previous = Nothing
        ELSE new.previous \in Issued /\ entry[new.previous].counter = new.counter - 1
    <3>1. CASE last[i].counter = 0
      BY <3>1, <2>1, <1>8, <1>9 DEF IsLastEntry
    <3>2. CASE last[i].counter # 0
      BY <3>2, <1>2, <1>8, <1>9 DEF IsLastEntry
    <3> QED BY <3>1, <3>2
  <2>5. IF entry'[i].counter = 1 THEN entry'[i].previous = Nothing
        ELSE /\ entry'[i].previous \in Issued'
             /\ entry'[entry'[i].previous].counter = entry'[i].counter - 1
    BY <2>4, <1>4, <1>6, <1>7
  <2> QED
    BY <2>2, <2>3, <2>5, <1>6 DEF ChainUnbroken
<1>12. NumbersInSequence'
  <2>1. \A j \in Issued : entry[j].number \in Nat /\ entry[j].number <= last[i].number
    BY <1>7, <1>8 DEF IsLastNumber, Entry
  <2>2. i \notin FromTill => number = last[i].number + 1
    BY DEF number
  <2>3. \A j, k \in Issued' \ FromTill : entry'[j].number = entry'[k].number => j = k
    BY <2>1, <2>2, <1>2, <1>4, <1>6, <1>7, <1>9 DEF ChainInv, NumbersInSequence
  <2>4. \A j \in Issued \ FromTill :
          entry'[j].number = 1 \/ \E k \in Issued' : entry'[k].number = entry'[j].number - 1
    BY <1>6, <1>7 DEF ChainInv, NumbersInSequence
  <2>5. i \notin FromTill =>
          entry'[i].number = 1 \/ \E k \in Issued' : entry'[k].number = entry'[i].number - 1
    <3>1. CASE last[i].number = 0
      BY <3>1, <2>2, <1>4, <1>9
    <3>2. CASE last[i].number # 0
      <4>1. PICK k \in Issued : entry[k].number = last[i].number
        BY <3>2, <1>8 DEF IsLastNumber
      <4> QED BY <4>1, <2>2, <1>2, <1>4, <1>6, <1>7, <1>9
    <3> QED BY <3>1, <3>2
  <2> QED
    BY <2>3, <2>4, <2>5, <1>6 DEF NumbersInSequence
<1> QED
  BY <1>5, <1>10, <1>11, <1>12 DEF ChainInv

LEMMA NextChain == ChainInv /\ [ChainNext]_chainVars => ChainInv'
<1> SUFFICES ASSUME ChainInv, [ChainNext]_chainVars PROVE ChainInv'
  OBVIOUS
<1>1. ASSUME NEW i \in Invoices, Start(i) PROVE ChainInv'
  BY <1>1, StartStep
<1>2. ASSUME NEW i \in Invoices, LockSequence(i) PROVE ChainInv'
  BY <1>2, LockStep
<1>3. ASSUME NEW i \in Invoices, ReadNumber(i) PROVE ChainInv'
  BY <1>3, ReadNumberStep
<1>4. ASSUME NEW i \in Invoices, ReadEntry(i) PROVE ChainInv'
  BY <1>4, ReadEntryStep
<1>5. ASSUME NEW i \in Invoices, Commit(i) PROVE ChainInv'
  BY <1>5, CommitStep
<1>6. ASSUME NEW i \in Invoices, Rollback(i) PROVE ChainInv'
  BY <1>6, RollbackStep
<1>7. CASE UNCHANGED chainVars
  BY <1>7 DEF chainVars, ChainInv, ChainTypeOK, LockHeld, NotYetIssued, ReadingIsLast, TillNumbers,
     ChainUnbroken, NumbersInSequence, IsLastNumber, IsLastEntry, Issued
<1> QED
  BY <1>1, <1>2, <1>3, <1>4, <1>5, <1>6, <1>7 DEF ChainNext

(* Whatever the invoices are and however their transactions interleave or      *)
(* fail, the types hold.                                                       *)
THEOREM ChainTypeCorrect == ChainSpec => []ChainTypeOK
<1>1. ChainInv => ChainTypeOK BY DEF ChainInv
<1> QED BY <1>1, InitChain, NextChain, PTL DEF ChainSpec

(* The counters and hashes of the issued invoices (finalize) form one chain    *)
(* without a gap, for every number of invoices and transactions.               *)
THEOREM ChainCorrect == ChainSpec => []ChainUnbroken
<1>1. ChainInv => ChainUnbroken BY DEF ChainInv
<1> QED BY <1>1, InitChain, NextChain, PTL DEF ChainSpec

(* The office's invoice numbers (nextDocumentNumber) are given once each and   *)
(* in sequence, tills or failed transactions notwithstanding.                  *)
THEOREM NumbersCorrect == ChainSpec => []NumbersInSequence
<1>1. ChainInv => NumbersInSequence BY DEF ChainInv
<1> QED BY <1>1, InitChain, NextChain, PTL DEF ChainSpec

-----------------------------------------------------------------------------
(* Types *)

OrderStatuses == {"none", "cancelled", "out"} \cup Waiting \cup Closed

OrderRow == [status : OrderStatuses, agent : Agents \cup {None}, cod : BOOLEAN,
             codAmount : Nat, settled : BOOLEAN]

InvoiceRow == [status : {"none", "draft", "issued", "cancelled"}, known : BOOLEAN, paid : Nat,
               returned : 0 .. Amount, byCourier : BOOLEAN, receipt : Nat, back : Nat]

(* Requests that alone may touch their order, or have the order's draft to deal with *)
Exclusive == {"create", "cancel_orphan", "cancel_invoice", "restore"}

Work == [do : {"cancel_draft", "cancel_issued"} \cup Exclusive \cup DriverOperations,
         o : Orders, agent : Agents \cup {None}, status : Waiting \cup {"none"}]

DeliveryTyped ==
  /\ order \in [Orders -> OrderRow]
  /\ invoice \in [Orders -> InvoiceRow]
  /\ request \in [Requests -> Work \cup {Idle}]
  /\ \A s \in settlements : s.orders \subseteq Orders

(* An order and its invoice *)
StatusesAgree(row, inv) ==
  /\ row.status # "none" => inv.status # "none"
  /\ row.status \in Waiting => inv.status \in {"draft", "issued"}
  /\ row.status \in {"out"} \cup Closed => inv.status = "issued"

(* Nothing was paid on an invoice that is not issued; what its courier is to collect *)
PaymentsAgree(row, inv) ==
  /\ inv.status # "issued" => inv.paid = 0 /\ inv.receipt = 0 /\ inv.back = 0 /\ inv.returned = 0
  /\ inv.status = "issued" /\ row.status # "none" => row.cod = inv.byCourier
  /\ row.status \in {"out", "delivered"} \cup Waiting \/ (row.status = "cancelled" /\ inv.status = "draft") =>
       row.codAmount = IF row.cod THEN Amount ELSE 0

(* What came to nothing was given back *)
GivenBack(row, inv) ==
  row.status = "failed" \/ (row.status = "cancelled" /\ inv.status = "issued") =>
    inv.returned = Amount /\ inv.paid = 0

(* Until the desk has a part in it *)
LeftAlone(row, inv) ==
  /\ inv.status = "issued" /\ row.status \in {"none", "out", "delivered"} \cup Waiting =>
       inv.paid = Amount /\ inv.receipt = Amount /\ inv.returned = 0 /\ inv.back = 0
  /\ row.status = "failed" => OnAgent(inv) = 0

Sound(row, inv, atDesk) ==
  /\ StatusesAgree(row, inv) /\ PaymentsAgree(row, inv) /\ GivenBack(row, inv)
  /\ ~atDesk => LeftAlone(row, inv)

OrdersSound == \A o \in Orders : Sound(order[o], invoice[o], "desk" \in happened)

(* What a request has read still holds as far as it relies on it *)
StillSo(work, row, inv, assigned) ==
  /\ work.do \in {"create", "cancel_orphan"} => row.status = "none" /\ inv.status = "draft"
  /\ work.do \in {"cancel_invoice", "restore"} =>
       row.status = "cancelled" /\ inv.status = "draft" /\ work.status \in Waiting
  /\ work.do = "cancel_draft" =>
       /\ row.status # "none" /\ work.status \in Waiting
       /\ inv.status = "issued" => row.status \in {"out"} \cup Closed
  /\ work.do = "cancel_issued" => row.status # "none" /\ inv.status = "issued"
  /\ work.do \in DriverOperations => row.status # "none" /\ (~assigned => row.agent = work.agent)

RequestsSound ==
  \A r \in Requests :
    ~At(r, "idle") =>
      StillSo(request[r], order[request[r].o], invoice[request[r].o], "assign" \in happened)

Works(r, o) == request[r].do \in Exclusive /\ request[r].o = o

OneAtWork == \A o \in Orders : \A r, q \in Requests : Works(r, o) /\ Works(q, o) => r = q

(* A draft has an order that can issue or cancel it, or a request that will *)
DraftsHeld ==
  "stop" \notin happened =>
    \A o \in Orders : invoice[o].status = "draft" =>
      order[o].status \in Waiting \/ \E r \in Requests : Works(r, o)

DeliveryInv ==
  DeliveryTyped /\ OrdersSound /\ RequestsSound /\ OneAtWork /\ DraftsHeld /\ SettledOnce

-----------------------------------------------------------------------------
(* What a step does to one order and its invoice *)
Touch(o, row, inv) ==
  order' = [order EXCEPT ![o] = row] /\ invoice' = [invoice EXCEPT ![o] = inv]

(* No order comes undone, no invoice is taken back, and none is issued but with *)
(* the goods on the road                                                        *)
Gentle(row, inv, row2, inv2) ==
  /\ row.status # "none" => row2.status # "none"
  /\ row.status \in {"out"} \cup Closed => row2.status \in {"out"} \cup Closed
  /\ inv.status = "issued" => inv2.status = "issued"
  /\ inv.status # "issued" /\ inv2.status = "issued" /\ row.status # "none" =>
       row2.status \in {"out"} \cup Closed

LEMMA StaysSo ==
  ASSUME NEW work, NEW row, NEW inv, NEW row2, NEW inv2,
         NEW assigned \in BOOLEAN, NEW assigned2 \in BOOLEAN,
         StillSo(work, row, inv, assigned), Gentle(row, inv, row2, inv2),
         work.do \in Exclusive => row2.status = row.status /\ inv2.status = inv.status,
         work.do \in DriverOperations /\ ~assigned2 => ~assigned /\ row2.agent = row.agent
  PROVE  StillSo(work, row2, inv2, assigned2)
<1>1. work.do \in {"create", "cancel_orphan"} => row2.status = "none" /\ inv2.status = "draft"
  BY DEF StillSo, Exclusive
<1>2. work.do \in {"cancel_invoice", "restore"} =>
        row2.status = "cancelled" /\ inv2.status = "draft" /\ work.status \in Waiting
  BY DEF StillSo, Exclusive
<1>3. work.do = "cancel_draft" =>
        /\ row2.status # "none" /\ work.status \in Waiting
        /\ inv2.status = "issued" => row2.status \in {"out"} \cup Closed
  BY DEF StillSo, Gentle
<1>4. work.do = "cancel_issued" => row2.status # "none" /\ inv2.status = "issued"
  BY DEF StillSo, Gentle
<1>5. work.do \in DriverOperations =>
        row2.status # "none" /\ (~assigned2 => row2.agent = work.agent)
  BY DEF StillSo, Gentle
<1> QED
  BY <1>1, <1>2, <1>3, <1>4, <1>5 DEF StillSo

(* A request goes on as it was, ends, or relies on what it has just read *)
Kept(q, o, row, inv) ==
  /\ request'[q] = request[q]
  /\ Works(q, o) => row.status = order[o].status /\ inv.status = invoice[o].status
  /\ request[q].do \in DriverOperations /\ request[q].o = o /\ "assign" \notin happened' =>
       row.agent = order[o].agent

Advanced(q) ==
  /\ request'[q] \in Work
  /\ StillSo(request'[q], order'[request'[q].o], invoice'[request'[q].o], "assign" \in happened')
  /\ request'[q].do \in Exclusive =>
       \A p \in Requests \ {q} : ~Works(p, request'[q].o) /\ request'[p] = request[p]

RequestsGoOn(o, row, inv) ==
  /\ request' \in [Requests -> Work \cup {Idle}]
  /\ \A q \in Requests : Kept(q, o, row, inv) \/ request'[q] = Idle \/ Advanced(q)

(* .. and the draft is left to somebody *)
DraftLeft(o, row, inv) ==
  "stop" \in happened' \/
    /\ \A q \in Requests, p \in Orders : p # o /\ Works(q, p) => request'[q] = request[q]
    /\ inv.status = "draft" => row.status \in Waiting \/ \E q \in Requests : Works(q, o)'

Keeps(o, row, inv) ==
  /\ Sound(row, inv, "desk" \in happened')
  /\ Gentle(order[o], invoice[o], row, inv)
  /\ order[o].status \in Closed => row = order[o]

LEMMA StepTyped ==
  ASSUME DeliveryInv, NEW o \in Orders, NEW row \in OrderRow, NEW inv \in InvoiceRow,
         Touch(o, row, inv), UNCHANGED settlements, RequestsGoOn(o, row, inv)
  PROVE  DeliveryTyped'
<1>1. order' \in [Orders -> OrderRow] /\ invoice' \in [Orders -> InvoiceRow]
  BY DEF DeliveryInv, DeliveryTyped, Touch
<1> QED
  BY <1>1 DEF DeliveryInv, DeliveryTyped, RequestsGoOn

LEMMA StepSound ==
  ASSUME DeliveryInv, NEW o \in Orders, NEW row \in OrderRow, NEW inv \in InvoiceRow,
         Touch(o, row, inv), Keeps(o, row, inv), happened \subseteq happened'
  PROVE  OrdersSound'
<1> SUFFICES ASSUME NEW p \in Orders
             PROVE  Sound(order'[p], invoice'[p], "desk" \in happened')
  BY DEF OrdersSound
<1>1. CASE p = o
  <2>1. order'[p] = row /\ invoice'[p] = inv
    BY <1>1 DEF Touch, DeliveryInv, DeliveryTyped
  <2> QED
    BY <2>1 DEF Keeps
<1>2. CASE p # o
  <2>1. order'[p] = order[p] /\ invoice'[p] = invoice[p]
    BY <1>2 DEF Touch, DeliveryInv, DeliveryTyped
  <2>2. Sound(order[p], invoice[p], "desk" \in happened)
    BY DEF DeliveryInv, OrdersSound
  <2> QED
    BY <2>1, <2>2 DEF Sound
<1> QED
  BY <1>1, <1>2

(* A request that is at work has an order *)
LEMMA WorkType ==
  ASSUME DeliveryInv, NEW q \in Requests
  PROVE  /\ request[q] = Idle \/ request[q] \in Work
         /\ At(q, "idle") <=> request[q] = Idle
         /\ ~At(q, "idle") => request[q].o \in Orders
         /\ Idle \notin Work
<1>1. request[q] = Idle \/ request[q] \in Work
  BY DEF DeliveryInv, DeliveryTyped
<1>2. \A work \in Work : work.do # "idle" /\ work.o \in Orders
  BY DEF Work, Exclusive, DriverOperations
<1>3. Idle.do = "idle"
  BY DEF Idle
<1> QED
  BY <1>1, <1>2, <1>3 DEF At

LEMMA StepRequests ==
  ASSUME DeliveryInv, NEW o \in Orders, NEW row \in OrderRow, NEW inv \in InvoiceRow,
         Touch(o, row, inv), Keeps(o, row, inv), RequestsGoOn(o, row, inv),
         happened \subseteq happened'
  PROVE  RequestsSound'
<1> SUFFICES ASSUME NEW q \in Requests, request'[q].do # "idle"
             PROVE  StillSo(request'[q], order'[request'[q].o], invoice'[request'[q].o],
                            "assign" \in happened')
  BY DEF RequestsSound, At
<1>1. CASE Advanced(q)
  BY <1>1 DEF Advanced
<1>2. CASE request'[q] = Idle
  BY <1>2 DEF Idle
<1>3. CASE Kept(q, o, row, inv)
  <2>1. PICK work, p : work = request[q] /\ p = work.o
    OBVIOUS
  <2>2. request'[q] = work /\ work.do # "idle" /\ p \in Orders
    BY <1>3, <2>1, WorkType DEF Kept, At
  <2>3. StillSo(work, order[p], invoice[p], "assign" \in happened)
    BY <2>1, <2>2 DEF DeliveryInv, RequestsSound, At
  <2>4. CASE p = o
    <3>1. order'[p] = row /\ invoice'[p] = inv
      BY <2>4 DEF Touch, DeliveryInv, DeliveryTyped
    <3>2. work.do \in Exclusive => row.status = order[o].status /\ inv.status = invoice[o].status
      BY <1>3, <2>1, <2>4 DEF Kept, Works
    <3>3. work.do \in DriverOperations /\ "assign" \notin happened' =>
            "assign" \notin happened /\ row.agent = order[o].agent
      BY <1>3, <2>1, <2>4 DEF Kept
    <3>4. Gentle(order[o], invoice[o], row, inv)
      BY DEF Keeps
    <3>5. StillSo(work, row, inv, "assign" \in happened')
      <4>1. PICK was, is : was = ("assign" \in happened) /\ is = ("assign" \in happened')
        OBVIOUS
      <4>2. was \in BOOLEAN /\ is \in BOOLEAN
        BY <4>1
      <4>3. StillSo(work, order[o], invoice[o], was)
        BY <2>3, <2>4, <4>1
      <4>4. work.do \in DriverOperations /\ ~is => ~was /\ row.agent = order[o].agent
        BY <3>3, <4>1
      <4>5. StillSo(work, row, inv, is)
        BY <3>2, <3>4, <4>2, <4>3, <4>4, StaysSo
      <4> QED
        BY <4>1, <4>5
    <3> QED
      BY <2>1, <2>2, <3>1, <3>5
  <2>5. CASE p # o
    <3>1. order'[p] = order[p] /\ invoice'[p] = invoice[p]
      BY <2>2, <2>5 DEF Touch, DeliveryInv, DeliveryTyped
    <3>2. StillSo(work, order[p], invoice[p], "assign" \in happened')
      BY <2>3 DEF StillSo
    <3> QED
      BY <2>1, <2>2, <3>1, <3>2
  <2> QED
    BY <2>4, <2>5
<1> QED
  BY <1>1, <1>2, <1>3 DEF RequestsGoOn

LEMMA StepOneAtWork ==
  ASSUME DeliveryInv, NEW o \in Orders, NEW row, NEW inv, RequestsGoOn(o, row, inv)
  PROVE  OneAtWork'
<1> SUFFICES ASSUME NEW p \in Orders, NEW r \in Requests, NEW q \in Requests,
                    Works(r, p)', Works(q, p)', r # q
             PROVE  FALSE
  BY DEF OneAtWork, Works
<1>1. ASSUME NEW x \in Requests, Works(x, p)', request'[x] # request[x]
      PROVE  \A y \in Requests \ {x} : ~Works(y, p)'
  <2>1. Advanced(x)
    BY <1>1 DEF RequestsGoOn, Kept, Works, Idle, Exclusive
  <2>2. request'[x].do \in Exclusive /\ request'[x].o = p
    BY <1>1 DEF Works
  <2> QED
    BY <2>1, <2>2 DEF Advanced, Works
<1>2. request'[r] = request[r] /\ request'[q] = request[q]
  BY <1>1
<1>3. Works(r, p) /\ Works(q, p)
  BY <1>2 DEF Works
<1> QED
  BY <1>3 DEF DeliveryInv, OneAtWork

LEMMA StepDrafts ==
  ASSUME DeliveryInv, NEW o \in Orders, NEW row \in OrderRow, NEW inv \in InvoiceRow,
         Touch(o, row, inv), DraftLeft(o, row, inv), happened \subseteq happened'
  PROVE  DraftsHeld'
<1> SUFFICES ASSUME "stop" \notin happened', NEW p \in Orders, invoice'[p].status = "draft"
             PROVE  order'[p].status \in Waiting \/ \E q \in Requests : Works(q, p)'
  BY DEF DraftsHeld
<1>1. CASE p = o
  <2>1. order'[p] = row /\ invoice'[p] = inv
    BY <1>1 DEF Touch, DeliveryInv, DeliveryTyped
  <2> QED
    BY <1>1, <2>1 DEF DraftLeft
<1>2. CASE p # o
  <2>1. order'[p] = order[p] /\ invoice'[p] = invoice[p]
    BY <1>2 DEF Touch, DeliveryInv, DeliveryTyped
  <2>2. order[p].status \in Waiting \/ \E q \in Requests : Works(q, p)
    BY <2>1 DEF DeliveryInv, DraftsHeld
  <2>3. \A q \in Requests : Works(q, p) => Works(q, p)'
    BY <1>2 DEF DraftLeft, Works
  <2> QED
    BY <2>1, <2>2, <2>3
<1> QED
  BY <1>1, <1>2

LEMMA CollectedSame ==
  ASSUME NEW S \in SUBSET Orders,
         \A o \in S : order'[o].status = order[o].status /\ order'[o].codAmount = order[o].codAmount
  PROVE  Collected(S)' = Collected(S)
<1>1. {o \in S : order'[o].status = "delivered"} = {o \in S : order[o].status = "delivered"}
  OBVIOUS
<1>2. [o \in {p \in S : order'[p].status = "delivered"} |-> order'[o].codAmount]
        = [o \in {p \in S : order[p].status = "delivered"} |-> order[o].codAmount]
  BY <1>1
<1> QED
  BY <1>2 DEF Collected

LEMMA StepSettled ==
  ASSUME DeliveryInv, NEW o \in Orders, NEW row \in OrderRow, NEW inv \in InvoiceRow,
         Touch(o, row, inv), Keeps(o, row, inv), UNCHANGED settlements
  PROVE  SettledOnce'
<1>1. ASSUME NEW p \in Orders, order[p].status \in Closed
      PROVE  order'[p] = order[p]
  BY <1>1 DEF Touch, Keeps, DeliveryInv, DeliveryTyped
<1>2. ASSUME NEW s \in settlements
      PROVE  /\ s.orders \subseteq Orders
             /\ \A p \in s.orders : /\ order[p].settled /\ order[p].agent = s.agent
                                    /\ order[p].status \in Closed /\ order'[p] = order[p]
             /\ s.collected = Collected(s.orders)
  BY <1>1 DEF DeliveryInv, DeliveryTyped, SettledOnce
<1>3. \A s \in settlements : s.collected = Collected(s.orders)'
  BY <1>2, CollectedSame
<1>4. \A s, t \in settlements : s.orders \cap t.orders # {} => s = t
  BY DEF DeliveryInv, SettledOnce
<1>5. \A s \in settlements : \A p \in s.orders :
        order'[p].settled /\ order'[p].agent = s.agent /\ order'[p].status \in Closed
  BY <1>2
<1> QED
  BY <1>3, <1>4, <1>5 DEF SettledOnce

LEMMA Step ==
  ASSUME DeliveryInv, NEW o \in Orders, NEW row \in OrderRow, NEW inv \in InvoiceRow,
         Touch(o, row, inv), Keeps(o, row, inv), UNCHANGED settlements,
         RequestsGoOn(o, row, inv), DraftLeft(o, row, inv), happened \subseteq happened'
  PROVE  DeliveryInv'
  BY StepTyped, StepSound, StepRequests, StepOneAtWork, StepDrafts, StepSettled DEF DeliveryInv

(* Who has an order to itself has its draft, and no order that can deal with it *)
LEMMA WorksMeans ==
  ASSUME DeliveryInv, NEW q \in Requests, NEW o, Works(q, o)
  PROVE  /\ o \in Orders /\ invoice[o].status = "draft" /\ order[o].status \in {"none", "cancelled"}
         /\ request[q].do \in Exclusive
<1>1. request[q].do \in Exclusive /\ request[q].o = o
  BY DEF Works
<1>2. ~At(q, "idle")
  BY <1>1 DEF At, Exclusive
<1>3. StillSo(request[q], order[o], invoice[o], "assign" \in happened)
  BY <1>1, <1>2 DEF DeliveryInv, RequestsSound
<1>4. o \in Orders
  BY <1>1, <1>2, WorkType
<1> QED
  BY <1>1, <1>3, <1>4 DEF StillSo, Exclusive

LEMMA DriverMeans ==
  ASSUME DeliveryInv, NEW q \in Requests, request[q].do \in DriverOperations
  PROVE  /\ request[q].o \in Orders /\ order[request[q].o].status # "none"
         /\ "assign" \notin happened => order[request[q].o].agent = request[q].agent
<1>1. ~At(q, "idle")
  BY DEF At, DriverOperations
<1>2. StillSo(request[q], order[request[q].o], invoice[request[q].o], "assign" \in happened)
  BY <1>1 DEF DeliveryInv, RequestsSound
<1> QED
  BY <1>1, <1>2, WorkType DEF StillSo

(* Nobody's order is taken from under them *)
Undisturbed(o, row, inv) ==
  invoice[o].status = "draft" /\ order[o].status \in {"none", "cancelled"} =>
    row.status = order[o].status /\ inv.status = invoice[o].status

SameAgent(o, row) == order[o].status # "none" => row.agent = order[o].agent

DraftOpen(o, row, inv) ==
  inv.status = "draft" => row.status \in Waiting \/ (row.status = order[o].status /\ invoice[o].status = "draft")

LEMMA KeptByOthers ==
  ASSUME DeliveryInv, NEW q \in Requests, request'[q] = request[q],
         NEW o \in Orders, NEW row, NEW inv, SameAgent(o, row),
         Works(q, o) => row.status = order[o].status /\ inv.status = invoice[o].status
  PROVE  Kept(q, o, row, inv)
  BY DriverMeans DEF Kept, SameAgent

LEMMA QuietRequests ==
  ASSUME DeliveryInv, UNCHANGED request, NEW o \in Orders, NEW row, NEW inv,
         Undisturbed(o, row, inv), SameAgent(o, row)
  PROVE  RequestsGoOn(o, row, inv)
<1>1. ASSUME NEW q \in Requests PROVE Kept(q, o, row, inv)
  <2>1. Works(q, o) => row.status = order[o].status /\ inv.status = invoice[o].status
    BY WorksMeans DEF Undisturbed
  <2>2. request'[q] = request[q]
    OBVIOUS
  <2> QED
    BY <2>1, <2>2, KeptByOthers
<1>2. request' \in [Requests -> Work \cup {Idle}]
  BY DEF DeliveryInv, DeliveryTyped
<1> QED
  BY <1>1, <1>2 DEF RequestsGoOn

LEMMA QuietDrafts ==
  ASSUME DeliveryInv, UNCHANGED request, NEW o \in Orders, NEW row, NEW inv,
         DraftOpen(o, row, inv), happened \subseteq happened'
  PROVE  DraftLeft(o, row, inv)
<1> SUFFICES ASSUME "stop" \notin happened', inv.status = "draft", row.status \notin Waiting
             PROVE  \E q \in Requests : Works(q, o)'
  BY DEF DraftLeft
<1>1. row.status = order[o].status /\ invoice[o].status = "draft"
  BY DEF DraftOpen
<1>2. \E q \in Requests : Works(q, o)
  BY <1>1 DEF DeliveryInv, DraftsHeld
<1> QED
  BY <1>2 DEF Works

(* A step of no request *)
LEMMA QuietStep ==
  ASSUME DeliveryInv, UNCHANGED <<settlements, request>>, happened \subseteq happened',
         NEW o \in Orders, NEW row \in OrderRow, NEW inv \in InvoiceRow,
         Touch(o, row, inv), Keeps(o, row, inv),
         Undisturbed(o, row, inv), SameAgent(o, row), DraftOpen(o, row, inv)
  PROVE  DeliveryInv'
  BY QuietRequests, QuietDrafts, Step

(* A request that goes on to a step of which its order and invoice are as it says *)
GoesOn(r, next) ==
  \/ next = Idle
  \/ /\ next \in Work
     /\ StillSo(next, order'[next.o], invoice'[next.o], "assign" \in happened')
     /\ next.do \in Exclusive => \A q \in Requests \ {r} : ~Works(q, next.o)

LEMMA ActingRequests ==
  ASSUME DeliveryInv, NEW r \in Requests, NEW next, request' = [request EXCEPT ![r] = next],
         GoesOn(r, next), NEW o \in Orders, NEW row, NEW inv,
         Works(r, o) \/ Undisturbed(o, row, inv), SameAgent(o, row)
  PROVE  RequestsGoOn(o, row, inv)
<1>0. request \in [Requests -> Work \cup {Idle}]
  BY DEF DeliveryInv, DeliveryTyped
<1>1. request'[r] = next /\ \A q \in Requests \ {r} : request'[q] = request[q]
  BY <1>0
<1>2. request' \in [Requests -> Work \cup {Idle}]
  BY <1>0 DEF GoesOn
<1>3. ASSUME NEW q \in Requests \ {r} PROVE Kept(q, o, row, inv)
  <2>1. ASSUME Works(q, o) PROVE row.status = order[o].status /\ inv.status = invoice[o].status
    <3>1. ~Works(r, o)
      BY <2>1 DEF DeliveryInv, OneAtWork
    <3> QED
      BY <2>1, <3>1, WorksMeans DEF Undisturbed
  <2> QED
    BY <1>1, <2>1, KeptByOthers
<1>4. request'[r] = Idle \/ Advanced(r)
  BY <1>1 DEF GoesOn, Advanced
<1> QED
  BY <1>2, <1>3, <1>4 DEF RequestsGoOn

LEMMA ActingDrafts ==
  ASSUME DeliveryInv, NEW r \in Requests, NEW next, request' = [request EXCEPT ![r] = next],
         NEW o \in Orders, NEW row, NEW inv, happened \subseteq happened',
         \A p \in Orders : Works(r, p) => p = o,
         "stop" \in happened' \/ ~(inv.status = "draft") \/ row.status \in Waiting
           \/ (next.do \in Exclusive /\ next.o = o)
           \/ (~Works(r, o) /\ DraftOpen(o, row, inv))
  PROVE  DraftLeft(o, row, inv)
<1>0. request \in [Requests -> Work \cup {Idle}]
  BY DEF DeliveryInv, DeliveryTyped
<1>1. request'[r] = next /\ \A q \in Requests \ {r} : request'[q] = request[q]
  BY <1>0
<1> SUFFICES ASSUME "stop" \notin happened' PROVE DraftLeft(o, row, inv)
  BY DEF DraftLeft
<1>2. \A q \in Requests, p \in Orders : p # o /\ Works(q, p) => request'[q] = request[q]
  BY <1>1
<1>3. ASSUME inv.status = "draft", row.status \notin Waiting
      PROVE  \E q \in Requests : Works(q, o)'
  <2>1. CASE next.do \in Exclusive /\ next.o = o
    BY <1>1, <2>1 DEF Works
  <2>2. CASE ~Works(r, o) /\ DraftOpen(o, row, inv)
    <3>1. row.status = order[o].status /\ invoice[o].status = "draft"
      BY <1>3, <2>2 DEF DraftOpen
    <3>2. PICK q \in Requests : Works(q, o)
      BY <1>3, <3>1 DEF DeliveryInv, DraftsHeld
    <3>3. q # r
      BY <2>2, <3>2
    <3> QED
      BY <1>1, <3>2, <3>3 DEF Works
  <2> QED
    BY <1>3, <2>1, <2>2
<1> QED
  BY <1>2, <1>3 DEF DraftLeft

LEMMA RowTypes ==
  ASSUME DeliveryInv, NEW o \in Orders
  PROVE  /\ order[o] \in OrderRow /\ invoice[o] \in InvoiceRow
         /\ Sound(order[o], invoice[o], "desk" \in happened)
  BY DEF DeliveryInv, DeliveryTyped, OrdersSound

LEMMA SameRows ==
  ASSUME DeliveryInv, UNCHANGED <<order, invoice>>, happened \subseteq happened', NEW o \in Orders
  PROVE  /\ Touch(o, order[o], invoice[o]) /\ Keeps(o, order[o], invoice[o])
         /\ Undisturbed(o, order[o], invoice[o]) /\ SameAgent(o, order[o])
         /\ DraftOpen(o, order[o], invoice[o])
<1>1. Touch(o, order[o], invoice[o])
  BY DEF Touch, DeliveryInv, DeliveryTyped
<1>2. Sound(order[o], invoice[o], "desk" \in happened')
  BY RowTypes DEF Sound
<1>3. Gentle(order[o], invoice[o], order[o], invoice[o])
  BY DEF Gentle
<1> QED
  BY <1>1, <1>2, <1>3 DEF Keeps, Undisturbed, SameAgent, DraftOpen

(* A draft that is left has a request or an order to deal with it *)
DraftPassed(r, next, o, row, inv) ==
  /\ \A p \in Orders : Works(r, p) => p = o
  /\ \/ "stop" \in happened' \/ ~(inv.status = "draft") \/ row.status \in Waiting
     \/ next.do \in Exclusive /\ next.o = o
     \/ ~Works(r, o) /\ DraftOpen(o, row, inv)

LEMMA ActingStep ==
  ASSUME DeliveryInv, NEW r \in Requests, NEW next, request' = [request EXCEPT ![r] = next],
         UNCHANGED settlements, happened \subseteq happened', GoesOn(r, next),
         NEW o \in Orders, NEW row \in OrderRow, NEW inv \in InvoiceRow,
         Touch(o, row, inv), Keeps(o, row, inv), SameAgent(o, row),
         Works(r, o) \/ Undisturbed(o, row, inv), DraftPassed(r, next, o, row, inv)
  PROVE  DeliveryInv'
<1>1. RequestsGoOn(o, row, inv)
  BY ActingRequests
<1>2. DraftLeft(o, row, inv)
  BY ActingDrafts DEF DraftPassed
<1> QED
  BY <1>1, <1>2, Step

LEMMA AtOnce ==
  ASSUME NEW r \in Requests, request[r].do \notin Exclusive
  PROVE  \A p : ~Works(r, p)
  BY DEF Works

-----------------------------------------------------------------------------
(* createOrder *)

LEMMA CreateInvoiceStep ==
  ASSUME DeliveryInv, NEW r \in Requests, NEW o \in Orders, NEW known \in BOOLEAN,
         CreateInvoice(r, o, known), UNCHANGED happened
  PROVE  DeliveryInv'
<1>1. PICK row, inv, next :
        /\ row = order[o] /\ inv = [invoice[o] EXCEPT !.status = "draft", !.known = known]
        /\ next = [Idle EXCEPT !.do = "create", !.o = o]
  OBVIOUS
<1>2. /\ row \in OrderRow /\ invoice[o] \in InvoiceRow /\ invoice[o].status = "none"
      /\ Sound(row, invoice[o], "desk" \in happened)
  BY <1>1, RowTypes DEF CreateInvoice
<1>3. /\ inv \in InvoiceRow /\ inv.status = "draft" /\ inv.paid = invoice[o].paid
      /\ inv.returned = invoice[o].returned /\ inv.receipt = invoice[o].receipt
      /\ inv.back = invoice[o].back
  BY <1>1, <1>2 DEF InvoiceRow
<1>4. row.status = "none"
  BY <1>2 DEF Sound, StatusesAgree, OrderRow, OrderStatuses
<1>5. Touch(o, row, inv)
  BY <1>1 DEF CreateInvoice, Touch, DeliveryInv, DeliveryTyped
<1>6. Keeps(o, row, inv)
  <2>1. StatusesAgree(row, inv) /\ GivenBack(row, inv) /\ LeftAlone(row, inv)
    BY <1>3, <1>4 DEF StatusesAgree, GivenBack, LeftAlone, Waiting, Closed
  <2>2. PaymentsAgree(row, inv)
    BY <1>2, <1>3, <1>4 DEF Sound, PaymentsAgree, Waiting
  <2>3. Gentle(order[o], invoice[o], row, inv)
    BY <1>1, <1>2, <1>3, <1>4 DEF Gentle, Closed
  <2> QED
    BY <1>1, <2>1, <2>2, <2>3 DEF Keeps, Sound
<1>7. next \in Work /\ next.do = "create" /\ next.o = o
  BY <1>1 DEF Work, Idle, Exclusive
<1>8. GoesOn(r, next)
  <2>1. order'[o] = row /\ invoice'[o] = inv
    BY <1>5 DEF Touch, DeliveryInv, DeliveryTyped
  <2>2. StillSo(next, row, inv, "assign" \in happened')
    BY <1>3, <1>4, <1>7 DEF StillSo, DriverOperations
  <2>3. \A q \in Requests : ~Works(q, o)
    BY <1>2, WorksMeans
  <2> QED
    BY <1>7, <2>1, <2>2, <2>3 DEF GoesOn
<1>9. \A p : ~Works(r, p)
  BY AtOnce DEF CreateInvoice, At, Exclusive
<1>10. DraftPassed(r, next, o, row, inv)
  BY <1>7, <1>9 DEF DraftPassed, Exclusive
<1>11. Undisturbed(o, row, inv) /\ SameAgent(o, row)
  BY <1>1, <1>2 DEF Undisturbed, SameAgent
<1>12. request' = [request EXCEPT ![r] = next] /\ UNCHANGED settlements
  BY <1>1 DEF CreateInvoice, Continue
<1> QED
  BY <1>2, <1>3, <1>5, <1>6, <1>8, <1>10, <1>11, <1>12, ActingStep

LEMMA AtWork ==
  ASSUME DeliveryInv, NEW r \in Requests, request[r].do # "idle"
  PROVE  /\ request[r].o \in Orders /\ request[r] \in Work
         /\ StillSo(request[r], order[request[r].o], invoice[request[r].o], "assign" \in happened)
         /\ \A p : Works(r, p) => p = request[r].o
         /\ request[r].do \in Exclusive => Works(r, request[r].o)
<1>1. ~At(r, "idle")
  BY DEF At
<1> QED
  BY <1>1, WorkType DEF DeliveryInv, RequestsSound, Works

LEMMA CreateOrderStep ==
  ASSUME DeliveryInv, NEW r \in Requests, NEW agent \in Agents \cup {None}, NEW cod \in BOOLEAN,
         CreateOrder(r, agent, cod), UNCHANGED happened
  PROVE  DeliveryInv'
<1>1. PICK o, row, inv :
        /\ o = request[r].o /\ inv = invoice[o]
        /\ row = [NoOrder EXCEPT !.status = IF agent = None THEN "new" ELSE "assigned", !.agent = agent,
                                 !.cod = cod, !.codAmount = IF cod THEN Amount ELSE 0]
  OBVIOUS
<1>2. request[r].do = "create"
  BY DEF CreateOrder, At
<1>3. /\ o \in Orders /\ order[o].status = "none" /\ inv.status = "draft" /\ Works(r, o)
      /\ \A p : Works(r, p) => p = o
  BY <1>1, <1>2, AtWork DEF StillSo, Exclusive
<1>4. /\ inv \in InvoiceRow /\ Sound(order[o], inv, "desk" \in happened)
  BY <1>1, <1>3, RowTypes
<1>5. /\ row.status \in Waiting /\ row.cod = cod /\ row.codAmount = (IF cod THEN Amount ELSE 0)
      /\ row.settled = FALSE /\ row.agent = agent
  BY <1>1 DEF NoOrder, Waiting
<1>6. row \in OrderRow
  BY <1>1, DeliveryAssumption DEF OrderRow, OrderStatuses, NoOrder, Waiting
<1>7. Touch(o, row, inv)
  BY <1>1, <1>3 DEF CreateOrder, Touch, DeliveryInv, DeliveryTyped
<1>8. Keeps(o, row, inv)
  <2>1. StatusesAgree(row, inv) /\ GivenBack(row, inv) /\ LeftAlone(row, inv)
    BY <1>3, <1>5 DEF StatusesAgree, GivenBack, LeftAlone, Waiting, Closed
  <2>2. PaymentsAgree(row, inv)
    BY <1>3, <1>4, <1>5 DEF Sound, PaymentsAgree, Waiting
  <2>3. Gentle(order[o], invoice[o], row, inv)
    BY <1>1, <1>3, <1>5 DEF Gentle, Closed
  <2> QED
    BY <1>3, <2>1, <2>2, <2>3 DEF Keeps, Sound, Closed
<1>9. PICK next : next = Idle
  OBVIOUS
<1>10. request' = [request EXCEPT ![r] = next] /\ UNCHANGED settlements /\ GoesOn(r, next)
  BY <1>9 DEF CreateOrder, End, Continue, GoesOn
<1>11. DraftPassed(r, next, o, row, inv) /\ SameAgent(o, row)
  BY <1>3, <1>5 DEF DraftPassed, SameAgent
<1> QED
  BY <1>3, <1>4, <1>6, <1>7, <1>8, <1>10, <1>11, ActingStep

(* A request that goes on to its next step while orders and invoices stay *)
LEMMA MovesOn ==
  ASSUME DeliveryInv, NEW r \in Requests, UNCHANGED <<order, invoice, settlements>>,
         happened \subseteq happened', NEW o \in Orders, NEW next,
         request' = [request EXCEPT ![r] = next], GoesOn(r, next),
         \A p : Works(r, p) => p = o,
         \/ "stop" \in happened' \/ ~Works(r, o) \/ (next.do \in Exclusive /\ next.o = o)
  PROVE  DeliveryInv'
<1>1. PICK row, inv : row = order[o] /\ inv = invoice[o]
  OBVIOUS
<1>2. /\ row \in OrderRow /\ inv \in InvoiceRow
      /\ Touch(o, row, inv) /\ Keeps(o, row, inv)
      /\ Undisturbed(o, row, inv) /\ SameAgent(o, row) /\ DraftOpen(o, row, inv)
  BY <1>1, RowTypes, SameRows
<1>3. DraftPassed(r, next, o, row, inv)
  BY <1>2 DEF DraftPassed
<1> QED
  BY <1>2, <1>3, ActingStep

LEMMA CreateFailsStep ==
  ASSUME DeliveryInv, NEW r \in Requests, CreateFails(r), UNCHANGED happened
  PROVE  DeliveryInv'
<1>1. PICK o, next : o = request[r].o /\ next = [request[r] EXCEPT !.do = "cancel_orphan"]
  OBVIOUS
<1>2. request[r].do = "create"
  BY DEF CreateFails, At
<1>3. /\ o \in Orders /\ order[o].status = "none" /\ invoice[o].status = "draft" /\ Works(r, o)
      /\ \A p : Works(r, p) => p = o
  BY <1>1, <1>2, AtWork DEF StillSo, Exclusive
<1>4. next \in Work /\ next.do = "cancel_orphan" /\ next.o = o
  BY <1>1, <1>2, AtWork DEF Work, Exclusive
<1>5. GoesOn(r, next)
  <2>1. StillSo(next, order'[o], invoice'[o], "assign" \in happened')
    BY <1>3, <1>4 DEF CreateFails, StillSo, DriverOperations
  <2>2. \A q \in Requests \ {r} : ~Works(q, o)
    BY <1>3 DEF DeliveryInv, OneAtWork
  <2> QED
    BY <1>4, <2>1, <2>2 DEF GoesOn
<1>6. request' = [request EXCEPT ![r] = next] /\ UNCHANGED <<order, invoice, settlements>>
  BY <1>1 DEF CreateFails, Then, Continue
<1>7. next.do \in Exclusive
  BY <1>4 DEF Exclusive
<1> QED
  BY <1>3, <1>4, <1>5, <1>6, <1>7, MovesOn

LEMMA CancelOrphanStep ==
  ASSUME DeliveryInv, NEW r \in Requests, CancelOrphan(r), UNCHANGED happened
  PROVE  DeliveryInv'
<1>1. PICK o, row, inv :
        o = request[r].o /\ row = order[o] /\ inv = [invoice[o] EXCEPT !.status = "cancelled"]
  OBVIOUS
<1>2. request[r].do = "cancel_orphan"
  BY DEF CancelOrphan, At
<1>3. /\ o \in Orders /\ row.status = "none" /\ invoice[o].status = "draft" /\ Works(r, o)
      /\ \A p : Works(r, p) => p = o
  BY <1>1, <1>2, AtWork DEF StillSo, Exclusive
<1>4. row \in OrderRow /\ invoice[o] \in InvoiceRow /\ Sound(row, invoice[o], "desk" \in happened)
  BY <1>1, <1>3, RowTypes
<1>5. /\ inv \in InvoiceRow /\ inv.status = "cancelled" /\ inv.paid = invoice[o].paid
      /\ inv.returned = invoice[o].returned /\ inv.receipt = invoice[o].receipt
      /\ inv.back = invoice[o].back
  BY <1>1, <1>4 DEF InvoiceRow
<1>6. Touch(o, row, inv)
  BY <1>1, <1>3 DEF CancelOrphan, Touch, DeliveryInv, DeliveryTyped
<1>7. Keeps(o, row, inv)
  <2>1. StatusesAgree(row, inv) /\ GivenBack(row, inv) /\ LeftAlone(row, inv)
    BY <1>3, <1>5 DEF StatusesAgree, GivenBack, LeftAlone, Waiting, Closed
  <2>2. PaymentsAgree(row, inv)
    BY <1>3, <1>4, <1>5 DEF Sound, PaymentsAgree, Waiting
  <2>3. Gentle(order[o], invoice[o], row, inv)
    BY <1>1, <1>3, <1>5 DEF Gentle, Closed
  <2> QED
    BY <1>1, <2>1, <2>2, <2>3 DEF Keeps, Sound
<1>8. PICK next : next = Idle
  OBVIOUS
<1>9. request' = [request EXCEPT ![r] = next] /\ UNCHANGED settlements /\ GoesOn(r, next)
  BY <1>8 DEF CancelOrphan, End, Continue, GoesOn
<1>10. DraftPassed(r, next, o, row, inv) /\ SameAgent(o, row)
  BY <1>1, <1>3, <1>5 DEF DraftPassed, SameAgent
<1> QED
  BY <1>3, <1>4, <1>5, <1>6, <1>7, <1>9, <1>10, ActingStep

-----------------------------------------------------------------------------
(* A till's sales for delivery *)

LEMMA PosSaleStep ==
  ASSUME DeliveryInv, NEW o \in Orders, NEW known \in BOOLEAN, NEW cod \in BOOLEAN,
         PosSale(o, known, cod), UNCHANGED happened
  PROVE  DeliveryInv'
<1>1. PICK row, inv :
        row = order[o] /\ inv = IssuedPaid([NoInvoice EXCEPT !.known = known], cod)
  OBVIOUS
<1>2. /\ row \in OrderRow /\ invoice[o].status = "none"
      /\ Sound(row, invoice[o], "desk" \in happened)
  BY <1>1, RowTypes DEF PosSale
<1>3. /\ inv.status = "issued" /\ inv.paid = Amount /\ inv.receipt = Amount /\ inv.returned = 0
      /\ inv.back = 0 /\ inv.byCourier = cod
  BY <1>1 DEF IssuedPaid, NoInvoice
<1>4. inv \in InvoiceRow
  <2>1. inv = [status |-> "issued", known |-> known, paid |-> Amount, returned |-> 0,
               byCourier |-> cod, receipt |-> Amount, back |-> 0]
    BY <1>1 DEF IssuedPaid, NoInvoice
  <2>2. Amount \in Nat /\ 0 \in 0 .. Amount
    BY DeliveryAssumption
  <2> QED
    BY <2>1, <2>2 DEF InvoiceRow
<1>5. row.status = "none"
  BY <1>2 DEF Sound, StatusesAgree, OrderRow, OrderStatuses
<1>6. Touch(o, row, inv)
  BY <1>1 DEF PosSale, Touch, DeliveryInv, DeliveryTyped
<1>7. Keeps(o, row, inv)
  <2>1. StatusesAgree(row, inv) /\ GivenBack(row, inv) /\ LeftAlone(row, inv)
    BY <1>3, <1>5 DEF StatusesAgree, GivenBack, LeftAlone, Waiting, Closed
  <2>2. PaymentsAgree(row, inv)
    BY <1>3, <1>5 DEF PaymentsAgree, Waiting
  <2>3. Gentle(order[o], invoice[o], row, inv)
    BY <1>1, <1>2, <1>3, <1>5 DEF Gentle, Closed
  <2> QED
    BY <1>1, <2>1, <2>2, <2>3 DEF Keeps, Sound
<1>8. Undisturbed(o, row, inv) /\ SameAgent(o, row) /\ DraftOpen(o, row, inv)
  BY <1>1, <1>2, <1>3 DEF Undisturbed, SameAgent, DraftOpen
<1> QED
  BY <1>2, <1>4, <1>6, <1>7, <1>8, QuietStep DEF PosSale

LEMMA RecordFromPosStep ==
  ASSUME DeliveryInv, NEW o \in Orders, NEW agent \in Agents \cup {None}, NEW out \in BOOLEAN,
         RecordFromPos(o, agent, out), UNCHANGED happened
  PROVE  DeliveryInv'
<1>1. PICK row, inv :
        /\ inv = invoice[o]
        /\ row = [NoOrder EXCEPT !.status = CASE agent = None -> "new"
                                              [] agent # None /\ out -> "out"
                                              [] OTHER -> "assigned",
                                 !.agent = agent, !.cod = inv.byCourier,
                                 !.codAmount = IF inv.byCourier THEN Amount ELSE 0]
  OBVIOUS
<1>2. /\ inv \in InvoiceRow /\ inv.status = "issued" /\ order[o].status = "none"
      /\ Sound(order[o], inv, "desk" \in happened)
  BY <1>1, RowTypes DEF RecordFromPos
<1>3. inv.byCourier \in BOOLEAN
  BY <1>2 DEF InvoiceRow
<1>4. /\ row.status \in {"new", "assigned", "out"} /\ row.cod = inv.byCourier
      /\ row.codAmount = (IF inv.byCourier THEN Amount ELSE 0)
  BY <1>1 DEF NoOrder
<1>5. row \in OrderRow
  BY <1>1, <1>3, DeliveryAssumption DEF OrderRow, OrderStatuses, NoOrder, Waiting
<1>6. Touch(o, row, inv)
  BY <1>1 DEF RecordFromPos, Touch, DeliveryInv, DeliveryTyped
<1>7. Keeps(o, row, inv)
  <2>1. StatusesAgree(row, inv) /\ GivenBack(row, inv)
    BY <1>2, <1>4 DEF StatusesAgree, GivenBack, Waiting, Closed
  <2>2. PaymentsAgree(row, inv)
    BY <1>2, <1>4 DEF PaymentsAgree, Waiting
  <2>3. LeftAlone(order[o], inv) => LeftAlone(row, inv)
    BY <1>2, <1>4 DEF LeftAlone, Waiting
  <2>4. Gentle(order[o], invoice[o], row, inv)
    BY <1>1, <1>2, <1>4 DEF Gentle, Closed
  <2> QED
    BY <1>2, <2>1, <2>2, <2>3, <2>4 DEF Keeps, Sound, Closed
<1>8. Undisturbed(o, row, inv) /\ SameAgent(o, row) /\ DraftOpen(o, row, inv)
  BY <1>1, <1>2 DEF Undisturbed, SameAgent, DraftOpen
<1> QED
  BY <1>2, <1>5, <1>6, <1>7, <1>8, QuietStep DEF RecordFromPos

-----------------------------------------------------------------------------
(* The transactions on a locked order *)

LEMMA AssignStep ==
  ASSUME DeliveryInv, AssignOrder
  PROVE  DeliveryInv'
<1>1. PICK o \in Orders, agent \in Agents :
        /\ Assign(o, agent) /\ UNCHANGED request
        /\ IF \E r \in Requests : request[r].do \in DriverOperations /\ request[r].o = o
           THEN Happens("assign") ELSE UNCHANGED happened
  BY DEF AssignOrder
<1>2. PICK row, inv :
        row = [order[o] EXCEPT !.status = "assigned", !.agent = agent] /\ inv = invoice[o]
  OBVIOUS
<1>3. /\ order[o] \in OrderRow /\ inv \in InvoiceRow /\ order[o].status \in Waiting
      /\ Sound(order[o], inv, "desk" \in happened)
  BY <1>1, <1>2, RowTypes DEF Assign
<1>4. /\ row \in OrderRow /\ row.status = "assigned" /\ row.cod = order[o].cod
      /\ row.codAmount = order[o].codAmount
  BY <1>2, <1>3 DEF OrderRow, OrderStatuses, Waiting
<1>5. Touch(o, row, inv)
  BY <1>1, <1>2 DEF Assign, Touch, DeliveryInv, DeliveryTyped
<1>6. happened \subseteq happened' /\ ("desk" \in happened' <=> "desk" \in happened)
  BY <1>1 DEF Happens
<1>7. Keeps(o, row, inv)
  <2>1. StatusesAgree(row, inv) /\ GivenBack(row, inv)
    BY <1>3, <1>4 DEF Sound, StatusesAgree, GivenBack, Waiting, Closed
  <2>2. PaymentsAgree(row, inv)
    BY <1>3, <1>4 DEF Sound, PaymentsAgree, Waiting
  <2>3. LeftAlone(order[o], inv) => LeftAlone(row, inv)
    BY <1>3, <1>4 DEF LeftAlone, Waiting
  <2>4. Gentle(order[o], invoice[o], row, inv)
    BY <1>2, <1>3, <1>4 DEF Gentle, Closed, Waiting
  <2> QED
    BY <1>3, <1>6, <2>1, <2>2, <2>3, <2>4 DEF Keeps, Sound, Closed, Waiting
<1>8. RequestsGoOn(o, row, inv)
  <2>1. ASSUME NEW q \in Requests PROVE Kept(q, o, row, inv)
    <3>1. ~Works(q, o)
      BY <1>3, WorksMeans DEF Waiting
    <3>2. ~(request[q].do \in DriverOperations /\ request[q].o = o /\ "assign" \notin happened')
      BY <1>1 DEF Happens
    <3> QED
      BY <1>1, <3>1, <3>2 DEF Kept
  <2> QED
    BY <1>1, <2>1 DEF RequestsGoOn, DeliveryInv, DeliveryTyped
<1>9. DraftLeft(o, row, inv)
  BY <1>1, <1>4 DEF DraftLeft, Waiting
<1> QED
  BY <1>1, <1>3, <1>4, <1>5, <1>6, <1>7, <1>8, <1>9, Step DEF Assign

OrderMoves(o, row, inv) ==
  /\ row \in OrderRow /\ inv \in InvoiceRow /\ Touch(o, row, inv) /\ Keeps(o, row, inv)
  /\ Undisturbed(o, row, inv) /\ SameAgent(o, row) /\ DraftOpen(o, row, inv)
  /\ UNCHANGED settlements

LEMMA DispatchRows ==
  ASSUME DeliveryInv, NEW o \in Orders, Dispatch(o), UNCHANGED happened
  PROVE  \E row, inv : OrderMoves(o, row, inv)
<1>1. PICK row, inv :
        /\ row = [order[o] EXCEPT !.status = "out"]
        /\ inv = IF invoice[o].status = "issued" THEN invoice[o] ELSE IssuedPaid(invoice[o], order[o].cod)
  OBVIOUS
<1>2. /\ order[o] \in OrderRow /\ invoice[o] \in InvoiceRow /\ order[o].status = "assigned"
      /\ Sound(order[o], invoice[o], "desk" \in happened)
      /\ invoice[o].status \in {"issued", "draft"}
  BY RowTypes DEF Dispatch
<1>3. /\ row \in OrderRow /\ row.status = "out" /\ row.cod = order[o].cod
      /\ row.codAmount = order[o].codAmount /\ row.agent = order[o].agent /\ row.cod \in BOOLEAN
  BY <1>1, <1>2 DEF OrderRow, OrderStatuses
<1>4. Touch(o, row, inv)
  BY <1>1, <1>2 DEF Dispatch, Touch, DeliveryInv, DeliveryTyped
<1>5. CASE invoice[o].status = "issued"
  <2>1. inv = invoice[o]
    BY <1>1, <1>5
  <2>2. StatusesAgree(row, inv) /\ GivenBack(row, inv)
    BY <1>3, <1>5, <2>1 DEF StatusesAgree, GivenBack, Waiting, Closed
  <2>3. PaymentsAgree(row, inv)
    BY <1>2, <1>3, <2>1 DEF Sound, PaymentsAgree, Waiting
  <2>4. LeftAlone(order[o], inv) => LeftAlone(row, inv)
    BY <1>2, <1>3 DEF LeftAlone, Waiting
  <2>5. Gentle(order[o], invoice[o], row, inv)
    BY <1>2, <1>3, <2>1 DEF Gentle, Closed
  <2>6. Keeps(o, row, inv)
    BY <1>2, <2>1, <2>2, <2>3, <2>4, <2>5 DEF Keeps, Sound, Closed
  <2>7. Undisturbed(o, row, inv) /\ SameAgent(o, row) /\ DraftOpen(o, row, inv)
    BY <1>2, <1>3, <1>5, <2>1 DEF Undisturbed, SameAgent, DraftOpen
  <2> QED
    BY <1>2, <1>3, <1>4, <2>1, <2>6, <2>7 DEF OrderMoves, Dispatch
<1>6. CASE invoice[o].status # "issued"
  <2>1. /\ inv = IssuedPaid(invoice[o], row.cod)
    BY <1>1, <1>3, <1>6
  <2>2. /\ inv.status = "issued" /\ inv.paid = Amount /\ inv.receipt = Amount
        /\ inv.returned = invoice[o].returned /\ inv.back = invoice[o].back /\ inv.byCourier = row.cod
    BY <1>2, <2>1 DEF IssuedPaid, InvoiceRow
  <2>3. inv.returned = 0 /\ inv.back = 0
    BY <1>2, <1>6, <2>2 DEF Sound, PaymentsAgree
  <2>4. inv \in InvoiceRow
    BY <1>2, <1>3, <2>1, DeliveryAssumption DEF IssuedPaid, InvoiceRow
  <2>5. StatusesAgree(row, inv) /\ GivenBack(row, inv) /\ LeftAlone(row, inv)
    BY <1>3, <2>2, <2>3 DEF StatusesAgree, GivenBack, LeftAlone, Waiting, Closed
  <2>6. PaymentsAgree(row, inv)
    BY <1>2, <1>3, <2>2 DEF Sound, PaymentsAgree, Waiting
  <2>7. Gentle(order[o], invoice[o], row, inv)
    BY <1>2, <1>3, <2>2 DEF Gentle, Closed
  <2>8. Keeps(o, row, inv)
    BY <1>2, <2>5, <2>6, <2>7 DEF Keeps, Sound, Closed
  <2>9. Undisturbed(o, row, inv) /\ SameAgent(o, row) /\ DraftOpen(o, row, inv)
    BY <1>2, <1>3, <2>2 DEF Undisturbed, SameAgent, DraftOpen
  <2> QED
    BY <1>2, <1>3, <1>4, <2>4, <2>8, <2>9 DEF OrderMoves, Dispatch
<1> QED
  BY <1>5, <1>6

LEMMA DeliverRows ==
  ASSUME DeliveryInv, NEW o \in Orders, Deliver(o), UNCHANGED happened
  PROVE  \E row, inv : OrderMoves(o, row, inv)
<1>1. PICK row, inv : row = [order[o] EXCEPT !.status = "delivered"] /\ inv = invoice[o]
  OBVIOUS
<1>2. /\ order[o] \in OrderRow /\ inv \in InvoiceRow /\ order[o].status = "out"
      /\ Sound(order[o], inv, "desk" \in happened)
  BY <1>1, RowTypes DEF Deliver
<1>3. /\ row \in OrderRow /\ row.status = "delivered" /\ row.cod = order[o].cod
      /\ row.codAmount = order[o].codAmount /\ row.agent = order[o].agent
  BY <1>1, <1>2 DEF OrderRow, OrderStatuses, Closed
<1>4. Touch(o, row, inv)
  BY <1>1 DEF Deliver, Touch, DeliveryInv, DeliveryTyped
<1>5. StatusesAgree(row, inv) /\ GivenBack(row, inv)
  BY <1>2, <1>3 DEF Sound, StatusesAgree, GivenBack, Waiting, Closed
<1>6. PaymentsAgree(row, inv)
  BY <1>2, <1>3 DEF Sound, PaymentsAgree, Waiting
<1>7. LeftAlone(order[o], inv) => LeftAlone(row, inv)
  BY <1>2, <1>3 DEF LeftAlone, Waiting
<1>8. Gentle(order[o], invoice[o], row, inv)
  BY <1>1, <1>2, <1>3 DEF Gentle, Closed
<1>9. Keeps(o, row, inv)
  BY <1>2, <1>5, <1>6, <1>7, <1>8 DEF Keeps, Sound, Closed
<1>10. Undisturbed(o, row, inv) /\ SameAgent(o, row) /\ DraftOpen(o, row, inv)
  <2>1. inv.status = "issued"
    BY <1>2 DEF Sound, StatusesAgree
  <2> QED
    BY <1>1, <1>2, <1>3, <2>1 DEF Undisturbed, SameAgent, DraftOpen
<1> QED
  BY <1>2, <1>3, <1>4, <1>9, <1>10 DEF OrderMoves, Deliver

(* The rest of an order's invoice is reversed: what it leaves *)
LEMMA ReversedRows ==
  ASSUME DeliveryInv, NEW o \in Orders, invoice[o].status = "issued",
         order[o].status \in {"out"} \cup Waiting,
         NEW status \in {"failed", "cancelled"}, status = "cancelled" => order[o].status \in Waiting,
         Reverse(o), order' = [order EXCEPT ![o].status = status, ![o].codAmount = 0],
         UNCHANGED <<settlements, happened>>, status = "failed" => order[o].status = "out"
  PROVE  \E row, inv : OrderMoves(o, row, inv)
<1>1. PICK row, inv :
        /\ row = [order[o] EXCEPT !.status = status, !.codAmount = 0]
        /\ inv = [invoice[o] EXCEPT !.returned = Amount, !.paid = 0,
                                    !.back = @ + IF order[o].cod THEN invoice[o].paid ELSE 0]
  OBVIOUS
<1>2. /\ order[o] \in OrderRow /\ invoice[o] \in InvoiceRow
      /\ Sound(order[o], invoice[o], "desk" \in happened)
  BY RowTypes
<1>3. /\ row \in OrderRow /\ row.status = status /\ row.cod = order[o].cod
      /\ row.agent = order[o].agent
  BY <1>1, <1>2 DEF OrderRow, OrderStatuses, Closed
<1>4. PICK back : back = invoice[o].back + IF order[o].cod THEN invoice[o].paid ELSE 0
  OBVIOUS
<1>5. /\ inv = [invoice[o] EXCEPT !.returned = Amount, !.paid = 0, !.back = back]
      /\ back \in Nat
  BY <1>1, <1>2, <1>4 DEF InvoiceRow
<1>6. /\ inv \in InvoiceRow /\ inv.status = "issued" /\ inv.returned = Amount /\ inv.paid = 0
      /\ inv.back = back /\ inv.byCourier = invoice[o].byCourier /\ inv.receipt = invoice[o].receipt
  <2>1. Amount \in Nat /\ Amount \in 0 .. Amount
    BY DeliveryAssumption
  <2>2. inv \in InvoiceRow
    BY <1>2, <1>5, <2>1 DEF InvoiceRow
  <2> QED
    BY <1>2, <1>5, <2>2 DEF InvoiceRow
<1>7. Touch(o, row, inv)
  BY <1>1 DEF Reverse, Touch, DeliveryInv, DeliveryTyped
<1>8. StatusesAgree(row, inv) /\ GivenBack(row, inv)
  BY <1>3, <1>6 DEF StatusesAgree, GivenBack, Waiting, Closed
<1>9. PaymentsAgree(row, inv)
  BY <1>2, <1>3, <1>6 DEF Sound, PaymentsAgree, Waiting, Closed
<1>10. LeftAlone(order[o], invoice[o]) => LeftAlone(row, inv)
  <2> SUFFICES ASSUME LeftAlone(order[o], invoice[o]), status = "failed" PROVE OnAgent(inv) = 0
    BY <1>3, <1>6 DEF LeftAlone, Waiting
  <2>1. invoice[o].paid = Amount /\ invoice[o].receipt = Amount /\ invoice[o].back = 0
    BY DEF LeftAlone
  <2>2. order[o].cod = invoice[o].byCourier /\ order[o].cod \in BOOLEAN
    BY <1>2 DEF Sound, PaymentsAgree, Waiting, OrderRow
  <2>3. back = IF order[o].cod THEN Amount ELSE 0
    BY <1>4, <2>1, DeliveryAssumption
  <2> QED
    BY <1>6, <2>1, <2>2, <2>3, DeliveryAssumption DEF OnAgent
<1>11. Gentle(order[o], invoice[o], row, inv)
  BY <1>1, <1>2, <1>3, <1>6 DEF Gentle, Closed, Waiting
<1>12. Keeps(o, row, inv)
  BY <1>2, <1>8, <1>9, <1>10, <1>11 DEF Keeps, Sound, Closed, Waiting
<1>13. Undisturbed(o, row, inv) /\ SameAgent(o, row) /\ DraftOpen(o, row, inv)
  BY <1>3, <1>6 DEF Undisturbed, SameAgent, DraftOpen
<1> QED
  BY <1>3, <1>6, <1>7, <1>12, <1>13 DEF OrderMoves

LEMMA FailRows ==
  ASSUME DeliveryInv, NEW o \in Orders, Fail(o), UNCHANGED happened
  PROVE  \E row, inv : OrderMoves(o, row, inv)
<1>1. order[o].status = "out" /\ invoice[o].status = "issued"
  BY RowTypes DEF Fail, Sound, StatusesAgree
<1> QED
  BY <1>1, ReversedRows DEF Fail

LEMMA OfficeStep ==
  ASSUME DeliveryInv, NEW o \in Orders, Dispatch(o) \/ Deliver(o) \/ Fail(o),
         UNCHANGED <<request, happened>>
  PROVE  DeliveryInv'
<1>1. PICK row, inv : OrderMoves(o, row, inv)
  BY DispatchRows, DeliverRows, FailRows
<1> QED
  BY <1>1, QuietStep DEF OrderMoves

LEMMA SettleStep ==
  ASSUME DeliveryInv, NEW agent \in Agents, NEW orders \in SUBSET Orders, Settle(agent, orders),
         UNCHANGED <<request, happened>>
  PROVE  DeliveryInv'
<1>1. PICK s : s = [number |-> Cardinality(settlements) + 1, agent |-> agent, orders |-> orders,
                    collected |-> Collected(orders)]
  OBVIOUS
<1>2. /\ settlements' = settlements \cup {s} /\ UNCHANGED invoice
      /\ s.agent = agent /\ s.orders = orders /\ s.collected = Collected(orders)
      /\ \A o \in orders : order[o].agent = agent /\ ~order[o].settled /\ order[o].status \in Closed
  BY <1>1 DEF Settle, Settles
<1>3. ASSUME NEW o \in Orders
      PROVE  /\ order'[o] \in OrderRow /\ order'[o].status = order[o].status
             /\ order'[o].agent = order[o].agent /\ order'[o].cod = order[o].cod
             /\ order'[o].codAmount = order[o].codAmount
             /\ order'[o].settled = (order[o].settled \/ o \in orders)
  <2>1. PICK settled : settled = (order[o].settled \/ o \in orders)
    OBVIOUS
  <2>2. order[o] \in OrderRow
    BY RowTypes
  <2>3. order'[o] = [order[o] EXCEPT !.settled = settled] /\ settled \in BOOLEAN
    BY <2>1, <2>2 DEF Settle, OrderRow
  <2> QED
    BY <2>1, <2>2, <2>3 DEF OrderRow
<1>4. DeliveryTyped'
  <2>1. order' \in [Orders -> OrderRow]
    BY <1>3 DEF Settle
  <2>2. \A t \in settlements' : t.orders \subseteq Orders
    BY <1>2 DEF DeliveryInv, DeliveryTyped
  <2> QED
    BY <1>2, <2>1, <2>2 DEF DeliveryInv, DeliveryTyped
<1>5. OrdersSound'
  <2> SUFFICES ASSUME NEW o \in Orders PROVE Sound(order'[o], invoice[o], "desk" \in happened)
    BY <1>2 DEF OrdersSound
  <2> QED
    BY <1>3, RowTypes DEF Sound, StatusesAgree, PaymentsAgree, GivenBack, LeftAlone
<1>6. RequestsSound'
  <2> SUFFICES ASSUME NEW q \in Requests, request[q].do # "idle"
               PROVE  StillSo(request[q], order'[request[q].o], invoice[request[q].o],
                              "assign" \in happened)
    BY <1>2 DEF RequestsSound, At
  <2>1. request[q].o \in Orders
          /\ StillSo(request[q], order[request[q].o], invoice[request[q].o], "assign" \in happened)
    BY AtWork
  <2> QED
    BY <1>3, <2>1 DEF StillSo
<1>7. OneAtWork'
  BY DEF DeliveryInv, OneAtWork, Works
<1>8. DraftsHeld'
  BY <1>2, <1>3 DEF DeliveryInv, DraftsHeld, Works
<1>9. SettledOnce'
  <2>1. ASSUME NEW t \in settlements
        PROVE  /\ t.orders \subseteq Orders /\ t.collected = Collected(t.orders)
               /\ \A o \in t.orders :
                    order[o].settled /\ order[o].agent = t.agent /\ order[o].status \in Closed
    BY DEF DeliveryInv, DeliveryTyped, SettledOnce
  <2>2. ASSUME NEW T \in SUBSET Orders PROVE Collected(T)' = Collected(T)
    BY <1>3, CollectedSame
  <2>3. \A t \in settlements' : t.collected = Collected(t.orders)'
    BY <1>2, <2>1, <2>2
  <2>4. \A t \in settlements' : \A o \in t.orders :
          order'[o].settled /\ order'[o].agent = t.agent /\ order'[o].status \in Closed
    <3>1. \A t \in settlements' : \A o \in t.orders :
            o \in Orders /\ (order[o].settled \/ o \in orders) /\ order[o].agent = t.agent
              /\ order[o].status \in Closed
      BY <1>2, <2>1
    <3>2. \A o \in Orders : order[o].settled \/ o \in orders => order'[o].settled
      BY <1>3
    <3>3. \A o \in Orders : order'[o].agent = order[o].agent /\ order'[o].status = order[o].status
      BY <1>3
    <3> QED
      BY <3>1, <3>2, <3>3
  <2>5. ASSUME NEW t \in settlements', NEW u \in settlements', t.orders \cap u.orders # {}
        PROVE  t = u
    BY <1>2, <2>1, <2>5 DEF DeliveryInv, SettledOnce
  <2> QED
    BY <2>3, <2>4, <2>5 DEF SettledOnce
<1> QED
  BY <1>4, <1>5, <1>6, <1>7, <1>8, <1>9 DEF DeliveryInv

-----------------------------------------------------------------------------
(* A driver's phone *)

LEMMA DriverOperationStep ==
  ASSUME DeliveryInv, NEW r \in Requests, NEW agent \in Agents, NEW do \in DriverOperations,
         NEW o \in Orders, DriverOperation(r, agent, do, o), UNCHANGED happened
  PROVE  DeliveryInv'
<1>1. PICK next : next = [Idle EXCEPT !.do = do, !.o = o, !.agent = agent]
  OBVIOUS
<1>2. /\ next \in Work /\ next.do = do /\ next.o = o /\ next.agent = agent
  BY <1>1 DEF Work, Idle
<1>3. order[o].agent = agent /\ order[o].status # "none"
  BY DEF DriverOperation, DriverMay
<1>4. GoesOn(r, next)
  <2>1. do \notin Exclusive /\ do \notin {"cancel_draft", "cancel_issued"}
    BY DEF DriverOperations, Exclusive
  <2>2. StillSo(next, order'[o], invoice'[o], "assign" \in happened')
    BY <1>2, <1>3, <2>1 DEF DriverOperation, StillSo, Exclusive
  <2> QED
    BY <1>2, <2>1, <2>2 DEF GoesOn
<1>5. \A p : ~Works(r, p)
  BY AtOnce DEF DriverOperation, At, Exclusive
<1>6. request' = [request EXCEPT ![r] = next] /\ UNCHANGED <<order, invoice, settlements>>
  BY <1>1 DEF DriverOperation, Continue
<1> QED
  BY <1>4, <1>5, <1>6, MovesOn

LEMMA RunDriverStep ==
  ASSUME DeliveryInv, NEW r \in Requests, RunDriver(r), UNCHANGED happened
  PROVE  DeliveryInv'
<1>1. PICK o, next : o = request[r].o /\ next = Idle
  OBVIOUS
<1>2. request' = [request EXCEPT ![r] = next] /\ GoesOn(r, next)
  BY <1>1 DEF RunDriver, End, Continue, GoesOn
<1>3. o \in Orders
  BY <1>1, DriverMeans DEF RunDriver
<1>4. \A p : ~Works(r, p)
  BY AtOnce DEF RunDriver, DriverOperations, Exclusive
<1>5. CASE Possible(request[r].do, o)
  <2>1. Dispatch(o) \/ Deliver(o) \/ Fail(o)
    BY <1>1, <1>5 DEF RunDriver, Operation
  <2>2. PICK row, inv : OrderMoves(o, row, inv)
    BY <1>3, <2>1, DispatchRows, DeliverRows, FailRows
  <2>3. DraftPassed(r, next, o, row, inv)
    BY <1>4, <2>2 DEF DraftPassed, OrderMoves
  <2> QED
    BY <1>2, <1>3, <2>2, <2>3, ActingStep DEF OrderMoves
<1>6. CASE ~Possible(request[r].do, o)
  <2>1. UNCHANGED <<order, invoice, settlements>>
    BY <1>1, <1>6 DEF RunDriver
  <2> QED
    BY <1>2, <1>3, <1>4, <2>1, MovesOn
<1> QED
  BY <1>5, <1>6

-----------------------------------------------------------------------------
(* cancel *)

LEMMA CancelStep ==
  ASSUME DeliveryInv, NEW r \in Requests, NEW o \in Orders, Cancel(r, o), UNCHANGED happened
  PROVE  DeliveryInv'
<1>1. PICK next, do :
        /\ do = IF invoice[o].status = "issued" THEN "cancel_issued" ELSE "cancel_draft"
        /\ next = [Idle EXCEPT !.do = do, !.o = o, !.status = order[o].status]
  OBVIOUS
<1>2. order[o].status \in Waiting /\ order[o].status # "none" /\ UNCHANGED <<order, invoice, settlements>>
        /\ request' = [request EXCEPT ![r] = next]
  BY <1>1 DEF Cancel, Continue, Waiting
<1>3. next \in Work /\ next.do = do /\ next.o = o /\ next.status = order[o].status
  BY <1>1, <1>2 DEF Work, Idle
<1>4. GoesOn(r, next)
  <2>1. do \notin Exclusive /\ do \notin DriverOperations
    BY <1>1 DEF DriverOperations, Exclusive
  <2>2. StillSo(next, order'[o], invoice'[o], "assign" \in happened')
    BY <1>1, <1>2, <1>3, <2>1 DEF StillSo, Exclusive
  <2> QED
    BY <1>3, <2>1, <2>2 DEF GoesOn
<1>5. \A p : ~Works(r, p)
  BY AtOnce DEF Cancel, At, Exclusive
<1> QED
  BY <1>2, <1>4, <1>5, MovesOn

LEMMA CancelIssuedStep ==
  ASSUME DeliveryInv, NEW r \in Requests, CancelIssued(r), UNCHANGED happened
  PROVE  DeliveryInv'
<1>1. PICK o, next : o = request[r].o /\ next = Idle
  OBVIOUS
<1>2. request[r].do = "cancel_issued"
  BY DEF CancelIssued, At
<1>3. o \in Orders /\ invoice[o].status = "issued"
  BY <1>1, <1>2, AtWork DEF StillSo
<1>4. request' = [request EXCEPT ![r] = next] /\ GoesOn(r, next) /\ UNCHANGED settlements
  BY <1>1 DEF CancelIssued, End, Continue, GoesOn
<1>5. \A p : ~Works(r, p)
  BY <1>2, AtOnce DEF Exclusive
<1>6. CASE order[o].status \in Waiting /\ invoice[o].returned < Amount
  <2>1. Reverse(o) /\ order' = [order EXCEPT ![o].status = "cancelled", ![o].codAmount = 0]
    BY <1>1, <1>6 DEF CancelIssued
  <2>2. PICK row, inv : OrderMoves(o, row, inv)
    BY <1>3, <1>4, <1>6, <2>1, ReversedRows
  <2>3. DraftPassed(r, next, o, row, inv)
    BY <1>5, <2>2 DEF DraftPassed, OrderMoves
  <2> QED
    BY <1>3, <1>4, <2>2, <2>3, ActingStep DEF OrderMoves
<1>7. CASE ~(order[o].status \in Waiting /\ invoice[o].returned < Amount)
  <2>1. UNCHANGED <<order, invoice>>
    BY <1>1, <1>7 DEF CancelIssued
  <2> QED
    BY <1>3, <1>4, <1>5, <2>1, MovesOn
<1> QED
  BY <1>6, <1>7

LEMMA CancelDraftStep ==
  ASSUME DeliveryInv, NEW r \in Requests, CancelDraft(r), UNCHANGED happened
  PROVE  DeliveryInv'
<1>1. PICK o : o = request[r].o
  OBVIOUS
<1>2. request[r].do = "cancel_draft"
  BY DEF CancelDraft, At
<1>3. /\ o \in Orders /\ order[o].status # "none" /\ request[r].status \in Waiting
      /\ invoice[o].status = "issued" => order[o].status \in {"out"} \cup Closed
  BY <1>1, <1>2, AtWork DEF StillSo
<1>4. UNCHANGED <<invoice, settlements>> /\ \A p : ~Works(r, p)
  BY <1>2, AtOnce DEF CancelDraft, Exclusive
<1>5. CASE order[o].status = request[r].status
  <2>1. PICK row, inv, next :
          /\ row = [order[o] EXCEPT !.status = "cancelled"] /\ inv = invoice[o]
          /\ next = [request[r] EXCEPT !.do = "cancel_invoice"]
    OBVIOUS
  <2>2. /\ order[o] \in OrderRow /\ inv \in InvoiceRow /\ Sound(order[o], inv, "desk" \in happened)
    BY <1>3, <2>1, RowTypes
  <2>3. inv.status = "draft"
    BY <1>3, <1>5, <2>1, <2>2 DEF Sound, StatusesAgree, Waiting, Closed
  <2>4. /\ row \in OrderRow /\ row.status = "cancelled" /\ row.cod = order[o].cod
        /\ row.codAmount = order[o].codAmount /\ row.agent = order[o].agent
    BY <2>1, <2>2 DEF OrderRow, OrderStatuses
  <2>5. Touch(o, row, inv)
    BY <1>1, <1>4, <1>5, <2>1 DEF CancelDraft, Touch, DeliveryInv, DeliveryTyped
  <2>6. Keeps(o, row, inv)
    <3>1. StatusesAgree(row, inv) /\ GivenBack(row, inv) /\ LeftAlone(row, inv)
      BY <2>3, <2>4 DEF StatusesAgree, GivenBack, LeftAlone, Waiting, Closed
    <3>2. PaymentsAgree(row, inv)
      BY <1>3, <1>5, <2>2, <2>3, <2>4 DEF Sound, PaymentsAgree, Waiting
    <3>3. Gentle(order[o], invoice[o], row, inv)
      BY <1>3, <1>5, <2>1, <2>3, <2>4 DEF Gentle, Closed, Waiting
    <3> QED
      BY <1>3, <1>5, <3>1, <3>2, <3>3 DEF Keeps, Sound, Closed, Waiting
  <2>7. /\ next \in Work /\ next.do = "cancel_invoice" /\ next.o = o
        /\ next.status = request[r].status
    <3>1. request[r] \in Work
      BY <1>2, AtWork
    <3> QED
      BY <1>1, <2>1, <3>1 DEF Work, Exclusive
  <2>8. GoesOn(r, next)
    <3>1. order'[o] = row /\ invoice'[o] = inv
      BY <1>3, <2>5 DEF Touch, DeliveryInv, DeliveryTyped
    <3>2. StillSo(next, row, inv, "assign" \in happened')
      BY <1>3, <2>3, <2>4, <2>7 DEF StillSo, DriverOperations
    <3>3. \A q \in Requests : ~Works(q, o)
      BY <1>3, <1>5, WorksMeans DEF Waiting
    <3> QED
      BY <2>7, <3>1, <3>2, <3>3 DEF GoesOn
  <2>9. request' = [request EXCEPT ![r] = next]
    BY <1>1, <1>5, <2>1 DEF CancelDraft, Then, Continue
  <2>10. DraftPassed(r, next, o, row, inv) /\ Undisturbed(o, row, inv) /\ SameAgent(o, row)
    BY <1>3, <1>4, <1>5, <2>4, <2>7 DEF DraftPassed, Undisturbed, SameAgent, Exclusive, Waiting
  <2> QED
    BY <1>3, <1>4, <2>2, <2>4, <2>5, <2>6, <2>8, <2>9, <2>10, ActingStep
<1>6. CASE order[o].status # request[r].status
  <2>1. PICK next : next = Idle
    OBVIOUS
  <2>2. UNCHANGED order /\ request' = [request EXCEPT ![r] = next] /\ GoesOn(r, next)
    BY <1>1, <1>6, <2>1 DEF CancelDraft, End, Continue, GoesOn
  <2> QED
    BY <1>3, <1>4, <2>2, MovesOn
<1> QED
  BY <1>5, <1>6

(* A request that cancels an order, or puts it back *)
LEMMA Cancelling ==
  ASSUME DeliveryInv, NEW r \in Requests, request[r].do \in {"cancel_invoice", "restore"}
  PROVE  /\ request[r].o \in Orders /\ order[request[r].o].status = "cancelled"
         /\ invoice[request[r].o].status = "draft" /\ request[r].status \in Waiting
         /\ request[r] \in Work /\ Works(r, request[r].o)
         /\ \A p : Works(r, p) => p = request[r].o
  BY AtWork DEF StillSo, Exclusive

LEMMA CancelInvoiceStep ==
  ASSUME DeliveryInv, NEW r \in Requests, CancelInvoice(r), UNCHANGED happened
  PROVE  DeliveryInv'
<1>1. PICK o, row, inv :
        o = request[r].o /\ row = order[o] /\ inv = [invoice[o] EXCEPT !.status = "cancelled"]
  OBVIOUS
<1>2. request[r].do = "cancel_invoice"
  BY DEF CancelInvoice, At
<1>3. /\ o \in Orders /\ row.status = "cancelled" /\ invoice[o].status = "draft" /\ Works(r, o)
      /\ \A p : Works(r, p) => p = o
  BY <1>1, <1>2, Cancelling
<1>4. row \in OrderRow /\ invoice[o] \in InvoiceRow /\ Sound(row, invoice[o], "desk" \in happened)
  BY <1>1, <1>3, RowTypes
<1>5. /\ inv \in InvoiceRow /\ inv.status = "cancelled" /\ inv.paid = invoice[o].paid
      /\ inv.returned = invoice[o].returned /\ inv.receipt = invoice[o].receipt
      /\ inv.back = invoice[o].back
  BY <1>1, <1>4 DEF InvoiceRow
<1>6. Touch(o, row, inv)
  BY <1>1, <1>3 DEF CancelInvoice, Touch, DeliveryInv, DeliveryTyped
<1>7. Keeps(o, row, inv)
  <2>1. StatusesAgree(row, inv) /\ GivenBack(row, inv) /\ LeftAlone(row, inv)
    BY <1>3, <1>5 DEF StatusesAgree, GivenBack, LeftAlone, Waiting, Closed
  <2>2. PaymentsAgree(row, inv)
    BY <1>3, <1>4, <1>5 DEF Sound, PaymentsAgree, Waiting
  <2>3. Gentle(order[o], invoice[o], row, inv)
    BY <1>1, <1>3, <1>5 DEF Gentle, Closed
  <2> QED
    BY <1>1, <2>1, <2>2, <2>3 DEF Keeps, Sound
<1>8. PICK next : next = Idle
  OBVIOUS
<1>9. request' = [request EXCEPT ![r] = next] /\ UNCHANGED settlements /\ GoesOn(r, next)
  BY <1>8 DEF CancelInvoice, End, Continue, GoesOn
<1>10. DraftPassed(r, next, o, row, inv) /\ SameAgent(o, row)
  BY <1>1, <1>3, <1>5 DEF DraftPassed, SameAgent
<1> QED
  BY <1>3, <1>4, <1>5, <1>6, <1>7, <1>9, <1>10, ActingStep

LEMMA CancelFailsStep ==
  ASSUME DeliveryInv, NEW r \in Requests, CancelFails(r), UNCHANGED happened
  PROVE  DeliveryInv'
<1>1. PICK o, next : o = request[r].o /\ next = [request[r] EXCEPT !.do = "restore"]
  OBVIOUS
<1>2. request[r].do = "cancel_invoice"
  BY DEF CancelFails, At
<1>3. /\ o \in Orders /\ order[o].status = "cancelled" /\ invoice[o].status = "draft"
      /\ request[r].status \in Waiting /\ request[r] \in Work /\ Works(r, o)
      /\ \A p : Works(r, p) => p = o
  BY <1>1, <1>2, Cancelling
<1>4. next \in Work /\ next.do = "restore" /\ next.o = o /\ next.status = request[r].status
  BY <1>1, <1>3 DEF Work, Exclusive
<1>5. GoesOn(r, next)
  <2>1. StillSo(next, order'[o], invoice'[o], "assign" \in happened')
    BY <1>3, <1>4 DEF CancelFails, StillSo, DriverOperations
  <2>2. \A q \in Requests \ {r} : ~Works(q, o)
    BY <1>3 DEF DeliveryInv, OneAtWork
  <2> QED
    BY <1>4, <2>1, <2>2 DEF GoesOn
<1>6. request' = [request EXCEPT ![r] = next] /\ UNCHANGED <<order, invoice, settlements>>
  BY <1>1 DEF CancelFails, Then, Continue
<1>7. next.do \in Exclusive
  BY <1>4 DEF Exclusive
<1> QED
  BY <1>3, <1>4, <1>5, <1>6, <1>7, MovesOn

LEMMA RestoreStep ==
  ASSUME DeliveryInv, NEW r \in Requests, Restore(r), UNCHANGED happened
  PROVE  DeliveryInv'
<1>1. PICK o, row, inv : /\ o = request[r].o /\ inv = invoice[o]
                         /\ row = [order[o] EXCEPT !.status = request[r].status]
  OBVIOUS
<1>2. request[r].do = "restore"
  BY DEF Restore, At
<1>3. /\ o \in Orders /\ order[o].status = "cancelled" /\ inv.status = "draft"
      /\ request[r].status \in Waiting /\ Works(r, o)
      /\ \A p : Works(r, p) => p = o
  BY <1>1, <1>2, Cancelling
<1>4. order[o] \in OrderRow /\ inv \in InvoiceRow /\ Sound(order[o], inv, "desk" \in happened)
  BY <1>1, <1>3, RowTypes
<1>5. /\ row \in OrderRow /\ row.status \in Waiting /\ row.cod = order[o].cod
      /\ row.codAmount = order[o].codAmount /\ row.agent = order[o].agent
  BY <1>1, <1>3, <1>4 DEF OrderRow, OrderStatuses
<1>6. Touch(o, row, inv)
  BY <1>1, <1>3 DEF Restore, Touch, DeliveryInv, DeliveryTyped
<1>7. Keeps(o, row, inv)
  <2>1. StatusesAgree(row, inv) /\ GivenBack(row, inv) /\ LeftAlone(row, inv)
    BY <1>3, <1>5 DEF StatusesAgree, GivenBack, LeftAlone, Waiting, Closed
  <2>2. PaymentsAgree(row, inv)
    BY <1>3, <1>4, <1>5 DEF Sound, PaymentsAgree, Waiting
  <2>3. Gentle(order[o], invoice[o], row, inv)
    BY <1>1, <1>3, <1>5 DEF Gentle, Closed, Waiting
  <2> QED
    BY <1>3, <2>1, <2>2, <2>3 DEF Keeps, Sound, Closed
<1>8. PICK next : next = Idle
  OBVIOUS
<1>9. request' = [request EXCEPT ![r] = next] /\ UNCHANGED settlements /\ GoesOn(r, next)
  BY <1>8 DEF Restore, End, Continue, GoesOn
<1>10. DraftPassed(r, next, o, row, inv) /\ SameAgent(o, row)
  BY <1>3, <1>5 DEF DraftPassed, SameAgent
<1> QED
  BY <1>3, <1>4, <1>5, <1>6, <1>7, <1>9, <1>10, ActingStep

(* The server stops: from now on a draft may be left to nobody *)
LEMMA StopStep ==
  ASSUME DeliveryInv, NEW r \in Requests, Stop(r), Happens("stop")
  PROVE  DeliveryInv'
<1>1. PICK o, next : o = request[r].o /\ next = Idle
  OBVIOUS
<1>2. o \in Orders /\ \A p : Works(r, p) => p = o
  BY <1>1, AtWork DEF Stop, At
<1>3. /\ request' = [request EXCEPT ![r] = next] /\ UNCHANGED <<order, invoice, settlements>>
      /\ GoesOn(r, next) /\ happened \subseteq happened' /\ "stop" \in happened'
  BY <1>1 DEF Stop, End, Continue, GoesOn, Happens
<1> QED
  BY <1>2, <1>3, MovesOn

-----------------------------------------------------------------------------
(* Returns and cancelled receipts at the desk, after which the courier's money *)
(* is no longer the receipts'                                                  *)

LEMMA DeskRows ==
  ASSUME DeliveryInv, NEW o \in Orders, NEW inv \in InvoiceRow,
         invoice' = [invoice EXCEPT ![o] = inv], UNCHANGED <<order, settlements, request>>,
         Happens("desk"), invoice[o].status = "issued", inv.status = "issued",
         inv.byCourier = invoice[o].byCourier,
         invoice[o].returned = Amount /\ invoice[o].paid = 0 => inv.returned = Amount /\ inv.paid = 0
  PROVE  DeliveryInv'
<1>1. PICK row : row = order[o]
  OBVIOUS
<1>2. row \in OrderRow /\ Sound(row, invoice[o], "desk" \in happened)
  BY <1>1, RowTypes
<1>3. Touch(o, row, inv)
  BY <1>1 DEF Touch, DeliveryInv, DeliveryTyped
<1>4. happened \subseteq happened' /\ "desk" \in happened'
  BY DEF Happens
<1>5. Keeps(o, row, inv)
  <2>1. StatusesAgree(row, inv) /\ GivenBack(row, inv)
    BY <1>2 DEF Sound, StatusesAgree, GivenBack, Waiting, Closed
  <2>2. PaymentsAgree(row, inv)
    BY <1>2 DEF Sound, PaymentsAgree
  <2>3. Gentle(order[o], invoice[o], row, inv)
    BY <1>1 DEF Gentle
  <2> QED
    BY <1>1, <1>4, <2>1, <2>2, <2>3 DEF Keeps, Sound
<1>6. Undisturbed(o, row, inv) /\ SameAgent(o, row) /\ DraftOpen(o, row, inv)
  BY <1>1 DEF Undisturbed, SameAgent, DraftOpen
<1> QED
  BY <1>2, <1>3, <1>4, <1>5, <1>6, QuietStep

LEMMA ReturnStep ==
  ASSUME DeliveryInv, NEW o \in Orders, NEW quantity \in 1 .. Amount, NEW refund \in 0 .. Amount,
         Return(o, quantity, refund), Happens("desk")
  PROVE  DeliveryInv'
<1>1. PICK was, back, inv :
        /\ was = invoice[o] /\ back = [was EXCEPT !.returned = @ + quantity]
        /\ inv = [back EXCEPT !.paid = @ - refund]
  OBVIOUS
<1>2. was \in InvoiceRow /\ was.status = "issued" /\ Amount \in Nat
  BY <1>1, RowTypes, DeliveryAssumption DEF Return
<1>3. /\ was.returned \in 0 .. Amount /\ was.paid \in Nat /\ quantity <= Amount - was.returned
  BY <1>1, <1>2 DEF InvoiceRow, Return
<1>4. back.paid = was.paid /\ back.returned = was.returned + quantity
  BY <1>1, <1>2 DEF InvoiceRow
<1>5. refund <= Overpaid(back)
  <2>1. Overpaid(back) \in Int
    BY <1>2, <1>3, <1>4 DEF Overpaid, AtLeastZero
  <2> QED
    BY <1>1, <2>1 DEF Return
<1>6. was.paid - refund \in Nat
  BY <1>2, <1>3, <1>4, <1>5 DEF Overpaid, AtLeastZero
<1>7. PICK returned, paid : returned = was.returned + quantity /\ paid = was.paid - refund
  OBVIOUS
<1>8. inv = [was EXCEPT !.returned = returned, !.paid = paid]
  BY <1>1, <1>2, <1>7 DEF InvoiceRow
<1>9. returned \in 0 .. Amount /\ paid \in Nat
  BY <1>2, <1>3, <1>6, <1>7
<1>10. inv \in InvoiceRow /\ inv.status = "issued" /\ inv.byCourier = was.byCourier
  BY <1>2, <1>8, <1>9 DEF InvoiceRow
<1>11. invoice' = [invoice EXCEPT ![o] = inv] /\ UNCHANGED <<order, settlements, request>>
  BY <1>1 DEF Return
<1>12. was.returned # Amount
  BY <1>2, <1>3
<1> QED
  BY <1>1, <1>2, <1>10, <1>11, <1>12, DeskRows

LEMMA CancelReceiptStep ==
  ASSUME DeliveryInv, NEW o \in Orders, CancelReceipt(o), Happens("desk")
  PROVE  DeliveryInv'
<1>1. PICK was, paid, inv :
        /\ was = invoice[o] /\ paid = AtLeastZero(was.paid - was.receipt)
        /\ inv = [was EXCEPT !.paid = paid, !.receipt = 0]
  OBVIOUS
<1>2. was \in InvoiceRow /\ was.receipt > 0 /\ was.receipt \in Nat /\ was.paid \in Nat
  BY <1>1, RowTypes DEF CancelReceipt, InvoiceRow
<1>3. was.status = "issued"
  BY <1>1, <1>2, RowTypes DEF Sound, PaymentsAgree
<1>4. paid \in Nat /\ (was.paid = 0 => paid = 0)
  BY <1>1, <1>2 DEF AtLeastZero
<1>5. /\ inv \in InvoiceRow /\ inv.status = "issued" /\ inv.byCourier = was.byCourier
      /\ inv.returned = was.returned /\ inv.paid = paid
  BY <1>1, <1>2, <1>3, <1>4 DEF InvoiceRow
<1>6. invoice' = [invoice EXCEPT ![o] = inv] /\ UNCHANGED <<order, settlements, request>>
  BY <1>1 DEF CancelReceipt
<1> QED
  BY <1>1, <1>3, <1>4, <1>5, <1>6, DeskRows

-----------------------------------------------------------------------------
LEMMA InitDelivery == Init => DeliveryInv
<1> SUFFICES ASSUME Init PROVE DeliveryInv
  OBVIOUS
<1> USE DeliveryAssumption
<1>1. /\ \A o \in Orders : order[o] = NoOrder /\ invoice[o] = NoInvoice
      /\ \A r \in Requests : request[r] = Idle
      /\ settlements = {}
  BY DEF Init
<1>2. NoOrder \in OrderRow
  BY DEF NoOrder, OrderRow, OrderStatuses
<1>3. NoInvoice \in InvoiceRow
  BY DEF NoInvoice, InvoiceRow
<1>4. DeliveryTyped
  BY <1>1, <1>2, <1>3 DEF Init, DeliveryTyped
<1>5. Sound(NoOrder, NoInvoice, FALSE)
  BY DEF NoOrder, NoInvoice, Sound, StatusesAgree, PaymentsAgree, GivenBack, LeftAlone, Waiting, Closed
<1>6. OrdersSound
  <2>1. "desk" \notin happened
    BY DEF Init
  <2>2. Sound(NoOrder, NoInvoice, "desk" \in happened)
    BY <1>5, <2>1 DEF Sound
  <2> QED
    BY <1>1, <2>2 DEF OrdersSound
<1>7. RequestsSound
  BY <1>1 DEF RequestsSound, At, Idle
<1>8. OneAtWork
  BY <1>1 DEF OneAtWork, Works, Idle, Exclusive
<1>9. DraftsHeld
  BY <1>1 DEF DraftsHeld, NoInvoice
<1>10. SettledOnce
  BY <1>1 DEF SettledOnce
<1> QED
  BY <1>4, <1>6, <1>7, <1>8, <1>9, <1>10 DEF DeliveryInv

LEMMA NothingDone == DeliveryInv /\ UNCHANGED vars => DeliveryInv'
BY DEF vars, DeliveryInv, DeliveryTyped, OrdersSound, RequestsSound, At, OneAtWork, Works, DraftsHeld,
   SettledOnce, Collected

LEMMA NextDelivery == DeliveryInv /\ [Next]_vars => DeliveryInv'
<1> SUFFICES ASSUME DeliveryInv, [Next]_vars PROVE DeliveryInv'
  OBVIOUS
<1>1. CASE Create /\ UNCHANGED happened
  BY <1>1, CreateInvoiceStep, CreateOrderStep, CreateFailsStep, CancelOrphanStep DEF Create
<1>2. CASE Till /\ UNCHANGED happened
  BY <1>2, PosSaleStep, RecordFromPosStep DEF Till
<1>3. CASE Office /\ UNCHANGED happened
  <2>1. CASE \E o \in Orders : Dispatch(o) \/ Deliver(o) \/ Fail(o)
    BY <1>3, <2>1, OfficeStep DEF Office
  <2>2. CASE \E agent \in Agents, orders \in SUBSET Orders \ {{}} : Settle(agent, orders)
    BY <1>3, <2>2, SettleStep DEF Office
  <2> QED
    BY <1>3, <2>1, <2>2 DEF Office
<1>4. CASE Driver /\ UNCHANGED happened
  BY <1>4, DriverOperationStep, RunDriverStep DEF Driver
<1>5. CASE CancelOrder /\ UNCHANGED happened
  BY <1>5, CancelStep, CancelIssuedStep, CancelDraftStep, CancelInvoiceStep, CancelFailsStep,
     RestoreStep DEF CancelOrder
<1>6. CASE AssignOrder
  BY <1>6, AssignStep
<1>7. CASE (\E r \in Requests : Stop(r)) /\ Happens("stop")
  BY <1>7, StopStep
<1>8. CASE Desk /\ Happens("desk")
  BY <1>8, ReturnStep, CancelReceiptStep DEF Desk
<1>9. CASE UNCHANGED vars
  BY <1>9, NothingDone
<1> QED
  BY <1>1, <1>2, <1>3, <1>4, <1>5, <1>6, <1>7, <1>8, <1>9 DEF Next

(* What holds of single orders *)
LEMMA InvLeavesNothing == DeliveryInv => NothingLeftOver
<1> SUFFICES ASSUME DeliveryInv PROVE NothingLeftOver
  OBVIOUS
<1>1. ReversedInFull
  BY RowTypes DEF ReversedInFull, Sound, GivenBack
<1>2. ASSUME "stop" \notin happened, Alone, NEW o \in Orders, invoice[o].status = "draft"
      PROVE  order[o].status \in Waiting
  <2>1. \A r \in Requests : ~Works(r, o)
    BY <1>2 DEF Alone, At, Works, Exclusive
  <2> QED
    BY <1>2, <2>1 DEF DeliveryInv, DraftsHeld
<1> QED
  BY <1>1, <1>2 DEF NothingLeftOver, DraftHasOpenOrder

LEMMA InvKeepsMoney == DeliveryInv => MoneyOfAgents
<1> SUFFICES ASSUME DeliveryInv PROVE MoneyOfAgents
  OBVIOUS
<1>1. ASSUME "desk" \notin happened, NEW o \in Orders
      PROVE  /\ order[o].status \in {"out", "delivered"} => OnAgent(invoice[o]) = order[o].codAmount
             /\ order[o].status = "failed" => OnAgent(invoice[o]) = 0
  <2>1. PICK row, inv : row = order[o] /\ inv = invoice[o]
    OBVIOUS
  <2>2. row \in OrderRow /\ inv \in InvoiceRow /\ Sound(row, inv, FALSE)
    BY <1>1, <2>1, RowTypes DEF Sound
  <2>3. row.status = "failed" => OnAgent(inv) = 0
    BY <2>2 DEF Sound, LeftAlone
  <2>4. ASSUME row.status \in {"out", "delivered"} PROVE OnAgent(inv) = row.codAmount
    <3>1. inv.status = "issued"
      BY <2>2, <2>4 DEF Sound, StatusesAgree, Closed
    <3>2. inv.receipt = Amount /\ inv.back = 0
      BY <2>2, <2>4, <3>1 DEF Sound, LeftAlone
    <3>3. row.codAmount = IF inv.byCourier THEN Amount ELSE 0
      BY <2>2, <2>4, <3>1 DEF Sound, PaymentsAgree
    <3> QED
      BY <3>2, <3>3, DeliveryAssumption DEF OnAgent
  <2> QED
    BY <2>1, <2>3, <2>4
<1>2. CourierOwesReceipts
  BY <1>1 DEF CourierOwesReceipts
<1> QED
  BY <1>2 DEF MoneyOfAgents, DeliveryInv

LEMMA InvLetsOwnerAct == DeliveryInv /\ [Next]_vars => [\A r \in Requests : DriverActsOnOwn(r)]_vars
BY DriverMeans DEF DriverActsOnOwn

(* An order that was not delivered leaves nothing paid or sold behind, and no    *)
(* draft is left without its order (fail, cancel, createOrder), for any number   *)
(* of orders and requests in any interleaving, until the server stops.           *)
THEOREM DeliveriesLeaveNothing == Spec => []NothingLeftOver
BY InvLeavesNothing, InitDelivery, NextDelivery, PTL DEF Spec

(* What a courier is to hand over is what the receipts say it collected, and it  *)
(* is settled once (dispatch, fail, cancel, settle).                             *)
THEOREM DeliveriesPaid == Spec => []MoneyOfAgents
BY InvKeepsMoney, InitDelivery, NextDelivery, PTL DEF Spec

(* What a driver sends from a phone changes the driver's own orders only         *)
(* (runDriverOperation), unless the order is given to another driver meanwhile.  *)
THEOREM DriversKeepToTheirs == Spec => DriversOwnOrders
BY InvLetsOwnerAct, InitDelivery, NextDelivery, PTL DEF Spec, DriversOwnOrders

-----------------------------------------------------------------------------
(* Couriers: who leaves with nothing, and when what happened                     *)

CourierRow == [made: BOOLEAN, live: BOOLEAN, active: BOOLEAN, driver: BOOLEAN, link: 0 .. MaxKeys]
ParcelTimes == 0 .. LastTime + TillAhead
ParcelRow ==
  [status: {"none", "cancelled"} \union OpenStates \union FinishedStates,
   agent: DeliveryAgents \union {NoOne}, settled: BOOLEAN, sold: BOOLEAN,
   assignedAt: ParcelTimes, dispatchedAt: ParcelTimes, endedAt: ParcelTimes]
OrderCalls == {"create", "assign", "sale", "cancel", "out"} \union FinishedStates
CallRow ==
  [do: {"idle", "remove"} \union OrderCalls, agent: DeliveryAgents \union {NoOne},
   order: Parcels \union {NoOne}, at: ParcelTimes, out: BOOLEAN,
   was: {"new", "assigned"}]

(* A call names what it needs, and a desk at rest names nobody                   *)
CallSound(c) ==
  /\ c.do \in OrderCalls => c.order \in Parcels
  /\ c.do \in {"remove", "assign"} => c.agent \in DeliveryAgents
  /\ c.do \in {"out"} \union FinishedStates => c.agent = NoOne /\ c.at \in 0 .. LastTime
  /\ c.do = "idle" => c.agent = NoOne

CourierRows ==
  /\ courier \in [DeliveryAgents -> CourierRow] /\ phone \in [DeliveryAgents -> 0 .. MaxKeys]
  /\ keys \in 0 .. MaxKeys /\ clock \in 1 .. LastTime
  /\ parcel \in [Parcels -> ParcelRow]
  /\ desk \in [Callers -> CallRow]
  /\ \A d \in Callers : CallSound(desk[d])

(* The status of a parcel and what is filled in                                  *)
StageSound(row) ==
  /\ row.status = "none" => row.agent = NoOne
  /\ row.status \in {"none", "cancelled", "new", "assigned"} => row.dispatchedAt = 0
  /\ row.status \notin FinishedStates => row.endedAt = 0 /\ ~row.settled

ParcelsSound == \A o \in Parcels : StageSound(parcel[o])

(* While an order's draft is being cancelled the order is, and nobody else does it *)
CancelsHeld ==
  \A d \in Callers : desk[d].do = "cancel" =>
    /\ parcel[desk[d].order].status = "cancelled" /\ parcel[desk[d].order].agent = desk[d].agent
    /\ \A e \in Callers \ {d} : desk[e].do = "cancel" => desk[e].order # desk[d].order

(* Everything an agent carried is over and, if it was delivered, settled          *)
Cleared(a) ==
  \A o \in Parcels : parcel[o].agent = a => parcel[o].settled \/ parcel[o].status = "cancelled"

Leaves(d, a) == desk[d].do = "remove" /\ desk[d].agent = a

LeavesClean(a) ==
  /\ ~courier[a].live => Cleared(a) /\ \A e \in Callers : desk[e].agent # a
  /\ \A d \in Callers :
       Leaves(d, a) => Cleared(a) /\ \A e \in Callers \ {d} : desk[e].agent # a

AgentsLeaveClean == \A a \in DeliveryAgents \ contended : LeavesClean(a)

CouriersInv == CourierRows /\ ParcelsSound /\ CancelsHeld /\ AgentsLeaveClean

(* Without a clock that is ahead nothing lies in the future                       *)
TimesSound(row) ==
  /\ row.assignedAt <= clock /\ row.dispatchedAt <= clock /\ row.endedAt <= clock
  /\ row.dispatchedAt # 0 => row.assignedAt <= row.dispatchedAt
  /\ row.endedAt # 0 => row.dispatchedAt <= row.endedAt

TimesInv ==
  /\ \A o \in Parcels : TimesSound(parcel[o])
  /\ \A d \in Callers : desk[d].do = "sale" => desk[d].at <= clock

-----------------------------------------------------------------------------
LEMMA CallsKnown ==
  /\ NoCall \in CallRow /\ CallSound(NoCall) /\ NoCall.agent = NoOne /\ NoCall.do = "idle" /\ NoCall.at = 0
  /\ NoAgent \in CourierRow /\ ~NoAgent.live
  /\ NoParcel \in ParcelRow /\ StageSound(NoParcel) /\ TimesSound(NoParcel) <=> clock >= 0
BY CouriersAssumption
DEF NoCall, NoAgent, NoParcel, CallRow, CallSound, OrderCalls, FinishedStates, CourierRow, ParcelRow,
    ParcelTimes, StageSound, TimesSound

LEMMA CouriersInvInit == CouriersInit => CouriersInv /\ TimesInv
<1> SUFFICES ASSUME CouriersInit PROVE CouriersInv /\ TimesInv
  OBVIOUS
<1>1. CourierRows
  BY CallsKnown, CouriersAssumption DEF CouriersInit, CourierRows, Callers
<1>2. ParcelsSound /\ TimesInv
  BY CallsKnown, CouriersAssumption DEF CouriersInit, ParcelsSound, TimesInv, Callers
<1>3. AgentsLeaveClean /\ CancelsHeld
  BY CallsKnown, CouriersAssumption
  DEF CouriersInit, AgentsLeaveClean, CancelsHeld, LeavesClean, Leaves, Cleared, Callers, NoParcel
<1>4. QED
  BY <1>1, <1>2, <1>3 DEF CouriersInv

(* A call is put down, or taken up again                                          *)
LEMMA CallPut ==
  ASSUME CourierRows, NEW d \in Callers, NEW c \in CallRow, CallSound(c),
         desk' = [desk EXCEPT ![d] = c]
  PROVE  /\ desk' \in [Callers -> CallRow]
         /\ \A e \in Callers : CallSound(desk'[e])
         /\ desk'[d] = c /\ \A e \in Callers \ {d} : desk'[e] = desk[e]
BY DEF CourierRows

(* No order whose draft is being cancelled is touched                             *)
LEMMA CancelsKept ==
  ASSUME CouriersInv,
         \A o \in Parcels : parcel[o].status = "cancelled" =>
           parcel'[o].status = "cancelled" /\ parcel'[o].agent = parcel[o].agent,
         \A d \in Callers : desk'[d] = desk[d] \/ desk'[d].do # "cancel"
  PROVE  CancelsHeld'
<1> SUFFICES ASSUME NEW d \in Callers, desk'[d].do = "cancel"
             PROVE  /\ parcel'[desk'[d].order].status = "cancelled"
                    /\ parcel'[desk'[d].order].agent = desk'[d].agent
                    /\ \A e \in Callers \ {d} : desk'[e].do = "cancel" => desk'[e].order # desk'[d].order
  BY DEF CancelsHeld
<1>1. desk'[d] = desk[d] /\ desk[d].order \in Parcels
  BY DEF CouriersInv, CourierRows, CallSound, OrderCalls
<1>2. QED
  BY <1>1 DEF CouriersInv, CancelsHeld

(* Whoever is named beside his removal is noted                                    *)
LEMMA AloneOrNoted ==
  ASSUME Contend
  PROVE  /\ \A a \in DeliveryAgents \ contended' : a \in DeliveryAgents \ contended
         /\ \A a \in DeliveryAgents \ contended' : \A d, e \in Callers :
              desk'[d].do = "remove" /\ desk'[d].agent = a /\ e # d => desk'[e].agent # a
BY DEF Contend, Callers

(* Agents who come or change, and parcels that go on as they were                  *)
LEMMA CleanWhileOthersChange ==
  ASSUME CouriersInv, Contend, UNCHANGED desk,
         \A a \in DeliveryAgents : ~courier'[a].live => ~courier[a].live,
         \A o \in Parcels :
           /\ parcel'[o].agent = parcel[o].agent
           /\ parcel[o].settled \/ parcel[o].status = "cancelled" =>
                parcel'[o].settled \/ parcel'[o].status = "cancelled"
  PROVE  AgentsLeaveClean'
<1> SUFFICES ASSUME NEW a \in DeliveryAgents \ contended' PROVE LeavesClean(a)'
  BY DEF AgentsLeaveClean
<1>1. LeavesClean(a)
  BY AloneOrNoted DEF CouriersInv, AgentsLeaveClean
<1>2. Cleared(a) => Cleared(a)'
  BY DEF Cleared
<1>3. QED
  BY <1>1, <1>2 DEF LeavesClean, Leaves

(* A call begins that names nobody, or an agent who is there                       *)
LEMMA CleanWhenCalled ==
  ASSUME CouriersInv, Contend, NEW d \in Callers, NEW c \in CallRow,
         desk' = [desk EXCEPT ![d] = c], UNCHANGED courier,
         \A o \in Parcels :
           /\ parcel'[o].agent = parcel[o].agent
           /\ parcel[o].settled \/ parcel[o].status = "cancelled" =>
                parcel'[o].settled \/ parcel'[o].status = "cancelled",
         c.agent \in DeliveryAgents \ contended => courier[c.agent].live,
         c.do = "remove" => Cleared(c.agent)
  PROVE  AgentsLeaveClean'
<1> SUFFICES ASSUME NEW a \in DeliveryAgents \ contended' PROVE LeavesClean(a)'
  BY DEF AgentsLeaveClean
<1>1. LeavesClean(a) /\ a # NoOne /\ a \in DeliveryAgents \ contended
  BY AloneOrNoted, CouriersAssumption DEF CouriersInv, AgentsLeaveClean
<1>2. Cleared(a) => Cleared(a)'
  BY DEF Cleared
<1>3. desk'[d] = c /\ \A e \in Callers \ {d} : desk'[e] = desk[e]
  BY DEF CouriersInv, CourierRows
<1>4. ASSUME ~courier'[a].live PROVE Cleared(a)' /\ \A e \in Callers : desk'[e].agent # a
  BY <1>1, <1>2, <1>3, <1>4 DEF LeavesClean
<1>5. ASSUME NEW e \in Callers, Leaves(e, a)'
      PROVE  Cleared(a)' /\ \A b \in Callers \ {e} : desk'[b].agent # a
  BY <1>1, <1>2, <1>3, <1>5, AloneOrNoted DEF LeavesClean, Leaves
<1>6. QED
  BY <1>4, <1>5 DEF LeavesClean

(* A call ends that removes nobody, and gives the parcel to whom it names           *)
LEMMA CleanWhenDone ==
  ASSUME CouriersInv, Contend, NEW d \in Callers, desk' = [desk EXCEPT ![d] = NoCall],
         UNCHANGED courier,
         \A o \in Parcels :
           \/ /\ parcel'[o].agent = parcel[o].agent
              /\ parcel[o].settled \/ parcel[o].status = "cancelled" =>
                   parcel'[o].settled \/ parcel'[o].status = "cancelled"
           \/ parcel'[o].agent = desk[d].agent
  PROVE  AgentsLeaveClean'
<1> SUFFICES ASSUME NEW a \in DeliveryAgents \ contended' PROVE LeavesClean(a)'
  BY DEF AgentsLeaveClean
<1>1. LeavesClean(a) /\ a # NoOne
  BY AloneOrNoted, CouriersAssumption DEF CouriersInv, AgentsLeaveClean
<1>2. desk'[d].agent = NoOne /\ desk'[d].do = "idle" /\ \A e \in Callers \ {d} : desk'[e] = desk[e]
  BY CallsKnown DEF CouriersInv, CourierRows
<1>3. desk[d].agent # a /\ Cleared(a) => Cleared(a)'
  BY DEF Cleared
<1>4. ASSUME ~courier'[a].live PROVE Cleared(a)' /\ \A e \in Callers : desk'[e].agent # a
  BY <1>1, <1>2, <1>3, <1>4 DEF LeavesClean
<1>5. ASSUME NEW e \in Callers, Leaves(e, a)'
      PROVE  Cleared(a)' /\ \A b \in Callers \ {e} : desk'[b].agent # a
  <2>1. e # d /\ Leaves(e, a)
    BY <1>2, <1>5 DEF Leaves
  <2>2. Cleared(a) /\ \A b \in Callers \ {e} : desk[b].agent # a
    BY <2>1, <1>1 DEF LeavesClean
  <2>3. QED
    BY <2>1, <2>2, <1>1, <1>2, <1>3
<1>6. QED
  BY <1>4, <1>5 DEF LeavesClean

(* The agent himself goes                                                           *)
LEMMA CleanWhenGone ==
  ASSUME CouriersInv, Contend, NEW d \in Desks, CommitRemove(d)
  PROVE  AgentsLeaveClean'
<1> SUFFICES ASSUME NEW a \in DeliveryAgents \ contended' PROVE LeavesClean(a)'
  BY DEF AgentsLeaveClean
<1>0. d \in Callers
  BY DEF Callers
<1>1. LeavesClean(a) /\ a # NoOne
  BY AloneOrNoted, CouriersAssumption DEF CouriersInv, AgentsLeaveClean
<1>2. desk'[d].agent = NoOne /\ desk'[d].do = "idle" /\ \A e \in Callers \ {d} : desk'[e] = desk[e]
  BY <1>0, CallsKnown DEF CouriersInv, CourierRows, CommitRemove, EndCall
<1>3. Cleared(a)' <=> Cleared(a)
  BY DEF CommitRemove, Cleared
<1>4. ~courier'[a].live => ~courier[a].live \/ Leaves(d, a)
  BY <1>0 DEF CommitRemove, CouriersInv, CourierRows, Leaves
<1>5. ASSUME ~courier'[a].live PROVE Cleared(a)' /\ \A e \in Callers : desk'[e].agent # a
  BY <1>0, <1>1, <1>2, <1>3, <1>4, <1>5 DEF LeavesClean
<1>6. ASSUME NEW e \in Callers, Leaves(e, a)'
      PROVE  Cleared(a)' /\ \A b \in Callers \ {e} : desk'[b].agent # a
  <2>1. e # d /\ Leaves(e, a)
    BY <1>2, <1>6 DEF Leaves
  <2>2. QED
    BY <2>1, <1>1, <1>2, <1>3 DEF LeavesClean
<1>7. QED
  BY <1>5, <1>6 DEF LeavesClean

(* The time an event is written with                                               *)
LEMMA EventTimes ==
  ASSUME clock \in 1 .. LastTime, NEW told \in 0 .. LastTime, NEW notBefore \in ParcelTimes
  PROVE  /\ EventTime(told, notBefore) \in ParcelTimes
         /\ notBefore <= clock => notBefore <= EventTime(told, notBefore) /\ EventTime(told, notBefore) <= clock
BY CouriersAssumption DEF EventTime, ParcelTimes

LEMMA ParcelDispatched ==
  ASSUME CourierRows, ParcelsSound, NEW o \in Parcels, NEW told \in 0 .. LastTime, DispatchParcel(o, told)
  PROVE  /\ parcel' \in [Parcels -> ParcelRow] /\ \A p \in Parcels \ {o} : parcel'[p] = parcel[p]
         /\ parcel[o].status = "assigned" /\ parcel'[o].status = "out"
         /\ parcel'[o].dispatchedAt = EventTime(told, parcel[o].assignedAt)
         /\ parcel'[o].agent = parcel[o].agent /\ parcel'[o].settled = parcel[o].settled
         /\ parcel'[o].assignedAt = parcel[o].assignedAt /\ parcel'[o].endedAt = parcel[o].endedAt
         /\ StageSound(parcel'[o])
<1>1. PICK time : time = EventTime(told, parcel[o].assignedAt)
  OBVIOUS
<1>2. parcel \in [Parcels -> ParcelRow] /\ clock \in 1 .. LastTime
  BY DEF CourierRows
<1>3. parcel[o] \in ParcelRow /\ parcel[o].assignedAt \in ParcelTimes
  BY <1>2 DEF ParcelRow
<1>4. time \in ParcelTimes
  BY <1>1, <1>2, <1>3, EventTimes
<1>5. PICK row : row = [parcel[o] EXCEPT !.status = "out", !.dispatchedAt = time]
  OBVIOUS
<1>6. /\ row \in ParcelRow /\ row.status = "out" /\ row.dispatchedAt = time /\ row.agent = parcel[o].agent
      /\ row.settled = parcel[o].settled /\ row.assignedAt = parcel[o].assignedAt
      /\ row.endedAt = parcel[o].endedAt
  BY <1>3, <1>4, <1>5 DEF ParcelRow, OpenStates
<1>7. parcel' = [parcel EXCEPT ![o] = row] /\ parcel[o].status = "assigned"
  BY <1>1, <1>2, <1>5 DEF DispatchParcel
<1>8. StageSound(row)
  BY <1>6, <1>7 DEF ParcelsSound, StageSound, FinishedStates
<1>9. QED
  BY <1>1, <1>2, <1>6, <1>7, <1>8

LEMMA ParcelConcluded ==
  ASSUME CourierRows, ParcelsSound, NEW o \in Parcels, NEW told \in 0 .. LastTime,
         NEW status \in FinishedStates, ConcludeParcel(o, status, told)
  PROVE  /\ parcel' \in [Parcels -> ParcelRow] /\ \A p \in Parcels \ {o} : parcel'[p] = parcel[p]
         /\ parcel[o].status = "out" /\ parcel'[o].status = status
         /\ parcel'[o].endedAt = EventTime(told, parcel[o].dispatchedAt)
         /\ parcel'[o].agent = parcel[o].agent /\ parcel'[o].settled = parcel[o].settled
         /\ parcel'[o].assignedAt = parcel[o].assignedAt /\ parcel'[o].dispatchedAt = parcel[o].dispatchedAt
         /\ StageSound(parcel'[o])
<1>1. PICK time : time = EventTime(told, parcel[o].dispatchedAt)
  OBVIOUS
<1>2. parcel \in [Parcels -> ParcelRow] /\ clock \in 1 .. LastTime
  BY DEF CourierRows
<1>3. parcel[o] \in ParcelRow /\ parcel[o].dispatchedAt \in ParcelTimes
  BY <1>2 DEF ParcelRow
<1>4. time \in ParcelTimes
  BY <1>1, <1>2, <1>3, EventTimes
<1>5. PICK row : row = [parcel[o] EXCEPT !.status = status, !.endedAt = time]
  OBVIOUS
<1>6. /\ row \in ParcelRow /\ row.status = status /\ row.endedAt = time /\ row.agent = parcel[o].agent
      /\ row.settled = parcel[o].settled /\ row.assignedAt = parcel[o].assignedAt
      /\ row.dispatchedAt = parcel[o].dispatchedAt
  BY <1>3, <1>4, <1>5 DEF ParcelRow
<1>7. parcel' = [parcel EXCEPT ![o] = row] /\ parcel[o].status = "out"
  BY <1>1, <1>2, <1>5 DEF ConcludeParcel
<1>8. StageSound(row)
  BY <1>6 DEF StageSound, FinishedStates
<1>9. QED
  BY <1>1, <1>2, <1>6, <1>7, <1>8

LEMMA CreateAgentInv ==
  ASSUME CouriersInv, Contend, NEW a \in DeliveryAgents, NEW active \in BOOLEAN, NEW driver \in BOOLEAN,
         CreateAgent(a, active, driver)
  PROVE  CouriersInv'
<1>1. PICK row : row = [made |-> TRUE, live |-> TRUE, active |-> active, driver |-> driver, link |-> 0]
  OBVIOUS
<1>2. row \in CourierRow /\ row.live
  BY <1>1, CouriersAssumption DEF CourierRow
<1>3. courier' = [courier EXCEPT ![a] = row]
  BY <1>1 DEF CreateAgent
<1>4. CourierRows' /\ ParcelsSound' /\ CancelsHeld'
  BY <1>2, <1>3 DEF CouriersInv, CourierRows, ParcelsSound, CancelsHeld, CreateAgent
<1>5. AgentsLeaveClean'
  BY <1>2, <1>3, CleanWhileOthersChange DEF CouriersInv, CourierRows, CreateAgent
<1>6. QED
  BY <1>4, <1>5 DEF CouriersInv

(* An agent is edited, gets a link or loses it                                      *)
LEMMA AgentEditedInv ==
  ASSUME CouriersInv, Contend, NEW a \in DeliveryAgents, NEW row \in CourierRow, row.live = courier[a].live,
         courier' = [courier EXCEPT ![a] = row], keys' \in 0 .. MaxKeys,
         UNCHANGED <<phone, parcel, desk, clock>>
  PROVE  CouriersInv'
<1>1. CourierRows' /\ ParcelsSound' /\ CancelsHeld'
  BY DEF CouriersInv, CourierRows, ParcelsSound, CancelsHeld
<1>2. AgentsLeaveClean'
  BY CleanWhileOthersChange DEF CouriersInv, CourierRows
<1>3. QED
  BY <1>1, <1>2 DEF CouriersInv

LEMMA AgentStepInv ==
  ASSUME CouriersInv, Contend, NEW a \in DeliveryAgents,
         \/ \E active, driver \in BOOLEAN : UpdateAgent(a, active, driver)
         \/ IssueDriverAccess(a) \/ RevokeDriverAccess(a)
  PROVE  CouriersInv'
<1>1. courier \in [DeliveryAgents -> CourierRow] /\ courier[a] \in CourierRow /\ keys \in 0 .. MaxKeys
  BY DEF CouriersInv, CourierRows
<1>2. CASE \E active, driver \in BOOLEAN : UpdateAgent(a, active, driver)
  <2>1. PICK active \in BOOLEAN, driver \in BOOLEAN : UpdateAgent(a, active, driver)
    BY <1>2
  <2>2. PICK row : row = [courier[a] EXCEPT !.active = active, !.driver = driver]
    OBVIOUS
  <2>3. row \in CourierRow /\ row.live = courier[a].live /\ courier' = [courier EXCEPT ![a] = row]
    BY <1>1, <2>1, <2>2 DEF CourierRow, UpdateAgent
  <2>4. QED
    BY <1>1, <2>1, <2>3, AgentEditedInv DEF UpdateAgent
<1>3. CASE IssueDriverAccess(a)
  <2>1. PICK row : row = [courier[a] EXCEPT !.link = keys + 1]
    OBVIOUS
  <2>2. keys + 1 \in 0 .. MaxKeys
    BY <1>1, <1>3, CouriersAssumption DEF IssueDriverAccess
  <2>3. row \in CourierRow /\ row.live = courier[a].live /\ courier' = [courier EXCEPT ![a] = row]
    BY <1>1, <1>3, <2>1, <2>2 DEF CourierRow, IssueDriverAccess
  <2>4. QED
    BY <1>3, <2>2, <2>3, AgentEditedInv DEF IssueDriverAccess
<1>4. CASE RevokeDriverAccess(a)
  <2>1. PICK row : row = [courier[a] EXCEPT !.link = 0]
    OBVIOUS
  <2>2. 0 \in 0 .. MaxKeys
    BY CouriersAssumption
  <2>3. row \in CourierRow /\ row.live = courier[a].live /\ courier' = [courier EXCEPT ![a] = row]
    BY <1>1, <1>4, <2>1, <2>2 DEF CourierRow, RevokeDriverAccess
  <2>4. QED
    BY <1>1, <1>4, <2>3, AgentEditedInv DEF RevokeDriverAccess
<1>5. QED
  BY <1>2, <1>3, <1>4

(* A call begins                                                                     *)
LEMMA CallBegunInv ==
  ASSUME CouriersInv, Contend, NEW d \in Callers, NEW c \in CallRow, CallSound(c),
         desk' = [desk EXCEPT ![d] = c], UNCHANGED <<courier, phone, parcel, clock, keys>>,
         c.agent \in DeliveryAgents \ contended => courier[c.agent].live,
         c.do = "remove" => Cleared(c.agent), c.do # "cancel"
  PROVE  CouriersInv'
<1>0. CancelsHeld'
  BY CallPut, CancelsKept DEF CouriersInv
<1>1. CourierRows' /\ ParcelsSound'
  BY CallPut DEF CouriersInv, CourierRows, ParcelsSound
<1>2. AgentsLeaveClean'
  BY CleanWhenCalled
<1>3. QED
  BY <1>0, <1>1, <1>2 DEF CouriersInv

LEMMA BeginRemoveInv ==
  ASSUME CouriersInv, Contend, NEW d \in Desks, NEW a \in DeliveryAgents, BeginRemove(d, a)
  PROVE  CouriersInv'
<1>1. PICK c : c = [NoCall EXCEPT !.do = "remove", !.agent = a]
  OBVIOUS
<1>2. c \in CallRow /\ CallSound(c) /\ c.agent = a /\ c.do = "remove"
  BY <1>1, CallsKnown DEF CallRow, CallSound, OrderCalls, FinishedStates
<1>3. Cleared(a)
  <2> SUFFICES ASSUME NEW o \in Parcels, parcel[o].agent = a
               PROVE  parcel[o].settled \/ parcel[o].status = "cancelled"
    BY DEF Cleared
  <2>1. parcel[o] \in ParcelRow /\ StageSound(parcel[o]) /\ a # NoOne
    BY CouriersAssumption DEF CouriersInv, CourierRows, ParcelsSound
  <2>2. parcel[o].status \notin OpenStates
        /\ ~(parcel[o].status \in FinishedStates /\ ~parcel[o].settled)
    BY DEF BeginRemove, Pending
  <2>3. QED
    BY <2>1, <2>2 DEF ParcelRow, StageSound
<1>4. QED
  BY <1>1, <1>2, <1>3, CallBegunInv DEF BeginRemove, BeginCall, Callers

LEMMA BeginCreateInv ==
  ASSUME CouriersInv, Contend, NEW d \in Desks, NEW o \in Parcels, NEW a \in DeliveryAgents \union {NoOne},
         BeginCreate(d, o, a)
  PROVE  CouriersInv'
<1>1. PICK c : c = [NoCall EXCEPT !.do = "create", !.order = o, !.agent = a]
  OBVIOUS
<1>2. c \in CallRow /\ CallSound(c) /\ c.agent = a /\ c.do = "create"
  BY <1>1, CallsKnown DEF CallRow, CallSound, OrderCalls, FinishedStates
<1>3. desk' = [desk EXCEPT ![d] = c] /\ UNCHANGED <<courier, phone, parcel, clock, keys>>
  BY <1>1 DEF BeginCreate, BeginCall
<1>4. a \in DeliveryAgents => courier[a].live
  BY CouriersAssumption DEF BeginCreate, Assignable
<1>5. QED
  BY <1>2, <1>3, <1>4, CallBegunInv DEF Callers

LEMMA BeginAssignInv ==
  ASSUME CouriersInv, Contend, NEW d \in Desks, NEW o \in Parcels, NEW a \in DeliveryAgents, BeginAssign(d, o, a)
  PROVE  CouriersInv'
<1>1. PICK c : c = [NoCall EXCEPT !.do = "assign", !.order = o, !.agent = a]
  OBVIOUS
<1>2. c \in CallRow /\ CallSound(c) /\ c.agent = a /\ c.do = "assign"
  BY <1>1, CallsKnown DEF CallRow, CallSound, OrderCalls, FinishedStates
<1>3. QED
  BY <1>1, <1>2, CallBegunInv DEF BeginAssign, BeginCall, Callers

LEMMA BeginSaleInv ==
  ASSUME CouriersInv, Contend, NEW t \in Tills, NEW o \in Parcels, NEW a \in DeliveryAgents \union {NoOne},
         NEW out \in BOOLEAN, NEW told \in 1 .. clock + TillAhead, BeginSale(t, o, a, out, told)
  PROVE  CouriersInv'
<1>1. PICK with : with = IF a # NoOne /\ courier[a].live THEN a ELSE NoOne
  OBVIOUS
<1>2. PICK c : c = [NoCall EXCEPT !.do = "sale", !.order = o, !.out = out, !.at = told, !.agent = with]
  OBVIOUS
<1>3. told \in ParcelTimes
  BY CouriersAssumption DEF CouriersInv, CourierRows, ParcelTimes
<1>4. with \in DeliveryAgents \union {NoOne} /\ (with \in DeliveryAgents => courier[with].live)
  BY <1>1, CouriersAssumption
<1>5. c = [do |-> "sale", agent |-> with, order |-> o, at |-> told, out |-> out, was |-> "new"]
  BY <1>2 DEF NoCall
<1>6. c \in CallRow /\ CallSound(c) /\ c.agent = with /\ c.do = "sale"
  BY <1>3, <1>4, <1>5 DEF CallRow, CallSound, OrderCalls, FinishedStates
<1>7. desk' = [desk EXCEPT ![t] = c] /\ UNCHANGED <<courier, phone, parcel, clock, keys>>
  BY <1>1, <1>2 DEF BeginSale, BeginCall
<1>8. QED
  BY <1>4, <1>6, <1>7, CallBegunInv DEF Callers

LEMMA BeginTellInv ==
  ASSUME CouriersInv, Contend, NEW a \in DeliveryAgents, NEW o \in Parcels,
         NEW event \in {"out"} \union FinishedStates, NEW told \in 0 .. LastTime, BeginTell(a, o, event, told)
  PROVE  CouriersInv'
<1>1. PICK c : c = [NoCall EXCEPT !.do = event, !.order = o, !.at = told]
  OBVIOUS
<1>2. told \in ParcelTimes
  BY CouriersAssumption DEF ParcelTimes
<1>3. c = [do |-> event, agent |-> NoOne, order |-> o, at |-> told, out |-> FALSE, was |-> "new"]
  BY <1>1 DEF NoCall
<1>4. c \in CallRow /\ CallSound(c) /\ c.agent = NoOne /\ c.do = event
  BY <1>2, <1>3 DEF CallRow, CallSound, OrderCalls, FinishedStates
<1>5. desk' = [desk EXCEPT ![a] = c] /\ UNCHANGED <<courier, phone, parcel, clock, keys>>
  BY <1>1 DEF BeginTell, BeginCall
<1>6. event # "remove" /\ event # "cancel" /\ NoOne \notin DeliveryAgents
  BY CouriersAssumption DEF FinishedStates
<1>7. QED
  BY <1>4, <1>5, <1>6, CallBegunInv DEF Callers

(* An order is cancelled before its draft is: its agent, if he is not removed beside  *)
(* it, is there, for the order is in the works                                         *)
LEMMA BeginCancelInv ==
  ASSUME CouriersInv, Contend, NEW d \in Desks, NEW o \in Parcels, BeginCancel(d, o)
  PROVE  CouriersInv'
<1>1. parcel \in [Parcels -> ParcelRow] /\ parcel[o] \in ParcelRow /\ StageSound(parcel[o])
      /\ parcel[o].status \in {"new", "assigned"} /\ d \in Callers /\ desk \in [Callers -> CallRow]
  BY DEF CouriersInv, CourierRows, ParcelsSound, BeginCancel, Callers
<1>2. PICK a, was : a = parcel[o].agent /\ was = parcel[o].status
  OBVIOUS
<1>3. PICK c : c = [NoCall EXCEPT !.do = "cancel", !.order = o, !.agent = a, !.was = was]
  OBVIOUS
<1>4. c = [do |-> "cancel", agent |-> a, order |-> o, at |-> 0, out |-> FALSE, was |-> was]
  BY <1>3 DEF NoCall
<1>5. a \in DeliveryAgents \union {NoOne} /\ 0 \in ParcelTimes
  BY <1>1, <1>2, CouriersAssumption DEF ParcelRow, ParcelTimes
<1>6. c \in CallRow /\ CallSound(c) /\ c.agent = a /\ c.do = "cancel" /\ c.order = o
  BY <1>1, <1>2, <1>4, <1>5 DEF CallRow, CallSound, OrderCalls, FinishedStates
<1>7. desk' = [desk EXCEPT ![d] = c] /\ UNCHANGED <<courier, phone, clock, keys>>
  BY <1>2, <1>3 DEF BeginCancel, BeginCall
<1>8. PICK row : row = [parcel[o] EXCEPT !.status = "cancelled"]
  OBVIOUS
<1>9. row \in ParcelRow /\ row.status = "cancelled" /\ row.agent = a /\ StageSound(row)
      /\ row.settled = parcel[o].settled
  <2>1. /\ row \in ParcelRow /\ row.status = "cancelled" /\ row.agent = parcel[o].agent
        /\ row.dispatchedAt = parcel[o].dispatchedAt /\ row.endedAt = parcel[o].endedAt
        /\ row.settled = parcel[o].settled
    BY <1>1, <1>8 DEF ParcelRow
  <2>2. QED
    BY <1>1, <1>2, <2>1 DEF StageSound, FinishedStates
<1>10. parcel' = [parcel EXCEPT ![o] = row]
  BY <1>1, <1>8 DEF BeginCancel
<1>11. parcel' \in [Parcels -> ParcelRow] /\ parcel'[o] = row /\ \A p \in Parcels \ {o} : parcel'[p] = parcel[p]
  BY <1>1, <1>9, <1>10
<1>12. CourierRows' /\ ParcelsSound'
  BY <1>6, <1>7, <1>9, <1>11, <1>1, CallPut DEF CouriersInv, CourierRows, ParcelsSound
<1>13. CancelsHeld'
  <2>1. desk'[d] = c /\ \A e \in Callers \ {d} : desk'[e] = desk[e]
    BY <1>1, <1>7
  <2>2. \A e \in Callers \ {d} : desk[e].do = "cancel" => desk[e].order # o
    BY <1>1 DEF CouriersInv, CancelsHeld
  <2>3. ASSUME NEW e \in Callers \ {d}, desk[e].do = "cancel" PROVE desk[e].order \in Parcels \ {o}
    BY <2>2, <2>3 DEF CouriersInv, CourierRows, CallSound, OrderCalls
  <2>4. QED
    BY <1>6, <1>9, <1>11, <2>1, <2>2, <2>3 DEF CouriersInv, CancelsHeld
<1>14. a \in DeliveryAgents \ contended => courier[a].live
  <2> SUFFICES ASSUME a \in DeliveryAgents \ contended, ~courier[a].live PROVE FALSE
    OBVIOUS
  <2>1. Cleared(a)
    BY DEF CouriersInv, AgentsLeaveClean, LeavesClean
  <2>2. ~parcel[o].settled
    BY <1>1 DEF StageSound, FinishedStates
  <2>3. QED
    BY <1>1, <1>2, <2>1, <2>2 DEF Cleared
<1>15. AgentsLeaveClean'
  <2>1. \A p \in Parcels :
          /\ parcel'[p].agent = parcel[p].agent
          /\ parcel[p].settled \/ parcel[p].status = "cancelled" =>
               parcel'[p].settled \/ parcel'[p].status = "cancelled"
    BY <1>2, <1>9, <1>11
  <2>2. (c.agent \in DeliveryAgents \ contended => courier[c.agent].live) /\ (c.do = "remove" => Cleared(c.agent))
    BY <1>6, <1>14
  <2>3. QED
    BY <1>1, <1>6, <1>7, <2>1, <2>2, CleanWhenCalled
<1>16. QED
  BY <1>12, <1>13, <1>15 DEF CouriersInv

LEMMA CommitRemoveInv ==
  ASSUME CouriersInv, Contend, NEW d \in Desks, CommitRemove(d)
  PROVE  CouriersInv'
<1>1. PICK a : a = desk[d].agent
  OBVIOUS
<1>2. a \in DeliveryAgents /\ courier[a] \in CourierRow /\ d \in Callers
  BY <1>1 DEF CommitRemove, CouriersInv, CourierRows, CallSound, Callers
<1>0. CancelsHeld'
  BY <1>2, CallPut, CallsKnown, CancelsKept DEF CommitRemove, EndCall, CouriersInv
<1>3. PICK row : row = [courier[a] EXCEPT !.live = FALSE]
  OBVIOUS
<1>4. row \in CourierRow /\ courier' = [courier EXCEPT ![a] = row]
  BY <1>1, <1>2, <1>3 DEF CommitRemove, CourierRow
<1>5. desk' \in [Callers -> CallRow] /\ \A e \in Callers : CallSound(desk'[e])
  BY <1>2, CallPut, CallsKnown DEF CommitRemove, EndCall, CouriersInv
<1>6. courier' \in [DeliveryAgents -> CourierRow]
  BY <1>2, <1>4 DEF CouriersInv, CourierRows
<1>7. CourierRows' /\ ParcelsSound'
  BY <1>5, <1>6 DEF CommitRemove, CouriersInv, CourierRows, ParcelsSound
<1>8. QED
  BY <1>0, <1>7, CleanWhenGone DEF CouriersInv

(* A call ends                                                                       *)
LEMMA CallDoneInv ==
  ASSUME CouriersInv, Contend, NEW d \in Callers, EndCall(d),
         UNCHANGED <<courier, phone, clock, keys>>,
         NEW o \in Parcels, NEW row \in ParcelRow, StageSound(row),
         parcel' = [parcel EXCEPT ![o] = row], parcel[o].status # "cancelled",
         \/ row.agent = desk[d].agent
         \/ row.agent = parcel[o].agent /\ ~parcel[o].settled
  PROVE  CouriersInv'
<1>1. parcel' \in [Parcels -> ParcelRow] /\ parcel'[o] = row
      /\ \A p \in Parcels \ {o} : parcel'[p] = parcel[p]
  BY DEF CouriersInv, CourierRows
<1>2. CourierRows' /\ ParcelsSound'
  BY <1>1, CallPut, CallsKnown DEF EndCall, CouriersInv, CourierRows, ParcelsSound
<1>3. CancelsHeld'
  BY <1>1, CallPut, CallsKnown, CancelsKept DEF EndCall, CouriersInv
<1>4. AgentsLeaveClean'
  BY <1>1, CleanWhenDone DEF EndCall
<1>5. QED
  BY <1>2, <1>3, <1>4 DEF CouriersInv

LEMMA GiveUpInv ==
  ASSUME CouriersInv, Contend, NEW d \in Callers, GiveUp(d)
  PROVE  CouriersInv'
<1>1. CourierRows' /\ ParcelsSound'
  BY CallPut, CallsKnown DEF GiveUp, EndCall, CouriersInv, CourierRows, ParcelsSound
<1>2. CancelsHeld'
  BY CallPut, CallsKnown, CancelsKept DEF GiveUp, EndCall, CouriersInv
<1>3. AgentsLeaveClean'
  BY CleanWhenDone DEF GiveUp, EndCall
<1>4. QED
  BY <1>1, <1>2, <1>3 DEF CouriersInv

LEMMA CommitCreateInv ==
  ASSUME CouriersInv, Contend, NEW d \in Desks, CommitCreate(d)
  PROVE  CouriersInv'
<1>1. PICK o, a : o = desk[d].order /\ a = desk[d].agent
  OBVIOUS
<1>2. o \in Parcels /\ a \in DeliveryAgents \union {NoOne} /\ d \in Callers
      /\ clock \in 1 .. LastTime /\ parcel \in [Parcels -> ParcelRow]
  BY <1>1 DEF CommitCreate, CouriersInv, CourierRows, CallRow, CallSound, OrderCalls, Callers
<1>3. PICK status, time : status = (IF a = NoOne THEN "new" ELSE "assigned")
                          /\ time = (IF a = NoOne THEN 0 ELSE clock)
  OBVIOUS
<1>4. status \in OpenStates /\ status \in {"new", "assigned"} /\ time \in ParcelTimes
  BY <1>2, <1>3, CouriersAssumption DEF OpenStates, ParcelTimes
<1>5. PICK row : row = [NoParcel EXCEPT !.status = status, !.agent = a, !.assignedAt = time]
  OBVIOUS
<1>6. row \in ParcelRow /\ row.agent = a /\ row.status = status /\ row.dispatchedAt = 0 /\ row.endedAt = 0
      /\ row.settled = FALSE
  <2>1. 0 \in ParcelTimes
    BY CouriersAssumption DEF ParcelTimes
  <2>2. row = [status |-> status, agent |-> a, settled |-> FALSE, sold |-> FALSE, assignedAt |-> time,
               dispatchedAt |-> 0, endedAt |-> 0]
    BY <1>5 DEF NoParcel
  <2>3. QED
    BY <1>2, <1>4, <2>1, <2>2 DEF ParcelRow
<1>7. StageSound(row)
  BY <1>4, <1>6 DEF StageSound, FinishedStates
<1>8. parcel' = [parcel EXCEPT ![o] = row] /\ parcel[o].status # "cancelled" /\ EndCall(d)
      /\ UNCHANGED <<courier, phone, clock, keys>>
  BY <1>1, <1>3, <1>5 DEF CommitCreate, NoParcel
<1>9. QED
  BY <1>1, <1>2, <1>6, <1>7, <1>8, CallDoneInv

LEMMA RecordSaleInv ==
  ASSUME CouriersInv, Contend, NEW t \in Tills, RecordSale(t)
  PROVE  CouriersInv'
<1>1. PICK o, a, told, out : o = desk[t].order /\ a = desk[t].agent /\ told = desk[t].at /\ out = desk[t].out
  OBVIOUS
<1>2. o \in Parcels /\ a \in DeliveryAgents \union {NoOne} /\ t \in Callers
      /\ told \in ParcelTimes /\ parcel \in [Parcels -> ParcelRow] /\ 0 \in ParcelTimes
  BY <1>1, CouriersAssumption DEF RecordSale, CouriersInv, CourierRows, CallRow, CallSound, OrderCalls, Callers, ParcelTimes
<1>3. PICK status, assigned, dispatched :
        /\ status = (IF ~(a # NoOne) THEN "new" ELSE IF out THEN "out" ELSE "assigned")
        /\ assigned = (IF a # NoOne THEN told ELSE 0)
        /\ dispatched = (IF a # NoOne /\ out THEN told ELSE 0)
  OBVIOUS
<1>4. /\ status \in OpenStates /\ assigned \in ParcelTimes /\ dispatched \in ParcelTimes
      /\ status # "out" => dispatched = 0
  BY <1>2, <1>3 DEF OpenStates
<1>5. PICK row : row = [NoParcel EXCEPT !.status = status, !.agent = a, !.sold = TRUE, !.assignedAt = assigned,
                                        !.dispatchedAt = dispatched]
  OBVIOUS
<1>6. row \in ParcelRow /\ row.agent = a /\ row.status = status /\ row.dispatchedAt = dispatched /\ row.endedAt = 0
      /\ row.settled = FALSE
  <2>1. row = [status |-> status, agent |-> a, settled |-> FALSE, sold |-> TRUE, assignedAt |-> assigned,
               dispatchedAt |-> dispatched, endedAt |-> 0]
    BY <1>5 DEF NoParcel
  <2>2. QED
    BY <1>2, <1>4, <2>1 DEF ParcelRow
<1>7. StageSound(row)
  BY <1>4, <1>6 DEF StageSound, OpenStates, FinishedStates
<1>8. parcel' = [parcel EXCEPT ![o] = row] /\ parcel[o].status # "cancelled" /\ EndCall(t)
      /\ UNCHANGED <<courier, phone, clock, keys>>
  BY <1>1, <1>3, <1>5 DEF RecordSale, NoParcel
<1>9. QED
  BY <1>1, <1>2, <1>6, <1>7, <1>8, CallDoneInv

LEMMA CommitAssignInv ==
  ASSUME CouriersInv, Contend, NEW d \in Desks, CommitAssign(d)
  PROVE  CouriersInv'
<1>1. PICK o, a : o = desk[d].order /\ a = desk[d].agent
  OBVIOUS
<1>2. o \in Parcels /\ a \in DeliveryAgents /\ d \in Callers /\ parcel[o].status \in {"new", "assigned"}
      /\ clock \in 1 .. LastTime /\ parcel \in [Parcels -> ParcelRow] /\ StageSound(parcel[o])
  BY <1>1 DEF CommitAssign, CouriersInv, CourierRows, CallRow, CallSound, OrderCalls, Callers, ParcelsSound
<1>3. parcel[o] \in ParcelRow /\ parcel[o].assignedAt \in ParcelTimes /\ clock \in ParcelTimes
  BY <1>2, CouriersAssumption DEF ParcelRow, ParcelTimes
<1>4. PICK time : time = (IF parcel[o].agent # a \/ parcel[o].assignedAt = 0 THEN clock ELSE parcel[o].assignedAt)
  OBVIOUS
<1>5. time \in ParcelTimes
  BY <1>3, <1>4
<1>6. PICK row : row = [parcel[o] EXCEPT !.agent = a, !.status = "assigned", !.assignedAt = time]
  OBVIOUS
<1>7. row \in ParcelRow /\ row.agent = a /\ row.status = "assigned" /\ row.dispatchedAt = parcel[o].dispatchedAt
      /\ row.endedAt = parcel[o].endedAt /\ row.settled = parcel[o].settled
  BY <1>2, <1>3, <1>5, <1>6 DEF ParcelRow, OpenStates
<1>8. StageSound(row)
  BY <1>2, <1>7 DEF StageSound, FinishedStates
<1>9. parcel' = [parcel EXCEPT ![o] = row]
  BY <1>1, <1>2, <1>4, <1>6 DEF CommitAssign
<1>10. EndCall(d) /\ UNCHANGED <<courier, phone, clock, keys>>
  BY DEF CommitAssign
<1>11. QED
  BY <1>1, <1>2, <1>7, <1>8, <1>9, <1>10, CallDoneInv

(* The order is what it was before, or stays cancelled                               *)
LEMMA EndCancelInv ==
  ASSUME CouriersInv, Contend, NEW d \in Desks, EndCancel(d)
  PROVE  CouriersInv'
<1>1. PICK o, a, was : o = desk[d].order /\ a = desk[d].agent /\ was = desk[d].was
  OBVIOUS
<1>2. d \in Callers /\ o \in Parcels /\ was \in {"new", "assigned"} /\ parcel \in [Parcels -> ParcelRow]
      /\ parcel[o] \in ParcelRow /\ StageSound(parcel[o])
  BY <1>1 DEF EndCancel, CouriersInv, CourierRows, CallRow, CallSound, OrderCalls, Callers, ParcelsSound
<1>3. parcel[o].status = "cancelled" /\ parcel[o].agent = a
      /\ \A e \in Callers \ {d} : desk[e].do = "cancel" => desk[e].order # o
  BY <1>1, <1>2 DEF EndCancel, CouriersInv, CancelsHeld
<1>4. PICK row : row = [parcel[o] EXCEPT !.status = was]
  OBVIOUS
<1>5. row \in ParcelRow /\ row.agent = a /\ StageSound(row)
  <2>1. /\ row \in ParcelRow /\ row.agent = parcel[o].agent /\ row.status = was
        /\ row.dispatchedAt = parcel[o].dispatchedAt /\ row.endedAt = parcel[o].endedAt
        /\ row.settled = parcel[o].settled
    BY <1>2, <1>4 DEF ParcelRow, OpenStates
  <2>2. QED
    BY <1>2, <1>3, <2>1 DEF StageSound, FinishedStates
<1>6. parcel' = parcel \/ parcel' = [parcel EXCEPT ![o] = row]
  BY <1>1, <1>2, <1>4 DEF EndCancel
<1>7. /\ parcel' \in [Parcels -> ParcelRow] /\ \A p \in Parcels \ {o} : parcel'[p] = parcel[p]
      /\ parcel'[o] \in ParcelRow /\ parcel'[o].agent = a /\ StageSound(parcel'[o])
  BY <1>2, <1>3, <1>5, <1>6
<1>8. /\ desk' \in [Callers -> CallRow] /\ \A e \in Callers : CallSound(desk'[e])
      /\ desk'[d] = NoCall /\ \A e \in Callers \ {d} : desk'[e] = desk[e]
  BY <1>2, CallPut, CallsKnown DEF EndCancel, EndCall, CouriersInv
<1>9. CourierRows' /\ ParcelsSound'
  BY <1>7, <1>8 DEF EndCancel, CouriersInv, CourierRows, ParcelsSound
<1>10. CancelsHeld'
  <2>1. ASSUME NEW e \in Callers \ {d}, desk[e].do = "cancel" PROVE desk[e].order \in Parcels \ {o}
    BY <1>3, <2>1 DEF CouriersInv, CourierRows, CallSound, OrderCalls
  <2>2. desk'[d].do # "cancel"
    BY <1>8, CallsKnown
  <2>3. QED
    BY <1>7, <1>8, <2>1, <2>2 DEF CouriersInv, CancelsHeld
<1>11. AgentsLeaveClean'
  BY <1>1, <1>2, <1>7, CleanWhenDone DEF EndCancel, EndCall
<1>12. QED
  BY <1>9, <1>10, <1>11 DEF CouriersInv

(* A parcel goes on with the agent it has                                             *)
LEMMA ParcelOnInv ==
  ASSUME CouriersInv, Contend, UNCHANGED <<courier, phone, desk, clock, keys>>,
         parcel' \in [Parcels -> ParcelRow], ParcelsSound',
         \A o \in Parcels :
           /\ parcel'[o].agent = parcel[o].agent
           /\ parcel[o].settled => parcel'[o].settled
           /\ parcel[o].status = "cancelled" => parcel'[o].status = "cancelled"
  PROVE  CouriersInv'
<1>1. CourierRows' /\ CancelsHeld'
  BY CancelsKept DEF CouriersInv, CourierRows
<1>2. AgentsLeaveClean'
  BY CleanWhileOthersChange
<1>3. QED
  BY <1>1, <1>2 DEF CouriersInv

LEMMA ByOfficeInv ==
  ASSUME CouriersInv, Contend, NEW o \in Parcels, ByOffice(o)
  PROVE  CouriersInv'
<1>0. 0 \in 0 .. LastTime
  BY CouriersAssumption
<1>1. CASE DispatchParcel(o, 0)
  BY <1>0, <1>1, ParcelDispatched, ParcelOnInv DEF CouriersInv, ParcelsSound, ByOffice
<1>2. ASSUME NEW s \in FinishedStates, ConcludeParcel(o, s, 0) PROVE CouriersInv'
  BY <1>0, <1>2, ParcelConcluded, ParcelOnInv DEF CouriersInv, ParcelsSound, ByOffice
<1>3. QED
  BY <1>1, <1>2 DEF ByOffice

LEMMA CommitTellInv ==
  ASSUME CouriersInv, Contend, NEW a \in DeliveryAgents, CommitTell(a)
  PROVE  CouriersInv'
<1>1. PICK o, told, event : o = desk[a].order /\ told = desk[a].at /\ event = desk[a].do
  OBVIOUS
<1>2. a \in Callers /\ o \in Parcels /\ told \in 0 .. LastTime /\ event \in {"out"} \union FinishedStates
      /\ CourierRows /\ ParcelsSound /\ parcel \in [Parcels -> ParcelRow] /\ StageSound(parcel[o])
  BY <1>1 DEF CommitTell, CouriersInv, CourierRows, CallSound, OrderCalls, Callers, ParcelsSound
<1>3. DispatchParcel(o, told) \/ (event \in FinishedStates /\ ConcludeParcel(o, event, told))
  BY <1>1 DEF CommitTell
<1>4. PICK row : row = parcel'[o]
  OBVIOUS
<1>5. /\ parcel' \in [Parcels -> ParcelRow] /\ \A p \in Parcels \ {o} : parcel'[p] = parcel[p]
      /\ row.agent = parcel[o].agent /\ StageSound(row) /\ parcel[o].status \in OpenStates
  <2>1. CASE DispatchParcel(o, told)
    BY <1>2, <1>4, <2>1, ParcelDispatched DEF OpenStates
  <2>2. CASE event \in FinishedStates /\ ConcludeParcel(o, event, told)
    BY <1>2, <1>4, <2>2, ParcelConcluded DEF OpenStates
  <2>3. QED
    BY <1>3, <2>1, <2>2
<1>6. ~parcel[o].settled /\ parcel[o].status # "cancelled"
  BY <1>2, <1>5 DEF StageSound, OpenStates, FinishedStates
<1>7. row \in ParcelRow /\ parcel' = [parcel EXCEPT ![o] = row]
  BY <1>2, <1>4, <1>5
<1>8. QED
  BY <1>2, <1>5, <1>6, <1>7, CallDoneInv DEF CommitTell

LEMMA CancelSoldInv ==
  ASSUME CouriersInv, Contend, NEW o \in Parcels, CancelSold(o)
  PROVE  CouriersInv'
<1>1. parcel \in [Parcels -> ParcelRow] /\ parcel[o] \in ParcelRow /\ StageSound(parcel[o])
      /\ parcel[o].status \in {"new", "assigned"}
  BY DEF CouriersInv, CourierRows, ParcelsSound, CancelSold
<1>2. PICK row : row = [parcel[o] EXCEPT !.status = "cancelled"]
  OBVIOUS
<1>3. row \in ParcelRow /\ row.status = "cancelled" /\ row.agent = parcel[o].agent
      /\ row.dispatchedAt = parcel[o].dispatchedAt /\ row.endedAt = parcel[o].endedAt
      /\ row.settled = parcel[o].settled /\ parcel' = [parcel EXCEPT ![o] = row]
  BY <1>1, <1>2 DEF ParcelRow, CancelSold
<1>4. StageSound(row)
  BY <1>1, <1>3 DEF StageSound, FinishedStates
<1>5. parcel' \in [Parcels -> ParcelRow] /\ parcel'[o] = row /\ \A p \in Parcels \ {o} : parcel'[p] = parcel[p]
  BY <1>1, <1>3
<1>6. ParcelsSound'
  BY <1>4, <1>5 DEF CouriersInv, ParcelsSound
<1>7. QED
  BY <1>3, <1>5, <1>6, ParcelOnInv DEF CancelSold

LEMMA SettleParcelsInv ==
  ASSUME CouriersInv, Contend, NEW a \in DeliveryAgents, NEW os \in SUBSET Parcels,
         SettleParcels(a, os)
  PROVE  CouriersInv'
<1>1. parcel \in [Parcels -> ParcelRow] /\ ParcelsSound
  BY DEF CouriersInv, CourierRows
<1>2. ASSUME NEW o \in Parcels
      PROVE  /\ parcel'[o] \in ParcelRow /\ StageSound(parcel'[o])
             /\ parcel'[o].agent = parcel[o].agent /\ parcel'[o].status = parcel[o].status
             /\ parcel[o].settled => parcel'[o].settled
  <2>1. parcel[o] \in ParcelRow /\ StageSound(parcel[o])
    BY <1>1 DEF ParcelsSound
  <2>2. CASE o \notin os
    BY <2>1, <2>2 DEF SettleParcels
  <2>3. CASE o \in os
    <3>1. PICK row : row = [parcel[o] EXCEPT !.settled = TRUE]
      OBVIOUS
    <3>2. /\ row \in ParcelRow /\ row.status = parcel[o].status /\ row.agent = parcel[o].agent
          /\ row.dispatchedAt = parcel[o].dispatchedAt /\ row.settled = TRUE
      BY <2>1, <3>1 DEF ParcelRow
    <3>3. parcel'[o] = row /\ parcel[o].status \in FinishedStates
      BY <2>3, <3>1 DEF SettleParcels
    <3>4. StageSound(row)
      BY <3>2, <3>3 DEF StageSound, FinishedStates
    <3>5. QED
      BY <3>2, <3>3, <3>4
  <2>4. QED
    BY <2>2, <2>3
<1>3. parcel' \in [Parcels -> ParcelRow]
  BY <1>2 DEF SettleParcels
<1>4. QED
  BY <1>2, <1>3, ParcelOnInv DEF SettleParcels, ParcelsSound

LEMMA CouriersStepInv ==
  ASSUME CouriersInv, CouriersNext
  PROVE  CouriersInv'
<1> USE DEF CouriersNext
<1>1. ASSUME NEW a \in DeliveryAgents, OpenLink(a) PROVE CouriersInv'
  <2>1. CourierRows' /\ ParcelsSound' /\ CancelsHeld'
    BY <1>1 DEF OpenLink, CouriersInv, CourierRows, CourierRow, ParcelsSound, CancelsHeld
  <2>2. AgentsLeaveClean'
    BY <1>1, CleanWhileOthersChange DEF OpenLink
  <2>3. QED
    BY <2>1, <2>2 DEF CouriersInv
<1>2. CASE CourierTick
  <2>1. CourierRows' /\ ParcelsSound' /\ CancelsHeld'
    BY <1>2, CouriersAssumption DEF CourierTick, CouriersInv, CourierRows, ParcelsSound, CancelsHeld
  <2>2. AgentsLeaveClean'
    BY <1>2, CleanWhileOthersChange DEF CourierTick
  <2>3. QED
    BY <2>1, <2>2 DEF CouriersInv
<1>3. ASSUME NEW a \in DeliveryAgents, NEW active \in BOOLEAN, NEW driver \in BOOLEAN,
             CreateAgent(a, active, driver) \/ UpdateAgent(a, active, driver)
      PROVE  CouriersInv'
  BY <1>3, CreateAgentInv, AgentStepInv
<1>4. QED
  BY <1>1, <1>2, <1>3, AgentStepInv, BeginRemoveInv, BeginCreateInv, BeginAssignInv, BeginSaleInv,
     BeginTellInv, BeginCancelInv, CommitRemoveInv, CommitCreateInv, CommitAssignInv, RecordSaleInv,
     CommitTellInv, EndCancelInv, GiveUpInv, ByOfficeInv, CancelSoldInv, SettleParcelsInv
  DEF CourierStep

-----------------------------------------------------------------------------
(* The rows of the others stay as they were, and one parcel has times in order        *)
LEMMA TimesKept ==
  ASSUME CouriersInv, TimesInv, clock' = clock,
         \A o \in Parcels : parcel'[o] = parcel[o] \/ TimesSound(parcel'[o]),
         \A d \in Callers : desk'[d] = desk[d] \/ desk'[d].do # "sale" \/ desk'[d].at <= clock
  PROVE  TimesInv'
<1>1. \A o \in Parcels : TimesSound(parcel'[o])
  BY DEF TimesInv
<1>2. \A o \in Parcels : TimesSound(parcel[o])'
  BY <1>1 DEF TimesSound
<1>3. QED
  BY <1>2 DEF TimesInv

LEMMA CallTimes ==
  ASSUME CouriersInv, TimesInv, NEW d \in Callers, NEW c, c.do = "sale" => c.at <= clock,
         desk' = [desk EXCEPT ![d] = c], UNCHANGED clock,
         \A o \in Parcels : parcel'[o] = parcel[o] \/ TimesSound(parcel'[o])
  PROVE  TimesInv'
<1>1. \A e \in Callers : desk'[e] = desk[e] \/ desk'[e].do # "sale" \/ desk'[e].at <= clock
  BY DEF CouriersInv, CourierRows
<1>2. QED
  BY <1>1, TimesKept

LEMMA CallDoneTimes ==
  ASSUME CouriersInv, TimesInv, NEW d \in Callers, EndCall(d), UNCHANGED clock,
         \A o \in Parcels : parcel'[o] = parcel[o] \/ TimesSound(parcel'[o])
  PROVE  TimesInv'
BY CallsKnown, CallTimes DEF EndCall

(* A change of status leaves the times as they are                                    *)
LEMMA SameTimes ==
  ASSUME TimesInv, NEW o \in Parcels, NEW row, row.assignedAt = parcel[o].assignedAt,
         row.dispatchedAt = parcel[o].dispatchedAt, row.endedAt = parcel[o].endedAt
  PROVE  TimesSound(row)
BY DEF TimesInv, TimesSound

LEMMA EventTimesSound ==
  ASSUME CouriersInv, TimesInv, NEW o \in Parcels, NEW told \in 0 .. LastTime,
         DispatchParcel(o, told) \/ \E s \in FinishedStates : ConcludeParcel(o, s, told)
  PROVE  \A p \in Parcels : parcel'[p] = parcel[p] \/ TimesSound(parcel'[p])
<1>1. parcel[o] \in ParcelRow /\ StageSound(parcel[o]) /\ TimesSound(parcel[o]) /\ clock \in 1 .. LastTime
  BY DEF CouriersInv, CourierRows, ParcelsSound, TimesInv
<1>2. parcel[o].assignedAt \in ParcelTimes /\ parcel[o].dispatchedAt \in ParcelTimes
      /\ parcel[o].endedAt \in ParcelTimes
  BY <1>1 DEF ParcelRow
<1>3. CASE DispatchParcel(o, told)
  <2>0. PICK time : time = EventTime(told, parcel[o].assignedAt)
    OBVIOUS
  <2>1. TimesSound(parcel'[o])
    <3>1. time \in ParcelTimes /\ parcel[o].assignedAt <= time /\ time <= clock
      BY <1>1, <1>2, <2>0, EventTimes DEF TimesSound
    <3>2. /\ parcel'[o].dispatchedAt = time /\ parcel'[o].assignedAt = parcel[o].assignedAt
          /\ parcel'[o].endedAt = parcel[o].endedAt /\ parcel[o].status = "assigned"
      BY <1>3, <2>0, ParcelDispatched DEF CouriersInv
    <3>3. parcel[o].endedAt = 0
      BY <1>1, <3>2 DEF StageSound, FinishedStates
    <3>4. QED
      BY <1>1, <1>2, <3>1, <3>2, <3>3 DEF TimesSound
  <2>2. QED
    BY <1>3, <2>1, ParcelDispatched DEF CouriersInv
<1>4. ASSUME NEW s \in FinishedStates, ConcludeParcel(o, s, told)
      PROVE \A p \in Parcels : parcel'[p] = parcel[p] \/ TimesSound(parcel'[p])
  <2>1. TimesSound(parcel'[o])
    BY <1>1, <1>2, <1>4, ParcelConcluded, EventTimes, CouriersAssumption
    DEF TimesSound, CouriersInv, ParcelTimes
  <2>2. QED
    BY <1>4, <2>1, ParcelConcluded DEF CouriersInv
<1>5. QED
  BY <1>3, <1>4

LEMMA CreateTimesInv ==
  ASSUME CouriersInv, TimesInv, NEW d \in Desks, CommitCreate(d)
  PROVE  TimesInv'
<1>1. PICK o, time : o = desk[d].order /\ time = (IF desk[d].agent = NoOne THEN 0 ELSE clock)
  OBVIOUS
<1>2. o \in Parcels /\ clock \in 1 .. LastTime /\ parcel \in [Parcels -> ParcelRow] /\ d \in Callers
  BY <1>1 DEF CommitCreate, CouriersInv, CourierRows, CallSound, OrderCalls, Callers
<1>3. /\ parcel'[o].assignedAt = time /\ parcel'[o].dispatchedAt = 0 /\ parcel'[o].endedAt = 0
      /\ \A p \in Parcels \ {o} : parcel'[p] = parcel[p]
  BY <1>1, <1>2 DEF CommitCreate, NoParcel
<1>4. time <= clock /\ 0 <= clock
  BY <1>1, <1>2, CouriersAssumption
<1>5. QED
  BY <1>2, <1>3, <1>4, CallDoneTimes DEF CommitCreate, TimesSound

LEMMA SaleTimesInv ==
  ASSUME CouriersInv, TimesInv, NEW t \in Tills, RecordSale(t)
  PROVE  TimesInv'
<1>1. PICK o, told : o = desk[t].order /\ told = desk[t].at
  OBVIOUS
<1>2. o \in Parcels /\ clock \in 1 .. LastTime /\ parcel \in [Parcels -> ParcelRow] /\ t \in Callers
      /\ told \in ParcelTimes /\ told <= clock
  BY <1>1 DEF RecordSale, CouriersInv, CourierRows, CallSound, OrderCalls, CallRow, Callers, TimesInv
<1>3. PICK with, out : with = (desk[t].agent # NoOne) /\ out = desk[t].out
  OBVIOUS
<1>4. /\ parcel'[o].assignedAt = (IF with THEN told ELSE 0)
      /\ parcel'[o].dispatchedAt = (IF with /\ out THEN told ELSE 0)
      /\ parcel'[o].endedAt = 0
      /\ \A p \in Parcels \ {o} : parcel'[p] = parcel[p]
  BY <1>1, <1>2, <1>3 DEF RecordSale, NoParcel
<1>5. TimesSound(parcel'[o])
  BY <1>2, <1>4, CouriersAssumption DEF TimesSound, ParcelTimes
<1>6. QED
  BY <1>2, <1>4, <1>5, CallDoneTimes DEF RecordSale

LEMMA AssignTimesInv ==
  ASSUME CouriersInv, TimesInv, NEW d \in Desks, CommitAssign(d)
  PROVE  TimesInv'
<1>1. PICK o, a : o = desk[d].order /\ a = desk[d].agent
  OBVIOUS
<1>2. o \in Parcels /\ clock \in 1 .. LastTime /\ parcel \in [Parcels -> ParcelRow] /\ d \in Callers
      /\ TimesSound(parcel[o]) /\ StageSound(parcel[o]) /\ parcel[o].status \in {"new", "assigned"}
  BY <1>1 DEF CommitAssign, CouriersInv, CourierRows, CallSound, OrderCalls, Callers, TimesInv, ParcelsSound
<1>3. /\ parcel'[o].assignedAt \in {clock, parcel[o].assignedAt} /\ parcel'[o].dispatchedAt = parcel[o].dispatchedAt
      /\ parcel'[o].endedAt = parcel[o].endedAt
      /\ \A p \in Parcels \ {o} : parcel'[p] = parcel[p]
  BY <1>1, <1>2 DEF CommitAssign, ParcelRow
<1>4. parcel[o].dispatchedAt = 0 /\ parcel[o].endedAt = 0
  BY <1>2 DEF StageSound, FinishedStates
<1>5. TimesSound(parcel'[o])
  BY <1>2, <1>3, <1>4 DEF TimesSound
<1>6. QED
  BY <1>2, <1>3, <1>5, CallDoneTimes DEF CommitAssign

LEMMA CallTimesInv ==
  ASSUME CouriersInv, TimesInv, NEW d \in Desks, NEW o \in Parcels, NEW a,
         BeginAssign(d, o, a) \/ BeginCreate(d, o, a)
  PROVE  TimesInv'
<1>1. PICK c : c \in {[NoCall EXCEPT !.do = "assign", !.order = o, !.agent = a],
                      [NoCall EXCEPT !.do = "create", !.order = o, !.agent = a]} /\ desk' = [desk EXCEPT ![d] = c]
  BY DEF BeginAssign, BeginCreate, BeginCall
<1>2. c.do # "sale"
  BY <1>1 DEF NoCall
<1>3. QED
  BY <1>1, <1>2, CallTimes DEF BeginAssign, BeginCreate, Callers

LEMMA TellTimesInv ==
  ASSUME CouriersInv, TimesInv, NEW a \in DeliveryAgents,
         \/ \E o \in Parcels, event \in {"out"} \union FinishedStates, told \in 0 .. LastTime :
              BeginTell(a, o, event, told)
         \/ CommitTell(a)
  PROVE  TimesInv'
<1>0. a \in Callers
  BY DEF Callers
<1>1. ASSUME NEW o \in Parcels, NEW event \in {"out"} \union FinishedStates, NEW told \in 0 .. LastTime,
             BeginTell(a, o, event, told)
      PROVE  TimesInv'
  <2>1. PICK c : c = [NoCall EXCEPT !.do = event, !.order = o, !.at = told]
    OBVIOUS
  <2>2. c.do # "sale"
    BY <2>1 DEF NoCall, FinishedStates
  <2>3. QED
    BY <1>0, <1>1, <2>1, <2>2, CallTimes DEF BeginTell, BeginCall
<1>2. CASE CommitTell(a)
  <2>1. PICK o, told, event : o = desk[a].order /\ told = desk[a].at /\ event = desk[a].do
    OBVIOUS
  <2>2. o \in Parcels /\ told \in 0 .. LastTime
    BY <1>0, <1>2, <2>1 DEF CommitTell, CouriersInv, CourierRows, CallSound, OrderCalls
  <2>3. DispatchParcel(o, told) \/ \E s \in FinishedStates : ConcludeParcel(o, s, told)
    BY <1>2, <2>1 DEF CommitTell
  <2>4. QED
    BY <1>0, <1>2, <2>2, <2>3, EventTimesSound, CallDoneTimes DEF CommitTell
<1>3. QED
  BY <1>1, <1>2

(* Cancelling and settling change no times                                             *)
LEMMA StatusTimesInv ==
  ASSUME CouriersInv, TimesInv,
         \/ \E d \in Desks, o \in Parcels : BeginCancel(d, o)
         \/ \E d \in Desks : EndCancel(d)
         \/ \E o \in Parcels : CancelSold(o)
         \/ \E a \in DeliveryAgents, os \in SUBSET Parcels : SettleParcels(a, os)
  PROVE  TimesInv'
<1>1. \A p \in Parcels : /\ parcel'[p].assignedAt = parcel[p].assignedAt
                         /\ parcel'[p].dispatchedAt = parcel[p].dispatchedAt
                         /\ parcel'[p].endedAt = parcel[p].endedAt
  <2>1. ASSUME NEW a \in DeliveryAgents, NEW os \in SUBSET Parcels, SettleParcels(a, os) 
      PROVE  \A p \in Parcels : /\ parcel'[p].assignedAt = parcel[p].assignedAt
                                /\ parcel'[p].dispatchedAt = parcel[p].dispatchedAt
                                /\ parcel'[p].endedAt = parcel[p].endedAt
    BY <2>1 DEF SettleParcels, CouriersInv, CourierRows, ParcelRow
  <2>2. ASSUME NEW o, NEW status, parcel' = parcel \/ parcel' = [parcel EXCEPT ![o].status = status]
        PROVE  \A p \in Parcels : /\ parcel'[p].assignedAt = parcel[p].assignedAt
                                  /\ parcel'[p].dispatchedAt = parcel[p].dispatchedAt
                                  /\ parcel'[p].endedAt = parcel[p].endedAt
    BY <2>2 DEF CouriersInv, CourierRows, ParcelRow
  <2>3. ASSUME NEW d \in Desks, EndCancel(d)
        PROVE  parcel' = parcel \/ parcel' = [parcel EXCEPT ![desk[d].order].status = desk[d].was]
    BY <2>3 DEF EndCancel
  <2>4. QED
    BY <2>1, <2>2, <2>3 DEF BeginCancel, CancelSold
<1>2. \A p \in Parcels : TimesSound(parcel'[p])
  BY <1>1, SameTimes
<1>3. ASSUME NEW d \in Desks, NEW o \in Parcels, BeginCancel(d, o) PROVE TimesInv'
  <2>1. PICK c : c = [NoCall EXCEPT !.do = "cancel", !.order = o, !.agent = parcel[o].agent, !.was = parcel[o].status]
    OBVIOUS
  <2>2. c.do # "sale"
    BY <2>1 DEF NoCall
  <2>3. QED
    BY <1>2, <1>3, <2>1, <2>2, CallTimes DEF BeginCancel, BeginCall, Callers
<1>4. ASSUME NEW d \in Desks, EndCancel(d) PROVE TimesInv'
  BY <1>2, <1>4, CallDoneTimes DEF EndCancel, Callers
<1>5. QED
  BY <1>2, <1>3, <1>4, TimesKept DEF CancelSold, SettleParcels

LEMMA TimesStepInv ==
  ASSUME CouriersInv, TimesInv, CourierStep, TillAhead = 0
  PROVE  TimesInv'
<1>0. clock \in 1 .. LastTime
  BY DEF CouriersInv, CourierRows
<1>1. ASSUME UNCHANGED <<parcel, desk, clock>> PROVE TimesInv'
  BY <1>1, TimesKept
<1>2. CASE CourierTick
  <2>1. clock' = clock + 1 /\ UNCHANGED <<parcel, desk>>
    BY <1>2 DEF CourierTick
  <2>2. \A o \in Parcels : parcel[o].assignedAt \in Int /\ parcel[o].dispatchedAt \in Int /\ parcel[o].endedAt \in Int
    BY DEF CouriersInv, CourierRows, ParcelRow, ParcelTimes
  <2>3. \A d \in Callers : desk[d].at \in Int
    BY DEF CouriersInv, CourierRows, CallRow, ParcelTimes
  <2>4. QED
    BY <1>0, <2>1, <2>2, <2>3 DEF TimesInv, TimesSound
<1>3. ASSUME NEW t \in Tills, NEW o \in Parcels, NEW a \in DeliveryAgents \union {NoOne}, NEW out \in BOOLEAN,
             NEW told \in 1 .. clock + TillAhead, BeginSale(t, o, a, out, told)
      PROVE  TimesInv'
  <2>1. \A d \in Callers : desk'[d] = desk[d] \/ desk'[d].at <= clock
    BY <1>0, <1>3 DEF BeginSale, BeginCall, CouriersInv, CourierRows, NoCall
  <2>2. QED
    BY <1>3, <2>1, TimesKept DEF BeginSale
<1>4. ASSUME NEW d \in Desks, CommitRemove(d) PROVE TimesInv'
  BY <1>4, CallDoneTimes DEF CommitRemove, Callers
<1>5. ASSUME NEW d \in Callers, GiveUp(d) PROVE TimesInv'
  BY <1>5, CallDoneTimes DEF GiveUp
<1>6. ASSUME NEW o \in Parcels, ByOffice(o) PROVE TimesInv'
  BY <1>6, EventTimesSound, TimesKept, CouriersAssumption DEF ByOffice
<1>7. ASSUME NEW d \in Desks, NEW a \in DeliveryAgents, BeginRemove(d, a) PROVE TimesInv'
  <2>1. BeginCall(d, [NoCall EXCEPT !.do = "remove", !.agent = a]) /\ UNCHANGED <<parcel, clock>>
    BY <1>7 DEF BeginRemove
  <2>2. PICK c : c = [NoCall EXCEPT !.do = "remove", !.agent = a]
    OBVIOUS
  <2>3. c.do # "sale"
    BY <2>2 DEF NoCall
  <2>4. QED
    BY <2>1, <2>2, <2>3, CallTimes DEF BeginCall, Callers
<1>8. QED
  BY <1>1, <1>2, <1>3, <1>4, <1>5, <1>6, <1>7, CallTimesInv, TellTimesInv, StatusTimesInv,
     CreateTimesInv, SaleTimesInv, AssignTimesInv
  DEF CourierStep, CreateAgent, UpdateAgent, IssueDriverAccess, RevokeDriverAccess, OpenLink

-----------------------------------------------------------------------------
LEMMA CouriersImplied ==
  ASSUME CouriersInv
  PROVE  CouriersTypeOK /\ RemovedOwesNothing
<1>1. CouriersTypeOK
  BY DEF CouriersInv, CourierRows, CouriersTypeOK, CourierRow, ParcelRow, ParcelTimes, CallRow,
      OrderCalls
<1>2. RemovedOwesNothing
  BY DEF CouriersInv, AgentsLeaveClean, LeavesClean, Cleared, RemovedOwesNothing
<1>3. QED
  BY <1>1, <1>2

(* An agent who was removed has no parcel in the works and no money to hand over,      *)
(* unless somebody else was giving him one meanwhile: whatever the clocks say           *)
(* (DeliveryService.removeAgent)                                                        *)
THEOREM AgentsLeaveWithNothing == CouriersSpec => [](CouriersTypeOK /\ RemovedOwesNothing)
<1>1. CouriersInit => CouriersInv
  BY CouriersInvInit
<1>2. CouriersInv /\ [CouriersNext]_courierVars => CouriersInv'
  <2> SUFFICES ASSUME CouriersInv, [CouriersNext]_courierVars PROVE CouriersInv'
    OBVIOUS
  <2>1. CASE CouriersNext
    BY <2>1, CouriersStepInv
  <2>2. CASE UNCHANGED courierVars
    BY <2>2 DEF courierVars, CouriersInv, CourierRows, ParcelsSound, CancelsHeld, AgentsLeaveClean,
      LeavesClean, Leaves, Cleared
  <2>3. QED
    BY <2>1, <2>2
<1>3. CouriersInv => CouriersTypeOK /\ RemovedOwesNothing
  BY CouriersImplied
<1>4. QED
  BY <1>1, <1>2, <1>3, PTL DEF CouriersSpec

(* Where no till's clock is ahead of the server's, the events of a parcel are in order  *)
(* as well, whatever the phones tell (eventTime)                                         *)
THEOREM AgentsAreInOrder == TillAhead = 0 => (CouriersSpec => []AgentsInOrder)
<1> SUFFICES ASSUME TillAhead = 0 PROVE CouriersSpec => []AgentsInOrder
  OBVIOUS
<1>1. CouriersInit => CouriersInv /\ TimesInv
  BY CouriersInvInit
<1>2. CouriersInv /\ TimesInv /\ [CouriersNext]_courierVars => (CouriersInv /\ TimesInv)'
  <2> SUFFICES ASSUME CouriersInv, TimesInv, [CouriersNext]_courierVars PROVE (CouriersInv /\ TimesInv)'
    OBVIOUS
  <2>1. CASE CouriersNext
    BY <2>1, CouriersStepInv, TimesStepInv DEF CouriersNext
  <2>2. CASE UNCHANGED courierVars
    <3>1. CouriersInv'
      BY <2>2 DEF courierVars, CouriersInv, CourierRows, ParcelsSound, CancelsHeld, AgentsLeaveClean,
      LeavesClean, Leaves, Cleared
    <3>2. TimesInv'
      BY <2>2 DEF courierVars, TimesInv, TimesSound
    <3>3. QED
      BY <3>1, <3>2
  <2>3. QED
    BY <2>1, <2>2
<1>3. CouriersInv /\ TimesInv => AgentsInOrder
  BY CouriersImplied DEF TimesInv, TimesSound, AgentsInOrder, EventsInOrder
<1>4. QED
  BY <1>1, <1>2, <1>3, PTL DEF CouriersSpec
=============================================================================
