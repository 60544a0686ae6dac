---------------------------- MODULE InvoiceChain ----------------------------
(***************************************************************************)
(* The numbers and the hash chain of a company's issued invoices, as         *)
(* SalesInvoicesService.finalize makes them: an advisory lock until the end  *)
(* of the transaction, then separate statements that read the last number    *)
(* and the last counter, and the update that is visible at the commit.       *)
(* Invoices of the office take the next number; an invoice recorded from a   *)
(* till keeps the number its device printed and only joins the chain.        *)
(* The hash of an invoice covers its uuid, so the invoice stands for it.     *)
(***************************************************************************)
EXTENDS Integers

CONSTANTS
  Invoices,   \* drafts that may be issued
  FromTill,   \* those recorded from a till
  Nobody,     \* the holder of the lock when it is free
  Nothing     \* the previous hash of the first invoice; no entry

ASSUME ChainAssumption ==
  /\ FromTill \subseteq Invoices
  /\ Nobody \notin Invoices
  /\ Nothing \notin Invoices

VARIABLES
  entry,  \* sales_invoices: number, counter and previousInvoiceHash once issued
  holder, \* the transaction that holds the advisory lock, named by its invoice
  at,     \* where the transaction of each invoice is
  last    \* what it has read

chainVars == <<entry, holder, at, last>>

-----------------------------------------------------------------------------
(* number 0: a till's own number, which is not one of the sequence *)
Entry == [number : Nat, counter : Nat \ {0}, previous : Invoices \cup {Nothing}]
Reading == [number : Nat, counter : Nat, hash : Invoices \cup {Nothing}]
NoReading == [number |-> 0, counter |-> 0, hash |-> Nothing]

ASSUME EntryAssumption == Nothing \notin Entry

Issued == {i \in Invoices : entry[i] # Nothing}

(* SELECT MAX(number), over the numbers of the sequence *)
IsLastNumber(n) ==
  /\ \A j \in Issued : entry[j].number <= n
  /\ n = 0 \/ \E j \in Issued : entry[j].number = n

(* SELECT counter, hash .. ORDER BY counter DESC LIMIT 1 *)
IsLastEntry(counter, hash) ==
  /\ \A j \in Issued : entry[j].counter <= counter
  /\ \/ counter = 0 /\ hash = Nothing
     \/ hash \in Issued /\ entry[hash].counter = counter

-----------------------------------------------------------------------------
ChainInit ==
  /\ entry = [i \in Invoices |-> Nothing]
  /\ holder = Nobody
  /\ at = [i \in Invoices |-> "idle"]
  /\ last = [i \in Invoices |-> NoReading]

(* The invoice's row is locked and its goods leave the stock *)
Start(i) ==
  /\ entry[i] = Nothing /\ at[i] = "idle"
  /\ at' = [at EXCEPT ![i] = "started"]
  /\ UNCHANGED <<entry, holder, last>>

(* pg_advisory_xact_lock on the company's invoices *)
LockSequence(i) ==
  /\ at[i] = "started"
  /\ holder = Nobody
  /\ holder' = i
  /\ at' = [at EXCEPT ![i] = "locked"]
  /\ UNCHANGED <<entry, last>>

(* nextDocumentNumber reads the last number *)
ReadNumber(i) ==
  /\ at[i] = "locked"
  /\ \E n \in {0} \cup {entry[j].number : j \in Issued} :
       /\ IsLastNumber(n)
       /\ last' = [last EXCEPT ![i].number = n]
  /\ at' = [at EXCEPT ![i] = "numbered"]
  /\ UNCHANGED <<entry, holder>>

(* slip: the invoice before is the last by date (ChainUnbroken) *)
ReadEntryByDate(i) ==
  /\ at[i] = "numbered"
  /\ \E c \in {0} \cup {entry[j].counter : j \in Issued}, h, latest \in Issued \cup {Nothing} :
       /\ IsLastEntry(c, h)
       /\ Issued # {} => latest # Nothing
       /\ last' = [last EXCEPT ![i].counter = c, ![i].hash = latest]
  /\ at' = [at EXCEPT ![i] = "read"]
  /\ UNCHANGED <<entry, holder>>

(* The last counter and its hash, whatever order the invoices are dated in *)
ReadEntry(i) ==
  /\ at[i] = "numbered"
  /\ \E c \in {0} \cup {entry[j].counter : j \in Issued}, h \in Issued \cup {Nothing} :
       /\ IsLastEntry(c, h)
       /\ last' = [last EXCEPT ![i].counter = c, ![i].hash = h]
  /\ at' = [at EXCEPT ![i] = "read"]
  /\ UNCHANGED <<entry, holder>>

(* The end of the transaction frees its locks *)
Release(i) ==
  /\ holder' = IF holder = i THEN Nobody ELSE holder
  /\ at' = [at EXCEPT ![i] = "idle"]
  /\ last' = [last EXCEPT ![i] = NoReading]

(* slip: the number is the counter, which tills use too (NumbersInSequence) *)
CommitNumberedByCounter(i) ==
  /\ at[i] = "read"
  /\ entry' = [entry EXCEPT ![i] =
       [number |-> IF i \in FromTill THEN 0 ELSE last[i].counter + 1,
        counter |-> last[i].counter + 1, previous |-> last[i].hash]]
  /\ Release(i)

(* The update of the invoice, and the commit that shows it and frees the lock *)
Commit(i) ==
  /\ at[i] = "read"
  /\ entry' = [entry EXCEPT ![i] =
       [number |-> IF i \in FromTill THEN 0 ELSE last[i].number + 1,
        counter |-> last[i].counter + 1,
        previous |-> last[i].hash]]
  /\ Release(i)

(* Any later statement may fail (a payment, the connection): nothing is issued *)
Rollback(i) ==
  /\ at[i] # "idle"
  /\ Release(i)
  /\ UNCHANGED entry

ChainNext ==
  \E i \in Invoices :
    Start(i) \/ LockSequence(i) \/ ReadNumber(i) \/ ReadEntry(i) \/ Commit(i) \/ Rollback(i)

ChainSpec == ChainInit /\ [][ChainNext]_chainVars

-----------------------------------------------------------------------------
ChainTypeOK ==
  /\ entry \in [Invoices -> Entry \cup {Nothing}]
  /\ holder \in Invoices \cup {Nobody}
  /\ at \in [Invoices -> {"idle", "started", "locked", "numbered", "read"}]
  /\ last \in [Invoices -> Reading]

(* The chain shows any deletion or change: the issued invoices carry the       *)
(* counters 1, 2, 3 and so on, each once, and each holds the hash of the one   *)
(* before it, although requests are issued at once and may fail after they     *)
(* have read.                                                                  *)
ChainUnbroken ==
  /\ \A i, j \in Issued : entry[i].counter = entry[j].counter => i = j
  /\ \A i \in Issued :
       IF entry[i].counter = 1 THEN entry[i].previous = Nothing
       ELSE /\ entry[i].previous \in Issued
            /\ entry[entry[i].previous].counter = entry[i].counter - 1

(* The office's invoices take the numbers 1, 2, 3 and so on, each once and     *)
(* without a gap: a number is given when the invoice is issued, so drafts and  *)
(* failed requests leave none.                                                 *)
NumbersInSequence ==
  /\ \A i, j \in Issued \ FromTill : entry[i].number = entry[j].number => i = j
  /\ \A i \in Issued \ FromTill :
       entry[i].number = 1 \/ \E j \in Issued : entry[j].number = entry[i].number - 1
=============================================================================
