---------------------------- MODULE MCDocuments ----------------------------
(***************************************************************************)
(* The transactions that number invoices, and those that write stock, on      *)
(* small instances: a behaviour is that of one of them (part), and the others *)
(* do not begin.                                                              *)
(***************************************************************************)
EXTENDS InvoiceChain, StockTransactions, TLC

VARIABLE part

Symmetry == Permutations(Clients)

-----------------------------------------------------------------------------
DocumentsInit == part \in {"invoices", "stock"} /\ ChainInit /\ TxInit

DocumentsNext ==
  \/ part = "invoices" /\ ChainNext /\ UNCHANGED <<part, txVars>>
  \/ part = "stock" /\ TxNext /\ UNCHANGED <<part, chainVars>>

DocumentsSpec == DocumentsInit /\ [][DocumentsNext]_<<part, chainVars, txVars>>
=============================================================================
