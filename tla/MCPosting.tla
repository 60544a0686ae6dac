----------------------------- MODULE MCPosting -----------------------------
(* Posting on a small instance: see the .cfg file for the sets *)
EXTENDS Posting

CONSTANTS s1, p1

Amounts == [d \in {s1, p1} |-> IF d = s1 THEN 2 ELSE 1]
=============================================================================
