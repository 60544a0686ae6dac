------------------------------ MODULE UnitSums ------------------------------
(* Sums of integer functions with a finite domain, the model of the SUM(...) *)
(* the services leave to SQL. A sum is written by counting: the units f holds *)
(* (f[x] of them at each x where f[x] is positive) less the units it owes.    *)
(* Written without recursion, it can be reasoned about by the finite-set      *)
(* theorems of the library (module UnitSumsProofs).                           *)
EXTENDS Integers, FiniteSets

UnitsAt(f, x) == {x} \X (1..f[x])

Units(f) == UNION {UnitsAt(f, x) : x \in DOMAIN f}

Negated(f) == [x \in DOMAIN f |-> -f[x]]

(* The sum of f[x] over the domain of f *)
Total(f) == Cardinality(Units(f)) - Cardinality(Units(Negated(f)))

(* n / d rounded half up, for naturals (Decimal.toDecimalPlaces, database numeric) *)
RoundedQuotient(n, d) == (2 * n + d) \div (2 * d)
=============================================================================
