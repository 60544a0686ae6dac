--------------------------- MODULE UnitSumsProofs ---------------------------
EXTENDS UnitSums, FiniteSetTheorems, TLAPS

(* The units at one index: as many as the index holds, none when it owes *)
LEMMA UnitsAtCount ==
  ASSUME NEW f, NEW x, f[x] \in Int
  PROVE  /\ IsFiniteSet(UnitsAt(f, x))
         /\ Cardinality(UnitsAt(f, x)) = IF f[x] > 0 THEN f[x] ELSE 0
<1> DEFINE I == 1..f[x]
           b == [i \in I |-> <<x, i>>]
<1>1. IsFiniteSet(I) /\ Cardinality(I) = IF f[x] > 0 THEN f[x] ELSE 0
  BY FS_Interval
<1>2. b \in Bijection(I, UnitsAt(f, x))
  BY DEF Bijection, Injection, Surjection, IsInjective, UnitsAt
<1>3. ExistsBijection(I, UnitsAt(f, x))
  BY <1>2 DEF ExistsBijection
<1> HIDE DEF I, b
<1> QED
  BY <1>1, <1>3, FS_Bijection

(* The units of a function with a finite domain are finitely many *)
LEMMA UnitsFinite ==
  ASSUME NEW S, IsFiniteSet(S), NEW f \in [S -> Int]
  PROVE  IsFiniteSet(Units(f))
<1> DEFINE T == {UnitsAt(f, x) : x \in S}
           h == [x \in S |-> UnitsAt(f, x)]
<1>1. h \in Surjection(S, T)
  BY DEF Surjection
<1>2. IsFiniteSet(T)
  BY <1>1, FS_Surjection
<1>3. \A t \in T : IsFiniteSet(t)
  BY UnitsAtCount
<1>4. Units(f) = UNION T
  BY DEF Units
<1> HIDE DEF T
<1> QED
  BY <1>2, <1>3, <1>4, FS_UNION

(* Replacing one value replaces the units at that index and no other *)
LEMMA UnitsUpdate ==
  ASSUME NEW S, IsFiniteSet(S), NEW f \in [S -> Int], NEW g \in [S -> Int], NEW x \in S,
         \A y \in S \ {x} : g[y] = f[y]
  PROVE  Cardinality(Units(g)) - Cardinality(UnitsAt(g, x))
           = Cardinality(Units(f)) - Cardinality(UnitsAt(f, x))
<1> DEFINE R(e) == Units(e) \ UnitsAt(e, x)
<1>1. R(f) = R(g)
  BY DEF Units, UnitsAt
<1>2. ASSUME NEW e \in [S -> Int]
      PROVE  Cardinality(R(e)) = Cardinality(Units(e)) - Cardinality(UnitsAt(e, x))
  <2>1. IsFiniteSet(Units(e))
    BY UnitsFinite
  <2>2. IsFiniteSet(UnitsAt(e, x)) /\ UnitsAt(e, x) \subseteq Units(e)
    BY UnitsAtCount DEF Units
  <2>3. Units(e) \cap UnitsAt(e, x) = UnitsAt(e, x)
    BY <2>2
  <2> QED
    BY <2>1, <2>3, FS_Difference
<1>3. Cardinality(R(f)) = Cardinality(Units(f)) - Cardinality(UnitsAt(f, x))
  BY <1>2
<1>4. Cardinality(R(g)) = Cardinality(Units(g)) - Cardinality(UnitsAt(g, x))
  BY <1>2
<1> QED
  BY <1>1, <1>3, <1>4

LEMMA NegatedType ==
  ASSUME NEW S, NEW f \in [S -> Int]
  PROVE  /\ Negated(f) \in [S -> Int]
         /\ \A y \in S : Negated(f)[y] = -f[y]
  BY DEF Negated

(* A sum is an integer *)
THEOREM TotalType ==
  ASSUME NEW S, IsFiniteSet(S), NEW f \in [S -> Int]
  PROVE  Total(f) \in Int
<1>1. IsFiniteSet(Units(f))
  BY UnitsFinite
<1>2. IsFiniteSet(Units(Negated(f)))
  BY NegatedType, UnitsFinite
<1> QED
  BY <1>1, <1>2, FS_CardinalityType DEF Total

(* Changing one value changes the sum by the difference *)
THEOREM TotalUpdate ==
  ASSUME NEW S, IsFiniteSet(S), NEW f \in [S -> Int], NEW g \in [S -> Int], NEW x \in S,
         \A y \in S \ {x} : g[y] = f[y]
  PROVE  Total(g) = Total(f) - f[x] + g[x]
<1> DEFINE nf == Negated(f)
           ng == Negated(g)
<1>1. /\ nf \in [S -> Int] /\ ng \in [S -> Int]
      /\ nf[x] = -f[x] /\ ng[x] = -g[x]
      /\ \A y \in S \ {x} : ng[y] = nf[y]
  BY NegatedType
<1>2. Cardinality(Units(g)) - Cardinality(UnitsAt(g, x))
        = Cardinality(Units(f)) - Cardinality(UnitsAt(f, x))
  BY UnitsUpdate
<1>3. Cardinality(Units(ng)) - Cardinality(UnitsAt(ng, x))
        = Cardinality(Units(nf)) - Cardinality(UnitsAt(nf, x))
  BY <1>1, UnitsUpdate
<1>4. /\ Cardinality(UnitsAt(f, x)) = IF f[x] > 0 THEN f[x] ELSE 0
      /\ Cardinality(UnitsAt(g, x)) = IF g[x] > 0 THEN g[x] ELSE 0
      /\ Cardinality(UnitsAt(nf, x)) = IF nf[x] > 0 THEN nf[x] ELSE 0
      /\ Cardinality(UnitsAt(ng, x)) = IF ng[x] > 0 THEN ng[x] ELSE 0
  BY <1>1, UnitsAtCount
<1>5. /\ Cardinality(Units(f)) \in Nat /\ Cardinality(Units(g)) \in Nat
      /\ Cardinality(Units(nf)) \in Nat /\ Cardinality(Units(ng)) \in Nat
  BY <1>1, UnitsFinite, FS_CardinalityType
<1>6. f[x] \in Int /\ g[x] \in Int
  OBVIOUS
<1>7. Total(f) = Cardinality(Units(f)) - Cardinality(Units(nf))
  BY DEF Total
<1>8. Total(g) = Cardinality(Units(g)) - Cardinality(Units(ng))
  BY DEF Total
<1> HIDE DEF nf, ng
<1> QED
  BY <1>1, <1>2, <1>3, <1>4, <1>5, <1>6, <1>7, <1>8

LEMMA UnitsExtend ==
  ASSUME NEW T, NEW x \in T, NEW S \in SUBSET T, x \notin S, \A y \in T : y = x \/ y \in S,
         NEW f \in [S -> Int], NEW h \in [T -> Int],
         h[x] = 0, \A y \in S : h[y] = f[y]
  PROVE  Units(h) = Units(f)
<1>1. \A y \in S : UnitsAt(h, y) = UnitsAt(f, y)
  BY DEF UnitsAt
<1>2. UnitsAt(h, x) = {}
  BY DEF UnitsAt
<1>3. DOMAIN h = T /\ DOMAIN f = S
  OBVIOUS
<1> QED
  BY <1>1, <1>2, <1>3 DEF Units

(* A function with one more index has its value there as well in the sum *)
THEOREM TotalExtend ==
  ASSUME NEW T, IsFiniteSet(T), NEW x \in T, NEW S \in SUBSET T, x \notin S,
         \A y \in T : y = x \/ y \in S,
         NEW f \in [S -> Int], NEW g \in [T -> Int],
         \A y \in S : g[y] = f[y]
  PROVE  Total(g) = Total(f) + g[x]
<1> DEFINE h == [y \in T |-> IF y = x THEN 0 ELSE f[y]]
<1>1. h \in [T -> Int] /\ h[x] = 0 /\ \A y \in T \ {x} : g[y] = h[y]
  OBVIOUS
<1>0. \A y \in S : h[y] = f[y]
  OBVIOUS
<1>2. Total(g) = Total(h) - h[x] + g[x]
  <2> HIDE DEF h
  <2> QED
    BY <1>1, TotalUpdate
<1>3. Units(h) = Units(f)
  <2> HIDE DEF h
  <2> QED
    BY <1>1, <1>0, UnitsExtend
<1>4. Units(Negated(h)) = Units(Negated(f))
  <2> HIDE DEF h
  <2>1. /\ Negated(h) \in [T -> Int] /\ Negated(f) \in [S -> Int]
        /\ Negated(h)[x] = 0 /\ \A y \in S : Negated(h)[y] = Negated(f)[y]
    BY <1>1, <1>0, NegatedType
  <2> QED
    BY <2>1, UnitsExtend
<1>5. Total(h) = Total(f)
  BY <1>3, <1>4 DEF Total
<1>6. IsFiniteSet(S)
  BY FS_Subset
<1>7. Total(f) \in Int
  BY <1>6, TotalType
<1> QED
  BY <1>1, <1>2, <1>5, <1>7

(* ... in particular a sequence of integers one longer *)
THEOREM TotalAppend ==
  ASSUME NEW n \in Nat, NEW f \in [1..n -> Int], NEW g \in [1..(n + 1) -> Int],
         \A i \in 1..n : g[i] = f[i]
  PROVE  Total(g) = Total(f) + g[n + 1]
<1> DEFINE S == 1..n
           T == 1..(n + 1)
           x == n + 1
<1>1. /\ IsFiniteSet(T) /\ x \in T /\ S \in SUBSET T /\ x \notin S
      /\ \A y \in T : y = x \/ y \in S
  BY FS_Interval
<1>2. f \in [S -> Int] /\ g \in [T -> Int] /\ \A y \in S : g[y] = f[y]
  OBVIOUS
<1> HIDE DEF S, T, x
<1>3. Total(g) = Total(f) + g[x]
  BY <1>1, <1>2, TotalExtend
<1> QED
  BY <1>3 DEF x

(* The sum of a function that is zero everywhere is zero *)
THEOREM TotalZero ==
  ASSUME NEW S
  PROVE  Total([x \in S |-> 0]) = 0
<1> DEFINE z == [x \in S |-> 0]
<1>1. Units(z) = {}
  BY DEF Units, UnitsAt
<1>2. Units(Negated(z)) = {}
  BY DEF Units, UnitsAt, Negated
<1> QED
  BY <1>1, <1>2, FS_EmptySet DEF Total

(* A rounded quotient is a natural number *)
THEOREM RoundedQuotientType ==
  ASSUME NEW n \in Nat, NEW d \in Nat \ {0}
  PROVE  RoundedQuotient(n, d) \in Nat
  BY DEF RoundedQuotient

(* It does not exceed a bound the quotient itself respects *)
THEOREM RoundedQuotientBound ==
  ASSUME NEW n \in Nat, NEW d \in Nat \ {0}, NEW m \in Nat, n <= d * m
  PROVE  RoundedQuotient(n, d) <= m
<1> DEFINE a == 2 * n + d
           b == 2 * d
           q == a \div b
<1>1. a \in Nat /\ b \in Nat \ {0} /\ d * m \in Nat
  OBVIOUS
<1>2. q \in Nat /\ b * q <= a
  BY <1>1, SMT
<1>3. a <= b * m + d
  BY SMT
<1> QED
  BY <1>1, <1>2, <1>3, SMT DEF RoundedQuotient

(* It does not fall short of one either *)
THEOREM RoundedQuotientFloor ==
  ASSUME NEW n \in Nat, NEW d \in Nat \ {0}, NEW m \in Nat, d * m <= n
  PROVE  m <= RoundedQuotient(n, d)
<1> DEFINE a == 2 * n + d
           b == 2 * d
           q == a \div b
<1>1. a \in Nat /\ b \in Nat \ {0} /\ d * m \in Nat
  OBVIOUS
<1>2. q \in Nat /\ a < b * (q + 1)
  BY <1>1, SMT
<1>3. b * m <= a
  BY SMT
<1>4. q >= m \/ q + 1 <= m
  BY <1>2
<1>5. ASSUME q + 1 <= m PROVE b * (q + 1) <= b * m
  <2> HIDE DEF q, b
  <2>1. q + 1 \in Nat /\ b \in Nat
    BY <1>1, <1>2
  <2> QED
    BY <1>5, <2>1, SMT
<1> QED
  <2> HIDE DEF q, b, a
  <2>1. ~(q + 1 <= m)
    <3> SUFFICES ASSUME q + 1 <= m PROVE FALSE
      OBVIOUS
    <3>1. b * (q + 1) <= b * m
      BY <1>5
    <3>2. PICK u, v : u = b * (q + 1) /\ v = b * m
      OBVIOUS
    <3>3. u \in Int /\ v \in Int
      BY <1>1, <1>2, <3>2
    <3> QED
      BY <1>1, <1>2, <1>3, <3>1, <3>2, <3>3
  <2>2. q >= m
    BY <1>4, <2>1
  <2> QED
    BY <1>2, <2>2 DEF RoundedQuotient, q, a, b

(* Rounding is off by half a unit at most *)
THEOREM RoundedQuotientError ==
  ASSUME NEW n \in Nat, NEW d \in Nat \ {0}
  PROVE  /\ 2 * (d * RoundedQuotient(n, d) - n) <= d
         /\ -2 * (d * RoundedQuotient(n, d) - n) <= d
<1> DEFINE a == 2 * n + d
           b == 2 * d
           q == a \div b
<1>1. a \in Nat /\ b \in Nat \ {0}
  OBVIOUS
<1>2. q \in Nat /\ b * q <= a /\ a < b * q + b
  <2>1. q \in Nat /\ b * q <= a /\ a < b * (q + 1)
    BY <1>1, SMT
  <2>2. b * (q + 1) = b * q + b
    <3> HIDE DEF q, b
    <3> QED
      BY <1>1, <2>1, SMT
  <2> QED
    BY <2>1, <2>2
<1>3. b * q = 2 * (d * q)
  <2> HIDE DEF q
  <2> QED
    BY <1>2, SMT
<1>4. RoundedQuotient(n, d) = q /\ d * q \in Int
  BY <1>2 DEF RoundedQuotient
<1>5. PICK e : e = d * q
  OBVIOUS
<1>6. e \in Int /\ 2 * e <= 2 * n + d /\ 2 * n + d < 2 * e + 2 * d
  BY <1>2, <1>3, <1>4, <1>5
<1>7. 2 * (e - n) <= d /\ -2 * (e - n) <= d
  BY <1>6
<1> QED
  BY <1>4, <1>5, <1>7

(* g is f on a part of its domain *)
PartOf(g, T, f) == g \in [T -> Int] /\ \A x \in T : g[x] = f[x]

(* The units of a part of the domain and of the rest *)
LEMMA UnitsSplit ==
  ASSUME NEW S, IsFiniteSet(S), NEW T, NEW R, S = T \cup R, T \cap R = {},
         NEW f \in [S -> Int], NEW g, NEW h, PartOf(g, T, f), PartOf(h, R, f)
  PROVE  Cardinality(Units(f)) = Cardinality(Units(g)) + Cardinality(Units(h))
<1>1. IsFiniteSet(T) /\ IsFiniteSet(R)
  BY FS_Subset
<1>2. IsFiniteSet(Units(g)) /\ IsFiniteSet(Units(h))
  BY <1>1, UnitsFinite DEF PartOf
<1>3. DOMAIN g = T /\ \A x \in T : UnitsAt(g, x) = UnitsAt(f, x)
  BY DEF UnitsAt, PartOf
<1>4. DOMAIN h = R /\ \A x \in R : UnitsAt(h, x) = UnitsAt(f, x)
  BY DEF UnitsAt, PartOf
<1>5. Units(f) = Units(g) \cup Units(h)
  BY <1>3, <1>4 DEF Units
<1>6. Units(g) \cap Units(h) = {}
  BY <1>3, <1>4 DEF Units, UnitsAt
<1>7. Cardinality(Units(g) \cap Units(h)) = 0
  BY <1>6, FS_EmptySet
<1>8. /\ Cardinality(Units(g)) \in Nat /\ Cardinality(Units(h)) \in Nat
      /\ Cardinality(Units(g) \cup Units(h))
           = Cardinality(Units(g)) + Cardinality(Units(h)) - Cardinality(Units(g) \cap Units(h))
  BY <1>2, FS_Union, FS_CardinalityType
<1> QED
  BY <1>5, <1>7, <1>8

(* A sum is the sum over a part of the domain and over the rest *)
THEOREM TotalSplit ==
  ASSUME NEW S, IsFiniteSet(S), NEW T, NEW R, S = T \cup R, T \cap R = {},
         NEW f \in [S -> Int], NEW g, NEW h, PartOf(g, T, f), PartOf(h, R, f)
  PROVE  Total(f) = Total(g) + Total(h)
<1>1. PICK nf, ng, nh : nf = Negated(f) /\ ng = Negated(g) /\ nh = Negated(h)
  OBVIOUS
<1>2. nf \in [S -> Int] /\ PartOf(ng, T, nf) /\ PartOf(nh, R, nf)
  BY <1>1, NegatedType DEF PartOf
<1>3. Cardinality(Units(f)) = Cardinality(Units(g)) + Cardinality(Units(h))
  BY UnitsSplit
<1>4. Cardinality(Units(nf)) = Cardinality(Units(ng)) + Cardinality(Units(nh))
  BY <1>2, UnitsSplit
<1>5. /\ Cardinality(Units(g)) \in Nat /\ Cardinality(Units(h)) \in Nat
      /\ Cardinality(Units(ng)) \in Nat /\ Cardinality(Units(nh)) \in Nat
  <2>1. IsFiniteSet(T) /\ IsFiniteSet(R)
    BY FS_Subset
  <2>2. g \in [T -> Int] /\ h \in [R -> Int] /\ ng \in [T -> Int] /\ nh \in [R -> Int]
    BY <1>2 DEF PartOf
  <2> QED
    BY <2>1, <2>2, UnitsFinite, FS_CardinalityType
<1> QED
  BY <1>1, <1>3, <1>4, <1>5 DEF Total

-----------------------------------------------------------------------------
(* Sums of what is never negative *)

(* Functions that agree have the same sum *)
LEMMA TotalSame ==
  ASSUME NEW S, NEW f \in [S -> Int], NEW g \in [S -> Int], \A y \in S : g[y] = f[y]
  PROVE  Total(g) = Total(f)
<1>1. g = f
  OBVIOUS
<1> QED
  BY <1>1

(* What is never negative adds up to a natural number *)
LEMMA TotalNatural ==
  ASSUME NEW S, IsFiniteSet(S), NEW f \in [S -> Nat]
  PROVE  Total(f) \in Nat
<1>1. f \in [S -> Int] /\ DOMAIN f = S
  OBVIOUS
<1>2. \A x \in S : UnitsAt(Negated(f), x) = {}
  BY <1>1 DEF UnitsAt, Negated
<1>3. Units(Negated(f)) = {}
  <2>1. DOMAIN Negated(f) = S
    BY <1>1 DEF Negated
  <2> QED
    BY <2>1, <1>2 DEF Units
<1>4. Cardinality(Units(f)) \in Nat
  BY <1>1, UnitsFinite, FS_CardinalityType
<1>5. Cardinality(Units(Negated(f))) = 0
  BY <1>3, FS_EmptySet
<1> QED
  BY <1>4, <1>5 DEF Total

(* .. that is at least each of its terms *)
THEOREM TotalAtLeast ==
  ASSUME NEW S, IsFiniteSet(S), NEW f \in [S -> Nat], NEW x \in S
  PROVE  f[x] <= Total(f)
<1> DEFINE g == [y \in S |-> IF y = x THEN 0 ELSE f[y]]
<1>1. g \in [S -> Nat] /\ g \in [S -> Int] /\ f \in [S -> Int] /\ g[x] = 0
      /\ \A y \in S \ {x} : f[y] = g[y]
  OBVIOUS
<1>2. Total(g) \in Nat
  BY <1>1, TotalNatural
<1> HIDE DEF g
<1>3. Total(f) = Total(g) - g[x] + f[x]
  BY <1>1, TotalUpdate
<1>4. f[x] \in Nat
  OBVIOUS
<1> QED
  BY <1>1, <1>2, <1>3, <1>4
=============================================================================
