----------------------------- MODULE ProofFacts -----------------------------
(* Facts about remainders, least elements and sums over finite sets that the  *)
(* proofs about the components share.                                         *)
EXTENDS Integers, Functions, FiniteSetsExt, FiniteSetTheorems, TLAPS

----------------------------------------------------------------------------
(* Remainders *)

LEMMA ModType ==
    ASSUME NEW a \in Nat, NEW m \in Nat \ {0}
    PROVE  a % m \in 0..m - 1 /\ a \div m \in Nat /\ a = (m * (a \div m)) + (a % m)
OBVIOUS

LEMMA ModSmall ==
    ASSUME NEW m \in Nat \ {0}, NEW a \in 0..m - 1
    PROVE  a % m = a
OBVIOUS

LEMMA ModOnce ==
    ASSUME NEW m \in Nat \ {0}, NEW a \in m .. 2 * m - 1
    PROVE  a % m = a - m
OBVIOUS

LEMMA ModUnique ==
    ASSUME NEW m \in Nat \ {0}, NEW q \in Nat, NEW r \in 0..m - 1
    PROVE  (m * q + r) % m = r
OBVIOUS

\* A remainder may be taken early.
LEMMA ModAdd ==
    ASSUME NEW m \in Nat \ {0}, NEW a \in Nat, NEW c \in Nat
    PROVE  ((a % m) + c) % m = (a + c) % m
<1>1. PICK q \in Nat, r \in 0..m - 1 : a = (m * q) + r /\ r = a % m
  BY ModType
<1>2. r + c \in Nat
  OBVIOUS
<1>3. PICK p \in Nat, s \in 0..m - 1 : r + c = (m * p) + s /\ s = (r + c) % m
  BY <1>2, ModType
<1>4. a + c = (m * (q + p)) + s
  <2>1. m * (q + p) = (m * q) + (m * p)
    OBVIOUS
  <2>2. m * q \in Nat /\ m * p \in Nat
    OBVIOUS
  <2>3. a = (m * q) + r /\ r + c = (m * p) + s
    BY <1>1, <1>3
  <2>4. QED
    BY <2>1, <2>2, <2>3
<1>5. (m * (q + p) + s) % m = s
  <2>1. q + p \in Nat
    OBVIOUS
  <2>2. QED
    BY <2>1, ModUnique
<1>6. QED
  BY <1>1, <1>3, <1>4, <1>5

\* The unsigned difference of two clock readings is the time between them, as
\* long as that is below the modulus.
LEMMA ModSub ==
    ASSUME NEW m \in Nat \ {0}, NEW a \in 0..m - 1, NEW k \in 0..m - 1
    PROVE  (((a + k) % m) + m - a) % m = k
<1>1. CASE a + k < m
  <2>1. (a + k) % m = a + k
    BY <1>1, ModSmall
  <2>2. (k + m) % m = k
    BY ModOnce
  <2>3. QED
    BY <2>1, <2>2
<1>2. CASE a + k >= m
  <2>1. (a + k) % m = a + k - m
    BY <1>2, ModOnce
  <2>2. QED
    BY <2>1, ModSmall
<1>3. QED
  BY <1>1, <1>2

----------------------------------------------------------------------------
(* Least elements *)

\* Every non-empty set of naturals has a least element.
LEMMA LeastNatural ==
    ASSUME NEW S \in SUBSET Nat, S # {}
    PROVE  \E x \in S : \A y \in S : x <= y
<1> DEFINE Less == {ss \in Nat \X Nat : ss[1] < ss[2]}
<1>1. IsWellFoundedOn(Less, Nat)
  BY NatLessThanWellFounded, Zenon DEF OpToRel
<1>2. \E x \in S : \A y \in S : ~(<<y, x>> \in Less)
  <2> HIDE DEF Less
  <2> QED
    BY <1>1, WFMin
<1>3. \A x, y \in Nat : y < x => <<y, x>> \in Less
  OBVIOUS
<1> HIDE DEF Less
<1>4. PICK x \in S : \A y \in S : ~(<<y, x>> \in Less)
  BY <1>2
<1>5. \A y \in S : ~(y < x) /\ x \in Nat /\ y \in Nat
  BY <1>3, <1>4
<1>6. \A y \in S : x <= y
  BY <1>5
<1>7. QED
  BY <1>6

LEMMA MinProperty ==
    ASSUME NEW S \in SUBSET Nat, S # {}
    PROVE  Min(S) \in S /\ \A y \in S : Min(S) <= y
BY LeastNatural DEF Min

\* A non-empty set of numbers up to n has a largest one.
LEMMA MaxProperty ==
    ASSUME NEW n \in Nat, NEW S \in SUBSET (1..n), S # {}
    PROVE  Max(S) \in S /\ \A y \in S : y <= Max(S)
<1> DEFINE T == {n - x : x \in S}
<1>1. T \in SUBSET Nat /\ T # {}
  <2>1. \A x \in S : n - x \in Nat
    OBVIOUS
  <2>2. T \subseteq Nat
    BY <2>1
  <2>3. PICK x \in S : TRUE
    OBVIOUS
  <2>4. n - x \in T
    OBVIOUS
  <2>5. QED
    BY <2>2, <2>4
<1>2. PICK t \in T : \A u \in T : t <= u
  <2> HIDE DEF T
  <2> QED
    BY <1>1, LeastNatural
<1>3. PICK x \in S : t = n - x
  OBVIOUS
<1>4. \A y \in S : x >= y
  <2>1. \A y \in S : n - y \in T
    OBVIOUS
  <2>2. \A y \in S : t <= n - y
    BY <1>2, <2>1
  <2>3. QED
    BY <1>3, <2>2
<1>5. Max(S) \in S /\ \A y \in S : Max(S) >= y
  BY <1>4 DEF Max
<1>6. QED
  BY <1>5

----------------------------------------------------------------------------
(* Sums.  The sum of fun over S is the number of units under its graph; what  *)
(* the recursion of SumFunctionOnSet computes is found from there.            *)

Units(fun, S) == UNION {{x} \X (1..fun[x]) : x \in S}

Some(s) == CHOOSE x \in s : TRUE

SumRecursion(g, fun, S) ==
    g = [s \in SUBSET S |-> IF s = {} THEN 0 ELSE fun[Some(s)] + g[s \ {Some(s)}]]

LEMMA SumDefinition ==
    ASSUME NEW fun, NEW S
    PROVE  SumFunctionOnSet(fun, S) = (CHOOSE g : SumRecursion(g, fun, S))[S]
BY DEF SumFunctionOnSet, FoldFunctionOnSet, MapThenFoldSet, SumRecursion, Some

\* A property of subsets of a finite set that fails somewhere fails at a set
\* all of whose proper subsets have it.
LEMMA SmallestFailure ==
    ASSUME NEW S, IsFiniteSet(S), NEW F \in SUBSET (SUBSET S), F # {}
    PROVE  \E T \in F : \A U \in SUBSET T : U # T => U \notin F
<1>1. IsWellFoundedOn(StrictSubsetOrdering(S), SUBSET S)
  BY FS_StrictSubsetOrderingWellFounded, FS_FiniteSubsetsOfFinite
<1>2. PICK T \in F : \A U \in F : ~(<<U, T>> \in StrictSubsetOrdering(S))
  BY <1>1, WFMin
<1>3. ASSUME NEW U \in SUBSET T, U # T, U \in F PROVE FALSE
  <2>1. <<U, T>> \in StrictSubsetOrdering(S)
    BY <1>3 DEF StrictSubsetOrdering
  <2>2. QED
    BY <1>2, <1>3, <2>1
<1>4. QED
  BY <1>3

LEMMA Column ==
    ASSUME NEW x, NEW n \in Nat
    PROVE  IsFiniteSet({x} \X (1..n)) /\ Cardinality({x} \X (1..n)) = n
<1> DEFINE b == [i \in 1..n |-> <<x, i>>]
<1>1. b \in [1..n -> {x} \X (1..n)]
  OBVIOUS
<1>2. \A i, j \in 1..n : b[i] = b[j] => i = j
  OBVIOUS
<1>3. \A p \in {x} \X (1..n) : \E i \in 1..n : b[i] = p
  OBVIOUS
<1>4. ExistsBijection(1..n, {x} \X (1..n))
  <2>1. DOMAIN b = 1..n
    OBVIOUS
  <2> HIDE DEF b
  <2>2. b \in Injection(1..n, {x} \X (1..n))
    BY <1>1, <1>2, <2>1 DEF Injection, IsInjective
  <2>3. b \in Surjection(1..n, {x} \X (1..n))
    BY <1>1, <1>3 DEF Surjection
  <2>4. QED
    BY <2>2, <2>3 DEF ExistsBijection, Bijection
<1>5. QED
  BY <1>4, FS_NatBijection, FS_CountingElements

\* The units over S are those over S without x and the column of x.
LEMMA UnitsSplit ==
    ASSUME NEW fun, NEW S, NEW x \in S
    PROVE  /\ Units(fun, S) = Units(fun, S \ {x}) \cup ({x} \X (1..fun[x]))
           /\ Units(fun, S \ {x}) \cap ({x} \X (1..fun[x])) = {}
BY DEF Units

LEMMA UnitsFinite ==
    ASSUME NEW S, IsFiniteSet(S), NEW fun, \A x \in S : fun[x] \in Nat
    PROVE  IsFiniteSet(Units(fun, S))
<1> DEFINE F == {T \in SUBSET S : ~IsFiniteSet(Units(fun, T))}
<1>1. ASSUME F # {} PROVE FALSE
  <2>0. F \in SUBSET (SUBSET S)
    OBVIOUS
  <2>1. PICK T \in F : \A U \in SUBSET T : U # T => U \notin F
    <3> HIDE DEF F
    <3> QED
      BY <1>1, <2>0, SmallestFailure
  <2>2. T # {}
    <3>1. Units(fun, {}) = {}
      BY DEF Units
    <3>2. QED
      BY <2>1, <3>1, FS_EmptySet
  <2>3. PICK x : x \in T
    BY <2>2
  <2>4. IsFiniteSet(Units(fun, T \ {x})) /\ IsFiniteSet({x} \X (1..fun[x]))
    BY <2>1, <2>3, Column
  <2>5. IsFiniteSet(Units(fun, T))
    <3> DEFINE rest == Units(fun, T \ {x})
               column == {x} \X (1..fun[x])
    <3>1. Units(fun, T) = rest \cup column
      BY <2>3, UnitsSplit
    <3>2. IsFiniteSet(rest) /\ IsFiniteSet(column)
      BY <2>4
    <3> HIDE DEF rest, column
    <3>3. IsFiniteSet(rest \cup column)
      BY <3>2, FS_Union
    <3>4. QED
      BY <3>1, <3>3
  <2>6. QED
    BY <2>1, <2>5
<1>2. S \in SUBSET S
  OBVIOUS
<1>3. QED
  BY <1>1, <1>2

LEMMA UnitsRemove ==
    ASSUME NEW S, IsFiniteSet(S), NEW fun, \A x \in S : fun[x] \in Nat, NEW x \in S
    PROVE  /\ Cardinality(Units(fun, S)) \in Nat
           /\ Cardinality(Units(fun, S \ {x})) \in Nat
           /\ Cardinality(Units(fun, S)) = fun[x] + Cardinality(Units(fun, S \ {x}))
<1>1. IsFiniteSet(S \ {x})
  BY FS_RemoveElement
<1>2. IsFiniteSet(Units(fun, S)) /\ IsFiniteSet(Units(fun, S \ {x}))
  BY <1>1, UnitsFinite
<1>3. IsFiniteSet({x} \X (1..fun[x])) /\ Cardinality({x} \X (1..fun[x])) = fun[x]
  BY Column
<1>4. Cardinality(Units(fun, S)) =
        Cardinality(Units(fun, S \ {x})) + Cardinality({x} \X (1..fun[x])) - Cardinality({})
  BY <1>2, <1>3, UnitsSplit, FS_Union
<1>5. QED
  BY <1>2, <1>3, <1>4, FS_CardinalityType, FS_EmptySet

LEMMA RecursionSolved ==
    ASSUME NEW S, IsFiniteSet(S), NEW fun, \A x \in S : fun[x] \in Nat
    PROVE  SumRecursion([s \in SUBSET S |-> Cardinality(Units(fun, s))], fun, S)
<1> DEFINE g == [s \in SUBSET S |-> Cardinality(Units(fun, s))]
<1>1. ASSUME NEW s \in SUBSET S
      PROVE  g[s] = IF s = {} THEN 0 ELSE fun[Some(s)] + g[s \ {Some(s)}]
  <2>1. CASE s = {}
    <3>1. Units(fun, {}) = {}
      BY DEF Units
    <3>2. QED
      BY <2>1, <3>1, FS_EmptySet
  <2>2. CASE s # {}
    <3>1. Some(s) \in s
      BY <2>2 DEF Some
    <3>2. IsFiniteSet(s)
      BY FS_Subset
    <3>3. Cardinality(Units(fun, s)) = fun[Some(s)] + Cardinality(Units(fun, s \ {Some(s)}))
      BY <3>1, <3>2, UnitsRemove
    <3>4. QED
      BY <2>2, <3>3
  <2>3. QED
    BY <2>1, <2>2
<1>2. QED
  BY <1>1 DEF SumRecursion

LEMMA RecursionUnique ==
    ASSUME NEW S, IsFiniteSet(S), NEW fun, NEW g, SumRecursion(g, fun, S),
           NEW h, SumRecursion(h, fun, S)
    PROVE  g[S] = h[S]
<1> DEFINE F == {s \in SUBSET S : g[s] # h[s]}
<1>1. ASSUME F # {} PROVE FALSE
  <2>0. F \in SUBSET (SUBSET S)
    OBVIOUS
  <2>1. PICK T \in F : \A U \in SUBSET T : U # T => U \notin F
    <3> HIDE DEF F
    <3> QED
      BY <1>1, <2>0, SmallestFailure
  <2>2. /\ g[T] = IF T = {} THEN 0 ELSE fun[Some(T)] + g[T \ {Some(T)}]
        /\ h[T] = IF T = {} THEN 0 ELSE fun[Some(T)] + h[T \ {Some(T)}]
    BY DEF SumRecursion
  <2>3. T # {}
    BY <2>2
  <2>4. Some(T) \in T
    BY <2>3 DEF Some
  <2>5. g[T \ {Some(T)}] = h[T \ {Some(T)}]
    BY <2>1, <2>4
  <2>6. QED
    BY <2>2, <2>5
<1>2. S \in SUBSET S
  OBVIOUS
<1>3. QED
  BY <1>1, <1>2

LEMMA SumIsUnits ==
    ASSUME NEW S, IsFiniteSet(S), NEW fun, \A x \in S : fun[x] \in Nat
    PROVE  SumFunctionOnSet(fun, S) = Cardinality(Units(fun, S))
<1> DEFINE g == [s \in SUBSET S |-> Cardinality(Units(fun, s))]
           h == CHOOSE r : SumRecursion(r, fun, S)
<1>1. SumRecursion(g, fun, S)
  BY RecursionSolved
<1>2. SumRecursion(h, fun, S)
  <2> HIDE DEF g
  <2> QED
    BY <1>1
<1>3. h[S] = g[S]
  <2> HIDE DEF g, h
  <2> QED
    BY <1>1, <1>2, RecursionUnique
<1>4. g[S] = Cardinality(Units(fun, S))
  OBVIOUS
<1>5. QED
  BY <1>3, <1>4, SumDefinition

\* The sum over S is the value at any one place and the sum over the rest.
LEMMA SumRemove ==
    ASSUME NEW S, IsFiniteSet(S), NEW fun, \A x \in S : fun[x] \in Nat, NEW x \in S
    PROVE  /\ SumFunctionOnSet(fun, S) \in Nat
           /\ SumFunctionOnSet(fun, S \ {x}) \in Nat
           /\ SumFunctionOnSet(fun, S) = fun[x] + SumFunctionOnSet(fun, S \ {x})
<1>1. IsFiniteSet(S \ {x})
  BY FS_RemoveElement
<1>2. /\ SumFunctionOnSet(fun, S) = Cardinality(Units(fun, S))
      /\ SumFunctionOnSet(fun, S \ {x}) = Cardinality(Units(fun, S \ {x}))
  BY <1>1, SumIsUnits
<1>3. QED
  BY <1>2, UnitsRemove

LEMMA SumType ==
    ASSUME NEW S, IsFiniteSet(S), NEW fun, \A x \in S : fun[x] \in Nat
    PROVE  SumFunctionOnSet(fun, S) \in Nat
<1>1. IsFiniteSet(Units(fun, S))
  BY UnitsFinite
<1>2. QED
  BY <1>1, SumIsUnits, FS_CardinalityType

\* A sum depends on the values alone.
LEMMA SumSame ==
    ASSUME NEW S, IsFiniteSet(S), NEW fun, \A x \in S : fun[x] \in Nat,
           NEW gun, \A x \in S : gun[x] = fun[x]
    PROVE  SumFunctionOnSet(gun, S) = SumFunctionOnSet(fun, S)
<1>1. Units(gun, S) = Units(fun, S)
  BY DEF Units
<1>2. QED
  BY <1>1, SumIsUnits

\* A change at one place changes the sum by as much.
LEMMA SumUpdate ==
    ASSUME NEW S, IsFiniteSet(S), NEW fun, \A x \in S : fun[x] \in Nat,
           NEW gun, NEW x \in S, gun[x] \in Nat, \A y \in S \ {x} : gun[y] = fun[y]
    PROVE  /\ SumFunctionOnSet(fun, S) \in Nat /\ SumFunctionOnSet(gun, S) \in Nat
           /\ SumFunctionOnSet(gun, S) + fun[x] = SumFunctionOnSet(fun, S) + gun[x]
<1>1. \A y \in S : gun[y] \in Nat
  OBVIOUS
<1>2. IsFiniteSet(S \ {x})
  BY FS_RemoveElement
<1>3. SumFunctionOnSet(gun, S \ {x}) = SumFunctionOnSet(fun, S \ {x})
  BY <1>2, SumSame
<1>4. /\ SumFunctionOnSet(fun, S) \in Nat /\ SumFunctionOnSet(fun, S \ {x}) \in Nat
      /\ SumFunctionOnSet(fun, S) = fun[x] + SumFunctionOnSet(fun, S \ {x})
  BY SumRemove
<1>5. /\ SumFunctionOnSet(gun, S) \in Nat
      /\ SumFunctionOnSet(gun, S) = gun[x] + SumFunctionOnSet(gun, S \ {x})
  BY <1>1, SumRemove
<1>6. QED
  BY <1>3, <1>4, <1>5

\* A sum of nothing but zeros is zero.
LEMMA SumZero ==
    ASSUME NEW S, IsFiniteSet(S), NEW fun, \A x \in S : fun[x] = 0
    PROVE  SumFunctionOnSet(fun, S) = 0
<1>1. Units(fun, S) = {}
  BY DEF Units
<1>2. QED
  BY <1>1, SumIsUnits, FS_EmptySet

\* Sums grow with their values.
LEMMA SumMonotone ==
    ASSUME NEW S, IsFiniteSet(S), NEW fun, \A x \in S : fun[x] \in Nat,
           NEW gun, \A x \in S : gun[x] \in Nat /\ fun[x] <= gun[x]
    PROVE  SumFunctionOnSet(fun, S) <= SumFunctionOnSet(gun, S)
<1>1. IsFiniteSet(Units(gun, S))
  BY UnitsFinite
<1>2. \A x \in S : 1..fun[x] \subseteq 1..gun[x]
  OBVIOUS
<1>3. Units(fun, S) \in SUBSET Units(gun, S)
  BY <1>2 DEF Units
<1>4. Cardinality(Units(fun, S)) <= Cardinality(Units(gun, S))
  BY <1>1, <1>3, FS_Subset
<1>5. QED
  BY <1>4, SumIsUnits
=============================================================================
