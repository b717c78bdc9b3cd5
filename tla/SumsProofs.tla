----------------------------- MODULE SumsProofs -----------------------------
(***************************************************************************)
(* The laws of SumOver the accounting proofs rest on.                      *)
(***************************************************************************)
EXTENDS Sums, FiniteSetTheorems, TLAPS

\* The units of a finite set of elements are finitely many.
LEMMA UnitsFinite ==
  ASSUME NEW S, IsFiniteSet(S), NEW f, \A x \in S : f[x] \in Nat
  PROVE  IsFiniteSet(UnitsOf(f, S))
<1> DEFINE U == {{x} \X (1..f[x]) : x \in S}
           h == [x \in S |-> {x} \X (1..f[x])]
<1>1. h \in Surjection(S, U)
  BY DEF Surjection
<1>2. IsFiniteSet(U)
  BY <1>1, FS_Surjection
<1>3. \A T \in U : IsFiniteSet(T)
  <2> SUFFICES ASSUME NEW x \in S PROVE IsFiniteSet({x} \X (1..f[x]))
    OBVIOUS
  <2>1. IsFiniteSet({x})
    BY FS_Singleton
  <2>2. IsFiniteSet(1..f[x])
    BY FS_Interval
  <2> QED BY <2>1, <2>2, FS_Product
<1> QED BY <1>2, <1>3, FS_UNION DEF UnitsOf

\* A sum is a natural number.
LEMMA SumType ==
  ASSUME NEW S, IsFiniteSet(S), NEW f, \A x \in S : f[x] \in Nat
  PROVE  SumOver(f, S) \in Nat
BY UnitsFinite, FS_CardinalityType DEF SumOver

\* The sum over nothing is zero.
LEMMA SumEmpty == ASSUME NEW f PROVE SumOver(f, {}) = 0
<1>1. UnitsOf(f, {}) = {}
  BY DEF UnitsOf
<1> QED BY <1>1, FS_EmptySet DEF SumOver

\* Only the values on the set matter.
LEMMA SumSame ==
  ASSUME NEW S, NEW f, NEW g, \A x \in S : f[x] = g[x]
  PROVE  SumOver(f, S) = SumOver(g, S)
<1>1. \A x \in S : {x} \X (1..f[x]) = {x} \X (1..g[x])
  OBVIOUS
<1>2. UnitsOf(f, S) = UnitsOf(g, S)
  BY <1>1 DEF UnitsOf
<1> QED BY <1>2 DEF SumOver

\* One more element adds its value.
LEMMA SumAdd ==
  ASSUME NEW S, IsFiniteSet(S), NEW x, x \notin S, NEW f,
         \A y \in S \cup {x} : f[y] \in Nat
  PROVE  SumOver(f, S \cup {x}) = SumOver(f, S) + f[x]
<1> DEFINE X == {x} \X (1..f[x])
<1>1. UnitsOf(f, S \cup {x}) = UnitsOf(f, S) \cup X
  BY DEF UnitsOf
<1>2. UnitsOf(f, S) \cap X = {}
  BY DEF UnitsOf
<1>3. IsFiniteSet(X) /\ Cardinality(X) = f[x]
  <2>1. IsFiniteSet({x}) /\ Cardinality({x}) = 1
    BY FS_Singleton
  <2>2. IsFiniteSet(1..f[x]) /\ Cardinality(1..f[x]) = f[x]
    BY FS_Interval
  <2> QED BY <2>1, <2>2, FS_Product
<1>4. IsFiniteSet(UnitsOf(f, S)) /\ SumOver(f, S) \in Nat
  BY UnitsFinite, SumType
<1>5. Cardinality(UnitsOf(f, S) \cap X) = 0
  BY <1>2, FS_EmptySet
<1>6. Cardinality(UnitsOf(f, S) \cup X)
        = Cardinality(UnitsOf(f, S)) + Cardinality(X) - Cardinality(UnitsOf(f, S) \cap X)
  BY <1>3, <1>4, FS_Union
<1>7. f[x] \in Nat
  OBVIOUS
<1>8. Cardinality(UnitsOf(f, S) \cup X) = Cardinality(UnitsOf(f, S)) + f[x]
  <2> HIDE DEF X
  <2> QED BY <1>3, <1>4, <1>5, <1>6, <1>7 DEF SumOver
<1> QED BY <1>1, <1>8 DEF SumOver

\* An element's value is part of the sum, and removing it takes that away.
LEMMA SumRemove ==
  ASSUME NEW S, IsFiniteSet(S), NEW x \in S, NEW f, \A y \in S : f[y] \in Nat
  PROVE  /\ SumOver(f, S) = SumOver(f, S \ {x}) + f[x]
         /\ SumOver(f, S \ {x}) \in Nat
<1> DEFINE R == S \ {x}
<1>1. IsFiniteSet(R)
  BY FS_RemoveElement
<1>2. S = R \cup {x} /\ x \notin R
  OBVIOUS
<1>3. SumOver(f, R \cup {x}) = SumOver(f, R) + f[x]
  <2> HIDE DEF R
  <2> QED BY <1>1, <1>2, SumAdd
<1>4. SumOver(f, R) \in Nat
  BY <1>1, SumType
<1> QED BY <1>2, <1>3, <1>4

\* A subset sums to at most as much.
LEMMA SumMonotone ==
  ASSUME NEW S, IsFiniteSet(S), NEW T \in SUBSET S, NEW f, \A x \in S : f[x] \in Nat
  PROVE  SumOver(f, T) <= SumOver(f, S)
<1>1. UnitsOf(f, T) \subseteq UnitsOf(f, S)
  BY DEF UnitsOf
<1>2. IsFiniteSet(UnitsOf(f, S))
  BY UnitsFinite
<1> QED BY <1>1, <1>2, FS_Subset DEF SumOver

\* The positive part of f: the units of f are the units of its positive part.
Positive(f, S) == [x \in S |-> IF f[x] > 0 THEN f[x] ELSE 0]

LEMMA SumPositive ==
  ASSUME NEW S, NEW f, \A x \in S : f[x] \in Int
  PROVE  /\ \A x \in S : Positive(f, S)[x] \in Nat
         /\ SumOver(f, S) = SumOver(Positive(f, S), S)
<1>1. \A x \in S : {x} \X (1..f[x]) = {x} \X (1..Positive(f, S)[x])
  <2> SUFFICES ASSUME NEW x \in S PROVE 1..f[x] = 1..Positive(f, S)[x]
    OBVIOUS
  <2>1. CASE f[x] > 0
    BY <2>1 DEF Positive
  <2>2. CASE ~(f[x] > 0)
    BY <2>2 DEF Positive
  <2> QED BY <2>1, <2>2
<1>2. UnitsOf(f, S) = UnitsOf(Positive(f, S), S)
  BY <1>1 DEF UnitsOf
<1> QED BY <1>2 DEF SumOver, Positive

\* The values of f on S, with the sign turned.
Negated(f, S) == [x \in S |-> -f[x]]

\* A sum of integers is an integer.
LEMMA SumIntType ==
  ASSUME NEW S, IsFiniteSet(S), NEW f, \A x \in S : f[x] \in Int
  PROVE  /\ SumInt(f, S) \in Int
         /\ SumOver(f, S) \in Nat /\ SumOver(Negated(f, S), S) \in Nat
<1>1. \A x \in S : Negated(f, S)[x] \in Int
  BY DEF Negated
<1>2. SumOver(f, S) \in Nat
  BY SumPositive, SumType
<1>3. SumOver(Negated(f, S), S) \in Nat
  BY <1>1, SumPositive, SumType
<1> QED BY <1>2, <1>3 DEF SumInt, Negated

\* The sum of integers over nothing is zero.
LEMMA SumIntEmpty == ASSUME NEW f PROVE SumInt(f, {}) = 0
BY SumEmpty DEF SumInt

\* Only the values on the set matter.
LEMMA SumIntSame ==
  ASSUME NEW S, NEW f, NEW g, \A x \in S : f[x] = g[x]
  PROVE  SumInt(f, S) = SumInt(g, S)
<1>1. [x \in S |-> -f[x]] = [x \in S |-> -g[x]]
  OBVIOUS
<1>2. SumOver(f, S) = SumOver(g, S)
  BY SumSame
<1> QED BY <1>1, <1>2 DEF SumInt

\* One more element adds its positive part to the units.
LEMMA SumOverAdd ==
  ASSUME NEW S, IsFiniteSet(S), NEW x, x \notin S, NEW f, \A y \in S \cup {x} : f[y] \in Int
  PROVE  SumOver(f, S \cup {x}) = SumOver(f, S) + (IF f[x] > 0 THEN f[x] ELSE 0)
<1> DEFINE T == S \cup {x}
           p == Positive(f, T)
<1>1. SumOver(f, T) = SumOver(p, T) /\ \A y \in T : p[y] \in Nat
  BY SumPositive
<1>2. SumOver(f, S) = SumOver(Positive(f, S), S)
  BY SumPositive
<1>3. \A y \in S : Positive(f, S)[y] = p[y]
  BY DEF Positive
<1>4. SumOver(Positive(f, S), S) = SumOver(p, S)
  BY <1>3, SumSame
<1>5. p[x] = (IF f[x] > 0 THEN f[x] ELSE 0)
  BY DEF Positive
<1> HIDE DEF p
<1>6. SumOver(p, S \cup {x}) = SumOver(p, S) + p[x]
  BY <1>1, SumAdd
<1> QED BY <1>1, <1>2, <1>4, <1>5, <1>6

\* One more element adds its value, whatever its sign.
LEMMA SumIntAdd ==
  ASSUME NEW S, IsFiniteSet(S), NEW x, x \notin S, NEW f, \A y \in S \cup {x} : f[y] \in Int
  PROVE  SumInt(f, S \cup {x}) = SumInt(f, S) + f[x]
<1> DEFINE n == Negated(f, S \cup {x})
<1>1. SumOver(f, S \cup {x}) = SumOver(f, S) + (IF f[x] > 0 THEN f[x] ELSE 0)
  BY SumOverAdd
<1>2. (\A y \in S \cup {x} : n[y] \in Int) /\ n[x] = -f[x]
  BY DEF Negated
<1>3. \A y \in S : Negated(f, S)[y] = n[y]
  BY DEF Negated
<1>4. SumOver(Negated(f, S), S) = SumOver(n, S)
  BY <1>3, SumSame
<1>5. /\ SumInt(f, S \cup {x}) = SumOver(f, S \cup {x}) - SumOver(n, S \cup {x})
      /\ SumInt(f, S) = SumOver(f, S) - SumOver(Negated(f, S), S)
  BY DEF SumInt, Negated
<1>6. SumOver(f, S) \in Nat /\ SumOver(Negated(f, S), S) \in Nat
  BY SumIntType
<1> HIDE DEF n
<1>7. SumOver(n, S \cup {x}) = SumOver(n, S) + (IF n[x] > 0 THEN n[x] ELSE 0)
  BY <1>2, SumOverAdd
<1>8. f[x] \in Int
  OBVIOUS
<1> QED BY <1>1, <1>2, <1>4, <1>5, <1>6, <1>7, <1>8

\* If no value exceeds c and only elements of T have positive ones, the sum is
\* at most c times the size of T.
LEMMA SumIntBounded ==
  ASSUME NEW S, IsFiniteSet(S), NEW T, IsFiniteSet(T), NEW f, NEW c \in Nat,
         \A x \in S : f[x] \in Int /\ f[x] <= c /\ (f[x] > 0 => x \in T)
  PROVE  SumInt(f, S) <= c * Cardinality(T)
<1>1. UnitsOf(f, S) \subseteq T \X (1..c)
  <2>1. \A x \in S : \A i \in 1..f[x] : x \in T /\ i \in 1..c
    OBVIOUS
  <2> QED BY <2>1 DEF UnitsOf
<1>2. IsFiniteSet(1..c) /\ Cardinality(1..c) = c
  BY FS_Interval
<1>3. IsFiniteSet(T \X (1..c)) /\ Cardinality(T \X (1..c)) = Cardinality(T) * c
  BY <1>2, FS_Product
<1>4. SumOver(f, S) <= Cardinality(T) * c
  BY <1>1, <1>3, FS_Subset DEF SumOver
<1>5. SumOver(f, S) \in Nat /\ SumOver(Negated(f, S), S) \in Nat
  BY SumIntType
<1>6. Cardinality(T) \in Nat
  BY FS_CardinalityType
<1>7. SumInt(f, S) = SumOver(f, S) - SumOver(Negated(f, S), S)
  BY DEF SumInt, Negated
<1>8. Cardinality(T) * c = c * Cardinality(T) /\ c * Cardinality(T) \in Int
  BY <1>6
<1> QED BY <1>4, <1>5, <1>7, <1>8

\* A sum of values that are not positive is not positive.
LEMMA SumIntNegative ==
  ASSUME NEW S, IsFiniteSet(S), NEW f, \A x \in S : f[x] \in Int /\ f[x] <= 0
  PROVE  SumInt(f, S) <= 0
<1>1. SumInt(f, S) <= 0 * Cardinality(S)
  BY SumIntBounded
<1>2. Cardinality(S) \in Nat
  BY FS_CardinalityType
<1> QED BY <1>1, <1>2

============================================================================
