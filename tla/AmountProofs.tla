---------------------------- MODULE AmountProofs ----------------------------
(***************************************************************************)
(* What the accounting proofs of every contract need of amounts.  Of the   *)
(* roundings: they are natural, a floor is the greatest whole number and a *)
(* ceiling the least on its side of the quotient.  Of SumOf: it is         *)
(* natural, it is zero for the zero function, it bounds each summand, and  *)
(* changing the function at one point changes the sum by the difference.   *)
(***************************************************************************)
EXTENDS Amounts, FiniteSetTheorems, TLAPS

-----------------------------------------------------------------------------
(* Roundings                                                               *)

(* The product of naturals is natural.                                     *)
LEMMA ProductNat ==
  ASSUME NEW a \in Nat, NEW b \in Nat
  PROVE  a * b \in Nat
OBVIOUS

(* Both roundings of a quotient of naturals are natural.                   *)
LEMMA MulDivNat ==
  ASSUME NEW a \in Nat, NEW b \in Nat, NEW c \in Nat \ {0}
  PROVE  MulDivFloor(a, b, c) \in Nat /\ MulDivCeil(a, b, c) \in Nat
<1>1. a * b \in Nat
  BY ProductNat
<1> DEFINE n == a * b
<1>2. n \in Nat
  BY <1>1
<1> HIDE DEF n
<1>3. n \div c \in Nat /\ (n + c - 1) \div c \in Nat
  BY <1>2
<1> QED
  BY <1>3 DEF MulDivFloor, MulDivCeil, n

(* A floored share b/c of a, with b at most c, is at most a: released      *)
(* collateral and sliced earnings never exceed the whole.                  *)
LEMMA FloorShare ==
  ASSUME NEW a \in Nat, NEW b \in Nat, NEW c \in Nat \ {0}, b <= c
  PROVE  MulDivFloor(a, b, c) <= a
<1>1. a * b <= a * c
  OBVIOUS
<1>2. (a * b) \div c <= a
  BY <1>1
<1> QED
  BY <1>2 DEF MulDivFloor

(* The ceiling of a quotient grows with its first factor: the debt of a    *)
(* slice is at most the debt of the whole position.                        *)
LEMMA CeilMonotone ==
  ASSUME NEW a \in Nat, NEW x \in Nat, NEW b \in Nat, NEW c \in Nat \ {0}, a <= x
  PROVE  MulDivCeil(a, b, c) <= MulDivCeil(x, b, c)
<1>1. a * b <= x * b /\ a * b \in Nat /\ x * b \in Nat
  OBVIOUS
<1> DEFINE n == a * b + c - 1
           p == x * b + c - 1
<1>2. n \in Nat /\ p \in Nat /\ n <= p
  BY <1>1
<1> HIDE DEF n, p
<1>3. n \div c <= p \div c
  BY <1>2
<1> QED
  BY <1>3 DEF MulDivCeil, n, p

(* A floored quotient is positive when the product reaches the divisor.    *)
LEMMA FloorPositive ==
  ASSUME NEW n \in Nat, NEW c \in Nat \ {0}, n >= c
  PROVE  MulDivFloor(n, 1, c) >= 1
BY DEF MulDivFloor

(* A ceiling is at least the quotient: positive for a positive product.    *)
LEMMA CeilPositive ==
  ASSUME NEW n \in Nat \ {0}, NEW c \in Nat \ {0}
  PROVE  MulDivCeil(n, 1, c) >= 1
BY DEF MulDivCeil

(* A floor never exceeds the quotient, and is the greatest such.           *)
LEMMA FloorBelow ==
  ASSUME NEW a \in Nat, NEW b \in Nat, NEW c \in Nat \ {0}
  PROVE  /\ MulDivFloor(a, b, c) \in Nat
         /\ MulDivFloor(a, b, c) * c <= a * b
         /\ a * b < MulDivFloor(a, b, c) * c + c
<1> DEFINE n == a * b
<1>1. n \in Nat
  OBVIOUS
<1> HIDE DEF n
<1>2. n \div c \in Nat /\ (n \div c) * c <= n /\ n < (n \div c) * c + c
  BY <1>1
<1> QED
  BY <1>2 DEF MulDivFloor, n

(* A ceiling never falls short of it, and exceeds no whole bound of it.    *)
LEMMA CeilAbove ==
  ASSUME NEW a \in Nat, NEW b \in Nat, NEW c \in Nat \ {0}
  PROVE  /\ MulDivCeil(a, b, c) \in Nat
         /\ MulDivCeil(a, b, c) * c >= a * b
         /\ MulDivCeil(a, b, c) * c < a * b + c
         /\ \A m \in Nat : a * b <= m * c => MulDivCeil(a, b, c) <= m
<1> DEFINE n == a * b
           q == (n + c - 1) \div c
<1>1. n \in Nat
  OBVIOUS
<1> HIDE DEF n
<1>2. q \in Nat /\ q * c <= n + c - 1 /\ n + c - 1 < q * c + c
  BY <1>1
<1>3. q * c >= n
  <2> DEFINE p == q * c
  <2>1. p \in Nat /\ n + c - 1 < p + c
    BY <1>2
  <2> HIDE DEF p
  <2>2. p >= n
    BY <1>1, <2>1
  <2> QED
    BY <2>2 DEF p
<1>4. ASSUME NEW m \in Nat, n <= m * c
      PROVE  q <= m
  <2>1. n + c - 1 < m * c + c
    BY <1>1, <1>4
  <2>2. m * c + c = (m + 1) * c
    OBVIOUS
  <2> HIDE DEF q
  <2>3. q * c < (m + 1) * c
    <3> DEFINE p == q * c
               r == m * c
               t == (m + 1) * c
    <3>1. p \in Nat /\ r \in Nat /\ t \in Nat /\ p <= n + c - 1 /\ n + c - 1 < r + c /\ r + c = t
      BY <1>2, <2>1, <2>2
    <3> HIDE DEF p, r, t
    <3>2. p < t
      BY <1>1, <3>1
    <3> QED
      BY <3>2 DEF p, t
  <2>4. q < m + 1
    <3>1. SUFFICES ASSUME q >= m + 1 PROVE FALSE
      BY <1>2
    <3>2. q * c >= (m + 1) * c
      BY <1>2, <3>1
    <3> QED
      BY <2>3, <3>2, <1>2
  <2> QED
    BY <2>4, <1>2
<1>5. q * c < n + c
  <2> DEFINE p == q * c
  <2>1. p \in Nat /\ p <= n + c - 1
    BY <1>2
  <2> HIDE DEF p
  <2>2. p < n + c
    BY <1>1, <2>1
  <2> QED
    BY <2>2 DEF p
<1> QED
  BY <1>2, <1>3, <1>4, <1>5 DEF MulDivCeil, n

(* A common positive factor cancels.                                       *)
LEMMA CancelFactor ==
  ASSUME NEW a \in Int, NEW b \in Int, NEW c \in Nat \ {0}
  PROVE  /\ a * c <= b * c => a <= b
         /\ a * c < b * c => a < b
OBVIOUS

(* A product grows with each factor.                                       *)
LEMMA ProductMonotone ==
  ASSUME NEW a \in Nat, NEW b \in Nat, NEW c \in Nat, a <= b
  PROVE  a * c <= b * c /\ c * a <= c * b
OBVIOUS

(* A proper fraction of an amount, rounded up, is part of it.              *)
LEMMA CeilShare ==
  ASSUME NEW a \in Nat, NEW b \in Nat, NEW c \in Nat \ {0}, b <= c
  PROVE  MulDivCeil(a, b, c) \in Nat /\ MulDivCeil(a, b, c) <= a
<1>1. a * b <= a * c
  OBVIOUS
<1> QED
  BY <1>1, CeilAbove

(* Rounding up by the remainder, as the offchain mirrors do, is the        *)
(* contracts' ceiling.                                                     *)
LEMMA CeilByRemainder ==
  ASSUME NEW a \in Nat, NEW b \in Nat, NEW c \in Nat \ {0}
  PROVE  /\ a * b \in Nat /\ (a * b) \div c \in Nat
         /\ MulDivCeil(a, b, c) = (a * b) \div c + IF (a * b) % c = 0 THEN 0 ELSE 1
<1> DEFINE n == a * b
           u == MulDivCeil(a, b, c)
           q == n \div c
           r == n % c
           v == q + IF r = 0 THEN 0 ELSE 1
<1>1. n \in Nat
  BY ProductNat
<1>2. u \in Nat /\ n <= u * c /\ u * c < n + c
  BY CeilAbove
<1> HIDE DEF n, u
<1>3. q \in Nat /\ r \in Nat /\ r < c /\ n = q * c + r
  BY <1>1
<1> HIDE DEF q, r
<1>4. v \in Nat /\ n <= v * c /\ v * c < n + c
  <2>1. (q + 1) * c = q * c + c /\ (q + 0) * c = q * c /\ q * c \in Nat
    BY <1>3, ProductNat
  <2>2. CASE r = 0
    BY <1>1, <1>3, <2>1, <2>2
  <2>3. CASE r # 0
    BY <1>1, <1>3, <2>1, <2>3
  <2> QED BY <2>2, <2>3
<1> HIDE DEF v
<1>5. ASSUME NEW i \in Nat, NEW j \in Nat, n <= i * c, j * c < n + c
      PROVE  j <= i
  <2>1. SUFFICES ASSUME i + 1 <= j PROVE FALSE
    OBVIOUS
  <2>2. (i + 1) * c <= j * c /\ (i + 1) * c = i * c + c /\ i * c \in Nat /\ j * c \in Nat
    BY <2>1, ProductMonotone, ProductNat
  <2> QED BY <1>1, <1>5, <2>2
<1>6. u = v
  BY <1>2, <1>4, <1>5
<1> QED BY <1>1, <1>3, <1>6 DEF n, u, v, q, r

-----------------------------------------------------------------------------
(* Sums                                                                    *)

(* A column of height f[x] has f[x] elements.                              *)
LEMMA ColumnSize ==
  ASSUME NEW S, NEW f \in [S -> Nat], NEW x \in S
  PROVE  /\ IsFiniteSet(Column(f, x))
         /\ Cardinality(Column(f, x)) = f[x]
<1>1. f[x] \in Nat
  OBVIOUS
<1>2. IsFiniteSet({x}) /\ Cardinality({x}) = 1
  BY FS_Singleton
<1>3. IsFiniteSet(1..f[x]) /\ Cardinality(1..f[x]) = f[x]
  BY <1>1, FS_Interval
<1>4. /\ IsFiniteSet({x} \X (1..f[x]))
      /\ Cardinality({x} \X (1..f[x])) = Cardinality({x}) * Cardinality(1..f[x])
  BY <1>2, <1>3, FS_Product
<1>5. Cardinality({x} \X (1..f[x])) = f[x]
  BY <1>1, <1>2, <1>3, <1>4
<1> QED
  BY <1>4, <1>5 DEF Column

(* The region under a natural function on a finite domain is finite.       *)
LEMMA RegionFinite ==
  ASSUME NEW S, IsFiniteSet(S), NEW f \in [S -> Nat]
  PROVE  IsFiniteSet(Region(f))
<1> DEFINE T == {Column(f, x) : x \in S}
           c == [x \in S |-> Column(f, x)]
<1>1. c \in Surjection(S, T)
  BY DEF Surjection
<1>2. IsFiniteSet(T)
  BY <1>1, FS_Surjection
<1>3. \A C \in T : IsFiniteSet(C)
  BY ColumnSize
<1>4. IsFiniteSet(UNION T)
  BY <1>2, <1>3, FS_UNION
<1> QED
  BY <1>4 DEF Region

(* A sum of naturals is natural.                                           *)
LEMMA SumNat ==
  ASSUME NEW S, IsFiniteSet(S), NEW f \in [S -> Nat]
  PROVE  SumOf(f) \in Nat
BY RegionFinite, FS_CardinalityType DEF SumOf

(* The sum splits into the summand at a point and the rest of the region.  *)
LEMMA SumSplit ==
  ASSUME NEW S, IsFiniteSet(S), NEW f \in [S -> Nat], NEW a \in S
  PROVE  LET rest == UNION {Column(f, x) : x \in S \ {a}}
         IN  /\ IsFiniteSet(rest)
             /\ Cardinality(rest) \in Nat
             /\ SumOf(f) = Cardinality(rest) + f[a]
<1> DEFINE rest == UNION {Column(f, x) : x \in S \ {a}}
<1>1. Region(f) = rest \cup Column(f, a)
  BY DEF Region
<1>2. rest \subseteq Region(f)
  BY <1>1
<1>3. IsFiniteSet(rest) /\ Cardinality(rest) \in Nat
  BY <1>2, RegionFinite, FS_Subset, FS_CardinalityType
<1>4. rest \cap Column(f, a) = {}
  BY DEF Column
<1>5. IsFiniteSet(Column(f, a)) /\ Cardinality(Column(f, a)) = f[a]
  BY ColumnSize
<1>6. Cardinality(rest \cup Column(f, a))
        = Cardinality(rest) + Cardinality(Column(f, a)) - Cardinality({})
  BY <1>3, <1>4, <1>5, FS_Union
<1>7. SumOf(f) = Cardinality(rest) + f[a]
  <2>1. Cardinality({}) = 0
    BY FS_EmptySet
  <2>2. f[a] \in Nat
    OBVIOUS
  <2> QED
    BY <1>1, <1>3, <1>5, <1>6, <2>1, <2>2 DEF SumOf
<1> QED
  BY <1>3, <1>7

(* Each summand is at most the sum.                                        *)
LEMMA SumBoundsPart ==
  ASSUME NEW S, IsFiniteSet(S), NEW f \in [S -> Nat], NEW a \in S
  PROVE  f[a] <= SumOf(f)
<1> DEFINE n == Cardinality(UNION {Column(f, x) : x \in S \ {a}})
<1>1. f[a] \in Nat
  OBVIOUS
<1>2. n \in Nat /\ SumOf(f) = n + f[a]
  BY SumSplit
<1> HIDE DEF n
<1> QED
  BY <1>1, <1>2

(* Changing the function at one point changes the sum by the difference.   *)
LEMMA SumChange ==
  ASSUME NEW S, IsFiniteSet(S), NEW f \in [S -> Nat], NEW g \in [S -> Nat],
         NEW a \in S, \A x \in S \ {a} : g[x] = f[x]
  PROVE  SumOf(g) = SumOf(f) - f[a] + g[a]
<1> DEFINE restF == UNION {Column(f, x) : x \in S \ {a}}
           restG == UNION {Column(g, x) : x \in S \ {a}}
<1>1. \A x \in S \ {a} : Column(f, x) = Column(g, x)
  BY DEF Column
<1>2. restF = restG
  BY <1>1
<1>3. Cardinality(restF) \in Nat /\ SumOf(f) = Cardinality(restF) + f[a]
  BY SumSplit
<1>4. SumOf(g) = Cardinality(restG) + g[a]
  BY SumSplit
<1>5. f[a] \in Nat /\ g[a] \in Nat
  OBVIOUS
<1> HIDE DEF restF, restG
<1> QED
  BY <1>2, <1>3, <1>4, <1>5

(* The sum of zeros is zero.                                               *)
LEMMA SumZero ==
  ASSUME NEW S, NEW f \in [S -> Nat], \A x \in S : f[x] = 0
  PROVE  SumOf(f) = 0
<1>1. \A x \in S : Column(f, x) = {}
  BY DEF Column
<1>2. Region(f) = {}
  BY <1>1 DEF Region
<1> QED
  BY <1>2, FS_EmptySet DEF SumOf
=============================================================================
