------------------------------- MODULE Sums -------------------------------
(***************************************************************************)
(* Induction without an operator as a parameter, and what it gives: the    *)
(* laws of remainders, Fermat's little theorem, and the laws of finite     *)
(* sums.                                                                   *)
(* The other proof modules cite these lemmas.                              *)
(***************************************************************************)
EXTENDS FiniteSetsExt, FiniteSetTheorems, TLAPS

-----------------------------------------------------------------------------
(* Induction: instead of a predicate, the set of what satisfies it.        *)

\* A set of numbers has a least one: intervals are well founded by inclusion.
LEMMA LeastNumber ==
  ASSUME NEW T \in SUBSET Nat, T # {}
  PROVE  \E n \in T : \A m \in T : n <= m
<1> DEFINE Below == {0 .. n : n \in T}
<1>1. \A n \in T : 0 .. n \in SUBSET Nat /\ IsFiniteSet(0 .. n)
  BY FS_Interval
<1>2. Below \subseteq FiniteSubsetsOf(Nat) /\ Below # {}
  BY <1>1 DEF FiniteSubsetsOf
<1>3. \E s \in Below : \A r \in Below : ~(<<r, s>> \in StrictSubsetOrdering(Nat))
  <2> HIDE DEF Below
  <2> QED
    BY <1>2, FS_StrictSubsetOrderingWellFounded, WFMin
<1>4. PICK n \in T : \A m \in T : ~(<<0 .. m, 0 .. n>> \in StrictSubsetOrdering(Nat))
  BY <1>3
<1>5. ASSUME NEW m \in T, m < n PROVE FALSE
  <2>1. 0 .. m \subseteq 0 .. n /\ n \in 0 .. n /\ n \notin 0 .. m
    BY <1>5
  <2>2. <<0 .. m, 0 .. n>> \in (SUBSET Nat) \X (SUBSET Nat)
    BY <1>1
  <2>3. <<0 .. m, 0 .. n>> \in StrictSubsetOrdering(Nat)
    BY <2>1, <2>2 DEF StrictSubsetOrdering
  <2> QED
    BY <1>4, <2>3
<1> QED
  BY <1>5

\* Induction along an interval.
LEMMA IntervalInduction ==
  ASSUME NEW n \in Nat, NEW T, 0 \in T, \A i \in 1 .. n : i - 1 \in T => i \in T
  PROVE  0 .. n \subseteq T
<1> DEFINE Bad == {i \in 0 .. n : i \notin T}
<1> SUFFICES ASSUME Bad # {} PROVE FALSE
  OBVIOUS
<1>1. PICK k \in Bad : \A m \in Bad : k <= m
  <2>1. Bad \in SUBSET Nat
    OBVIOUS
  <2> HIDE DEF Bad
  <2> QED
    BY <2>1, LeastNumber
<1>2. k \in 1 .. n /\ k - 1 \in 0 .. n /\ k - 1 \notin Bad
  BY <1>1
<1> QED
  BY <1>1, <1>2

\* Induction on the subsets of a finite set.
LEMMA SubsetInduction ==
  ASSUME NEW S, IsFiniteSet(S), NEW T, {} \in T,
         \A s \in SUBSET S : s # {} /\ (\A x \in s : s \ {x} \in T) => s \in T
  PROVE  SUBSET S \subseteq T
<1> DEFINE Bad == {s \in SUBSET S : s \notin T}
           Sizes == {Cardinality(s) : s \in Bad}
<1> SUFFICES ASSUME Bad # {} PROVE FALSE
  OBVIOUS
<1>1. \A s \in SUBSET S : IsFiniteSet(s) /\ Cardinality(s) \in Nat
  BY FS_Subset, FS_CardinalityType
<1>2. Sizes \in SUBSET Nat /\ Sizes # {}
  BY <1>1
<1>3. PICK k \in Sizes : \A m \in Sizes : k <= m
  BY <1>2, LeastNumber
<1>4. PICK s \in Bad : Cardinality(s) = k
  BY <1>3
<1>5. ASSUME NEW x \in s PROVE s \ {x} \in T
  <2>1. s \ {x} \in SUBSET S /\ Cardinality(s \ {x}) = k - 1 /\ k \in Nat
    BY <1>1, <1>4, FS_RemoveElement
  <2> QED
    BY <1>3, <2>1
<1> QED
  BY <1>4, <1>5

-----------------------------------------------------------------------------
(* Arithmetic.                                                             *)

LEMMA TimesMonotone ==
  ASSUME NEW a \in Int, NEW b \in Int, a <= b, NEW d \in Nat
  PROVE  a * d <= b * d /\ a * d \in Int /\ b * d \in Int
<1> DEFINE c == b - a
<1>1. c \in Nat /\ b = a + c
  OBVIOUS
<1> HIDE DEF c
<1>2. c * d \in Nat /\ a * d \in Int /\ (a + c) * d = a * d + c * d
  BY <1>1
<1> DEFINE p == a * d
           q == c * d
<1>3. p <= p + q /\ p \in Int /\ p + q \in Int
  <2>1. p \in Int /\ q \in Nat
    BY <1>2
  <2> HIDE DEF p, q
  <2> QED
    BY <2>1
<1> QED
  BY <1>1, <1>2, <1>3

LEMMA MinOfTwo ==
  ASSUME NEW a \in Int, NEW b \in Int
  PROVE  Min({a, b}) = IF a <= b THEN a ELSE b
BY DEF Min

\* The quotient: what is divided lies between it and the next.
LEMMA Division ==
  ASSUME NEW a \in Nat, NEW b \in Nat, b > 0
  PROVE  (a \div b) \in Nat /\ (a \div b) * b <= a /\ a < (a \div b + 1) * b
<1>1. /\ (a \div b) \in Int /\ (a % b) \in 0 .. b - 1
      /\ a = b * (a \div b) + (a % b)
  OBVIOUS
<1> DEFINE q == a \div b
           r == a % b
<1>2. q \in Int /\ r \in 0 .. b - 1 /\ a = b * q + r
  BY <1>1
<1> HIDE DEF q, r
<1>3. b * q = q * b /\ (q + 1) * b = q * b + b
  BY <1>2
<1>4. q >= 0
  <2>1. ASSUME q < 0 PROVE FALSE
    <3>1. b * q <= -b
      BY <1>2, <2>1
    <3> QED
      BY <1>2, <3>1
  <2> QED
    BY <1>2, <2>1
<1>5. q \in Nat /\ q * b <= a /\ a < (q + 1) * b
  BY <1>2, <1>3, <1>4
<1> QED
  BY <1>5 DEF q

\* Remainders: a number less a multiple, and what has the same one.
LEMMA ModUnique ==
  ASSUME NEW m \in Nat, m > 0, NEW q \in Int, NEW r \in 0 .. m - 1
  PROVE  (m * q + r) % m = r
<1> DEFINE a == m * q + r
           p == a \div m
           s == a % m
<1>1. a \in Int /\ p \in Int /\ s \in 0 .. m - 1 /\ a = m * p + s
  OBVIOUS
<1> HIDE DEF p, s
<1>2. m * (p - q) = r - s
  BY <1>1
<1>3. p - q = 0
  <2> DEFINE d == p - q
  <2>1. d \in Int /\ m * d = r - s /\ r - s < m /\ r - s > -m
    BY <1>1, <1>2
  <2> HIDE DEF d
  <2>2. ASSUME d >= 1 PROVE FALSE
    <3>1. 1 * m <= d * m /\ d * m = m * d /\ 1 * m = m
      BY <2>1, <2>2, TimesMonotone
    <3> QED
      BY <2>1, <3>1
  <2>3. ASSUME d <= -1 PROVE FALSE
    <3>1. d * m <= (-1) * m /\ d * m = m * d /\ (-1) * m = -m
      BY <2>1, <2>3, TimesMonotone
    <3> QED
      BY <2>1, <3>1
  <2> QED
    BY <2>1, <2>2, <2>3 DEF d
<1>4. s = r
  BY <1>1, <1>2, <1>3
<1> QED
  BY <1>4 DEF s

LEMMA ModSplit ==
  ASSUME NEW m \in Nat, m > 0, NEW a \in Int
  PROVE  \E q \in Int : a = m * q + (a % m) /\ a % m \in 0 .. m - 1
OBVIOUS

LEMMA ModShift ==
  ASSUME NEW m \in Nat, m > 0, NEW a \in Int, NEW q \in Int
  PROVE  (a + m * q) % m = a % m
<1>1. PICK p \in Int : a = m * p + (a % m) /\ a % m \in 0 .. m - 1
  BY ModSplit
<1> DEFINE r == a % m
<1>2. m * (p + q) = m * p + m * q /\ m * p \in Int /\ m * q \in Int
  OBVIOUS
<1>3. a = m * p + r /\ r \in 0 .. m - 1
  BY <1>1
<1> HIDE DEF r
<1>4. a + m * q = m * (p + q) + r
  <2> DEFINE x == m * p  y == m * q  z == m * (p + q)
  <2>1. z = x + y /\ x \in Int /\ y \in Int /\ a = x + r /\ r \in Int
    BY <1>2, <1>3
  <2> HIDE DEF x, y, z
  <2>2. a + y = z + r
    BY <2>1
  <2> QED
    BY <2>2 DEF y, z
<1>5. (m * (p + q) + r) % m = r
  BY <1>3, ModUnique
<1> QED
  BY <1>4, <1>5 DEF r

\* Remainders can be taken before or after sums, differences and products.
LEMMA ModAdd ==
  ASSUME NEW m \in Nat, m > 0, NEW a \in Int, NEW b \in Int
  PROVE  ((a % m) + b) % m = (a + b) % m /\ a % m \in 0 .. m - 1 /\ (a % m) % m = a % m
<1>1. PICK q \in Int : a = m * q + (a % m) /\ a % m \in 0 .. m - 1
  BY ModSplit
<1> DEFINE r == a % m
           p == m * q
<1>2. a = p + r /\ r \in 0 .. m - 1 /\ p \in Int
  BY <1>1
<1>3. ((r + b) + m * q) % m = (r + b) % m /\ (r + m * q) % m = r % m
  <2>1. \A c \in Int : (c + m * q) % m = c % m
    BY ModShift
  <2>2. r \in Int /\ r + b \in Int
    BY <1>2
  <2> HIDE DEF r
  <2> QED
    BY <2>1, <2>2
<1>4. (r + b) + p = a + b /\ r + p = a
  <2> HIDE DEF r, p
  <2> QED
    BY <1>2
<1> QED
  BY <1>2, <1>3, <1>4

LEMMA ModTimes ==
  ASSUME NEW m \in Nat, m > 0, NEW a \in Int, NEW b \in Int
  PROVE  ((a % m) * b) % m = (a * b) % m
<1>1. PICK q \in Int : a = m * q + (a % m) /\ a % m \in 0 .. m - 1
  BY ModSplit
<1> DEFINE r == a % m
<1>2. a = m * q + r /\ r \in Int
  BY <1>1
<1> HIDE DEF r
<1>3. a * b = r * b + m * (q * b) /\ r * b \in Int /\ q * b \in Int
  BY <1>2
<1>4. (r * b + m * (q * b)) % m = (r * b) % m
  BY <1>3, ModShift
<1> QED
  BY <1>3, <1>4 DEF r

\* The remainder, by a name: what is said of % alone, the provers rewrite.
Rem(a, m) == a % m

\* A remainder is one of its own.
LEMMA RemIs ==
  ASSUME NEW m \in Nat, m > 0, NEW a \in Int
  PROVE  /\ Rem(a, m) \in 0 .. m - 1 /\ Rem(a, m) \in Int
         /\ Rem(Rem(a, m), m) = Rem(a, m)
         /\ a \in 0 .. m - 1 => Rem(a, m) = a
<1>1. a % m \in 0 .. m - 1 /\ (a % m) % m = a % m
  BY ModAdd
<1>2. ASSUME a \in 0 .. m - 1 PROVE a % m = a
  <2>1. m * 0 + a = a
    OBVIOUS
  <2>2. (m * 0 + a) % m = a
    BY <1>2, ModUnique
  <2> QED
    BY <2>1, <2>2
<1> DEFINE r == a % m
<1>3. r \in 0 .. m - 1 /\ r \in Int /\ Rem(a, m) = r /\ Rem(r, m) = r
  BY <1>1 DEF Rem
<1> HIDE DEF r
<1>4. a \in 0 .. m - 1 => Rem(a, m) = a
  BY <1>2 DEF Rem
<1> QED
  BY <1>3, <1>4

LEMMA RemShift ==
  ASSUME NEW m \in Nat, m > 0, NEW a \in Int, NEW q \in Int
  PROVE  Rem(a + m * q, m) = Rem(a, m)
  BY ModShift DEF Rem

\* What has the same remainders has the same sums and products.
LEMMA RemSums ==
  ASSUME NEW m \in Nat, m > 0, NEW a \in Int, NEW b \in Int, NEW c \in Int, NEW d \in Int,
         Rem(a, m) = Rem(c, m), Rem(b, m) = Rem(d, m)
  PROVE  Rem(a + b, m) = Rem(c + d, m)
<1>1. ASSUME NEW x \in Int, NEW y \in Int PROVE Rem(Rem(x, m) + y, m) = Rem(x + y, m)
  BY ModAdd DEF Rem
<1> DEFINE r == Rem(a, m)
           s == Rem(b, m)
<1>2. r \in Int /\ s \in Int
  BY RemIs
<1>3. Rem(a + b, m) = Rem(r + b, m) /\ Rem(c + d, m) = Rem(r + d, m)
  BY <1>1
<1> HIDE DEF r
<1>4. Rem(b + r, m) = Rem(s + r, m) /\ Rem(d + r, m) = Rem(s + r, m)
  BY <1>1, <1>2
<1>5. b + r = r + b /\ d + r = r + d
  BY <1>2
<1> QED
  BY <1>3, <1>4, <1>5

LEMMA RemTimes ==
  ASSUME NEW m \in Nat, m > 0, NEW a \in Int, NEW b \in Int, NEW c \in Int, NEW d \in Int,
         Rem(a, m) = Rem(c, m), Rem(b, m) = Rem(d, m)
  PROVE  Rem(a * b, m) = Rem(c * d, m)
<1>1. ASSUME NEW x \in Int, NEW y \in Int PROVE Rem(Rem(x, m) * y, m) = Rem(x * y, m)
  BY ModTimes DEF Rem
<1> DEFINE r == Rem(a, m)
           s == Rem(b, m)
<1>2. r \in Int /\ s \in Int
  BY RemIs
<1>3. Rem(a * b, m) = Rem(r * b, m) /\ Rem(c * d, m) = Rem(r * d, m)
  BY <1>1
<1> HIDE DEF r
<1>4. Rem(b * r, m) = Rem(s * r, m) /\ Rem(d * r, m) = Rem(s * r, m)
  BY <1>1, <1>2
<1>5. b * r = r * b /\ d * r = r * d
  BY <1>2
<1> QED
  BY <1>3, <1>4, <1>5

-----------------------------------------------------------------------------
(* Primes.                                                                 *)

Prime(p) == p \in Nat \ {0, 1} /\ \A m, n \in 2 .. p - 1 : m * n # p

\* What p divides: the remainder is zero.
LEMMA RemZero ==
  ASSUME NEW p \in Nat, p > 0, NEW a \in Int
  PROVE  /\ \A k \in Int : Rem(p * k, p) = 0
         /\ Rem(a, p) = 0 => \E k \in Int : a = p * k
<1>1. ASSUME NEW k \in Int PROVE Rem(p * k, p) = 0
  <2> DEFINE z == 0
  <2>1. z \in Int /\ z \in 0 .. p - 1
    OBVIOUS
  <2>2. z + p * k = p * k
    OBVIOUS
  <2> HIDE DEF z
  <2>3. Rem(z + p * k, p) = Rem(z, p) /\ Rem(z, p) = z
    BY <2>1, RemShift, RemIs
  <2> QED
    BY <2>2, <2>3 DEF z
<1>2. ASSUME Rem(a, p) = 0 PROVE \E k \in Int : a = p * k
  <2>1. PICK q \in Int : a = p * q + (a % p)
    BY ModSplit
  <2>2. a % p = 0
    BY <1>2 DEF Rem
  <2>3. a = p * q
    BY <2>1, <2>2
  <2> QED
    BY <2>3
<1> QED
  BY <1>1, <1>2

LEMMA Quotient ==
  ASSUME NEW m \in Nat, m > 0, NEW a \in Int
  PROVE  \E q \in Int : \E r \in 0 .. m - 1 : a = m * q + r
<1> DEFINE r == a % m
<1>1. PICK q \in Int : a = m * q + r /\ r \in 0 .. m - 1
  BY ModSplit
<1> HIDE DEF r
<1> QED
  BY <1>1

\* A prime divides no product of smaller numbers: the least number whose product with a it
\* divides divides p.
LEMMA NoZeroDivisors ==
  ASSUME NEW p, Prime(p), NEW a \in 1 .. p - 1, NEW b \in 1 .. p - 1
  PROVE  Rem(a * b, p) # 0
<1> SUFFICES ASSUME Rem(a * b, p) = 0 PROVE FALSE
  OBVIOUS
<1>1. p \in Nat /\ p > 1 /\ a \in Nat /\ b \in Nat
  BY DEF Prime
<1> DEFINE D == {d \in Nat \ {0} : Rem(a * d, p) = 0}
<1>2. b \in D /\ D \in SUBSET Nat
  BY <1>1
<1>3. PICK d \in D : \A e \in D : d <= e
  <2> HIDE DEF D
  <2> QED
    BY <1>2, LeastNumber
<1>4. d \in Nat \ {0} /\ d <= b /\ Rem(a * d, p) = 0
  BY <1>2, <1>3
<1>5. PICK k \in Int : a * d = p * k
  <2>1. a * d \in Int
    BY <1>1, <1>4
  <2> DEFINE n == a * d
  <2>2. n \in Int /\ p \in Nat /\ p > 0 /\ Rem(n, p) = 0
    BY <1>1, <1>4, <2>1
  <2> HIDE DEF n
  <2>3. \E k \in Int : n = p * k
    BY <2>2, RemZero
  <2> QED
    BY <2>3 DEF n
<1>6. \E q \in Int : \E r \in 0 .. d - 1 : p = d * q + r
  <2>1. d \in Nat /\ d > 0 /\ p \in Int
    BY <1>1, <1>4
  <2> QED
    BY <2>1, Quotient
<1>7. PICK q \in Int, r \in 0 .. d - 1 : p = d * q + r
  BY <1>6
<1>8. r = 0
  <2>1. a * r = p * (a - k * q)
    <3>1. a * p = (a * d) * q + a * r
      BY <1>1, <1>4, <1>7
    <3>2. (a * d) * q = p * (k * q)
      BY <1>1, <1>5
    <3>3. a * p = p * a /\ p * (a - k * q) = p * a - p * (k * q)
      BY <1>1
    <3> DEFINE x == a * p  y == p * (k * q)  z == a * r
    <3>4. x = y + z /\ x \in Int /\ y \in Int /\ z \in Int /\ p * (a - k * q) = x - y
      BY <1>1, <1>7, <3>1, <3>2, <3>3
    <3> HIDE DEF x, y, z
    <3>5. z = x - y
      BY <3>4
    <3> QED
      BY <3>4, <3>5 DEF z
  <2>2. Rem(a * r, p) = 0
    <3>1. a - k * q \in Int /\ p > 0
      BY <1>1
    <3>2. Rem(p * (a - k * q), p) = 0
      BY <1>1, <3>1, RemZero
    <3> QED
      BY <2>1, <3>2
  <2>3. CASE r # 0
    <3>1. r \in D
      BY <1>4, <1>7, <2>2, <2>3
    <3> QED
      BY <1>3, <1>4, <1>7, <3>1
  <2> QED
    BY <2>3
<1>9. d # 1
  <2>1. CASE d = 1
    <3>1. a * d = a
      BY <1>1, <2>1
    <3>2. Rem(a, p) = a /\ a # 0
      BY <1>1, RemIs
    <3> QED
      BY <1>4, <3>1, <3>2
  <2> QED
    BY <2>1
<1>10. p = d * q /\ d \in 2 .. p - 1
  BY <1>1, <1>4, <1>7, <1>8, <1>9
<1>11. q \in 2 .. p - 1
  <2>1. q > 0
    <3>1. ASSUME q <= 0 PROVE FALSE
      <4>1. d * q <= 0
        BY <1>4, <3>1
      <4> QED
        BY <1>1, <1>10, <4>1
    <3> QED
      BY <3>1
  <2>2. q # 1
    BY <1>10
  <2>3. d * q >= 2 * q
    BY <1>10, <2>1
  <2> QED
    BY <1>1, <1>10, <2>1, <2>2, <2>3
<1> QED
  BY <1>10, <1>11 DEF Prime

\* The product of the numbers of every set of a family, in whatever order.
Multiplies(S, product) ==
  /\ product \in [SUBSET S -> Nat] /\ product[{}] = 1
  /\ \A s \in SUBSET S : \A k \in s : product[s] = k * product[s \ {k}]

LEMMA ProductExists ==
  ASSUME NEW S \in SUBSET Nat, IsFiniteSet(S)
  PROVE  \E product : Multiplies(S, product)
<1> DEFINE T == {s \in SUBSET S : \E product : Multiplies(s, product)}
<1>1. {} \in T
  <2> DEFINE product == [s \in SUBSET {} |-> 1]
  <2>1. Multiplies({}, product)
    BY DEF Multiplies
  <2> QED
    BY <2>1
<1>2. ASSUME NEW s \in SUBSET S, s # {}, \A x \in s : s \ {x} \in T PROVE s \in T
  <2>1. PICK e \in s : TRUE
    BY <1>2
  <2> DEFINE rest == s \ {e}
  <2>2. PICK f : Multiplies(rest, f)
    BY <1>2
  <2> DEFINE g == [t \in SUBSET s |-> IF e \in t THEN e * f[t \ {e}] ELSE f[t]]
  <2>3. \A t \in SUBSET s : /\ t \ {e} \in SUBSET rest
                            /\ e \notin t => t \in SUBSET rest
                            /\ f[t \ {e}] \in Nat
    BY <2>2 DEF Multiplies
  <2>4. e \in Nat
    OBVIOUS
  <2>5. g \in [SUBSET s -> Nat] /\ g[{}] = 1
    <3>1. \A t \in SUBSET s : g[t] \in Nat
      <4>1. \A t \in SUBSET s : e \notin t => f[t] \in Nat
        BY <2>2, <2>3 DEF Multiplies
      <4> QED
        BY <2>3, <2>4, <4>1
    <3>2. g[{}] = f[{}]
      OBVIOUS
    <3>3. g = [t \in SUBSET s |-> g[t]]
      OBVIOUS
    <3> HIDE DEF g
    <3> QED
      BY <2>2, <3>1, <3>2, <3>3 DEF Multiplies
  <2>6. ASSUME NEW t \in SUBSET s, NEW k \in t PROVE g[t] = k * g[t \ {k}]
    <3>1. t \ {k} \in SUBSET s /\ k \in Nat
      OBVIOUS
    <3>2. CASE e \notin t
      <4>1. t \in SUBSET rest
        BY <2>3, <3>2
      <4>2. f[t] = k * f[t \ {k}]
        BY <2>2, <4>1 DEF Multiplies
      <4>3. g[t] = f[t] /\ g[t \ {k}] = f[t \ {k}]
        BY <3>1, <3>2
      <4> QED
        BY <4>2, <4>3
    <3>3. CASE k = e
      <4>1. g[t] = e * f[t \ {e}]
        BY <3>3
      <4>2. g[t \ {e}] = f[t \ {e}]
        BY <3>1, <3>3
      <4> QED
        BY <3>3, <4>1, <4>2
    <3>4. CASE e \in t /\ k # e
      <4> DEFINE u == t \ {e}
                 w == u \ {k}
      <4>1. u \in SUBSET rest /\ k \in u /\ w \in SUBSET rest
        BY <3>4
      <4>2. f[u] = k * f[w] /\ f[w] \in Nat
        BY <2>2, <4>1 DEF Multiplies
      <4>3. (t \ {k}) \ {e} = w
        OBVIOUS
      <4>4. g[t] = e * f[u] /\ g[t \ {k}] = e * f[w]
        BY <3>1, <3>4, <4>3
      <4>5. e * (k * f[w]) = k * (e * f[w])
        BY <2>4, <3>1, <4>2
      <4> QED
        BY <4>2, <4>4, <4>5
    <3> QED
      BY <3>2, <3>3, <3>4
  <2> HIDE DEF g
  <2>7. Multiplies(s, g)
    BY <2>5, <2>6 DEF Multiplies
  <2> QED
    BY <2>7
<1> HIDE DEF T
<1>3. SUBSET S \subseteq T
  BY <1>1, <1>2, SubsetInduction
<1>4. S \in SUBSET S
  OBVIOUS
<1> QED
  BY <1>3, <1>4 DEF T

\* The powers of a number, up to the n-th.
Powers(v, n, pow) ==
  /\ pow \in [0 .. n -> Int] /\ pow[0] = 1
  /\ \A k \in 1 .. n : pow[k] = v * pow[k - 1]

LEMMA PowersExist ==
  ASSUME NEW v \in Int, NEW n \in Nat
  PROVE  \E pow : Powers(v, n, pow)
<1> DEFINE T == {k \in 0 .. n : \E pow : Powers(v, k, pow)}
<1>1. 0 \in T
  <2> DEFINE pow == [k \in 0 .. 0 |-> 1]
  <2>1. Powers(v, 0, pow)
    BY DEF Powers
  <2> QED
    BY <2>1
<1>2. ASSUME NEW i \in 1 .. n, i - 1 \in T PROVE i \in T
  <2>1. PICK f : Powers(v, i - 1, f)
    BY <1>2
  <2> DEFINE g == [k \in 0 .. i |-> IF k = i THEN v * f[i - 1] ELSE f[k]]
  <2>2. f \in [0 .. i - 1 -> Int] /\ f[0] = 1 /\ \A k \in 1 .. i - 1 : f[k] = v * f[k - 1]
    BY <2>1 DEF Powers
  <2>3. g \in [0 .. i -> Int] /\ g[0] = 1
    <3>1. v * f[i - 1] \in Int
      BY <2>2
    <3> QED
      BY <2>2, <3>1
  <2>4. ASSUME NEW k \in 1 .. i PROVE g[k] = v * g[k - 1]
    <3>1. CASE k = i
      BY <3>1
    <3>2. CASE k # i
      <4>1. k \in 1 .. i - 1 /\ k - 1 \in 0 .. i /\ k - 1 # i /\ k \in 0 .. i
        BY <3>2
      <4>2. g[k] = f[k] /\ g[k - 1] = f[k - 1]
        BY <3>2, <4>1
      <4> QED
        BY <2>2, <4>1, <4>2
    <3> QED
      BY <3>1, <3>2
  <2> HIDE DEF g
  <2>5. Powers(v, i, g)
    BY <2>3, <2>4 DEF Powers
  <2> QED
    BY <2>5
<1> HIDE DEF T
<1>3. 0 .. n \subseteq T
  BY <1>1, <1>2, IntervalInduction
<1> QED
  BY <1>3 DEF T

LEMMA RemSame ==
  ASSUME NEW m \in Nat, m > 0, NEW a \in Int, NEW b \in Int, NEW c \in Int,
         Rem(a, m) = Rem(b, m)
  PROVE  Rem(a + c, m) = Rem(b + c, m) /\ Rem(c * a, m) = Rem(c * b, m)
<1> DEFINE d == c
<1>1. d \in Int /\ Rem(c, m) = Rem(d, m)
  OBVIOUS
<1> HIDE DEF d
<1>2. Rem(a + c, m) = Rem(b + d, m) /\ Rem(c * a, m) = Rem(d * b, m)
  BY <1>1, RemSums, RemTimes
<1> QED
  BY <1>2 DEF d

\* Integers with the same remainder, and any third.
Alike(m, a, b, c) ==
  /\ m \in Nat /\ m > 0 /\ a \in Int /\ b \in Int /\ c \in Int
  /\ Rem(a, m) = Rem(b, m)

LEMMA AlikeAre ==
  ASSUME NEW m, NEW a, NEW b, NEW c, Alike(m, a, b, c)
  PROVE  Rem(a + c, m) = Rem(b + c, m) /\ Rem(c * a, m) = Rem(c * b, m)
  BY RemSame DEF Alike

LEMMA RemDifference ==
  ASSUME NEW m \in Nat, m > 0, NEW a \in Int, NEW b \in Int, Rem(a, m) = Rem(b, m)
  PROVE  Rem(a - b, m) = 0
<1> DEFINE c == -b
           z == b + c
<1>1. c \in Int /\ z \in Int /\ a - b = a + c /\ z = 0
  OBVIOUS
<1> HIDE DEF c
<1>2. Rem(a + c, m) = Rem(b + c, m)
  BY <1>1, RemSame
<1> HIDE DEF z
<1>3. Rem(z, m) = z
  <2>1. z \in 0 .. m - 1
    BY <1>1
  <2> QED
    BY <1>1, <2>1, RemIs
<1> QED
  BY <1>1, <1>2, <1>3 DEF z

\* A factor that a prime does not divide can be cancelled.
LEMMA RemCancels ==
  ASSUME NEW p, Prime(p), NEW a \in 1 .. p - 1, NEW b \in 0 .. p - 1, NEW c \in 0 .. p - 1,
         Rem(a * b, p) = Rem(a * c, p)
  PROVE  b = c
<1>1. p \in Nat /\ p > 0 /\ a \in Int /\ b \in Int /\ c \in Int
  BY DEF Prime
<1>2. ASSUME NEW x \in 0 .. p - 1, NEW y \in 0 .. p - 1, x > y,
             Rem(a * x, p) = Rem(a * y, p)
      PROVE  FALSE
  <2> DEFINE d == x - y
             m == a * x
             n == a * y
  <2>1. d \in 1 .. p - 1 /\ a * d = m - n /\ m \in Int /\ n \in Int
    BY <1>1, <1>2
  <2>2. Rem(m, p) = Rem(n, p)
    BY <1>2
  <2> HIDE DEF d, m, n
  <2>3. Rem(m - n, p) = 0
    BY <1>1, <2>1, <2>2, RemDifference
  <2> QED
    BY <2>1, <2>3, NoZeroDivisors
<1>3. ~(b > c) /\ ~(c > b)
  BY <1>2
<1> QED
  BY <1>1, <1>3

\* Fermat: multiplying by v permutes the numbers below a prime, so that their product is
\* the product of as many v and of themselves.
LEMMA Fermat ==
  ASSUME NEW p, Prime(p), NEW v \in 1 .. p - 1, NEW pow, Powers(v, p - 1, pow)
  PROVE  Rem(pow[p - 1], p) = 1
<1> DEFINE S == 1 .. p - 1
           g(k) == Rem(v * k, p)
           Image(n) == {g(k) : k \in 1 .. n}
<1>1. p \in Nat /\ p > 1 /\ p > 0 /\ v \in Int /\ p - 1 \in Nat /\ p - 1 \in S
  BY DEF Prime
<1>2. S \in SUBSET Nat /\ IsFiniteSet(S)
  BY <1>1, FS_Interval
<1>3. PICK product : Multiplies(S, product)
  <2> HIDE DEF S
  <2> QED
    BY <1>2, ProductExists
<1>4. /\ product \in [SUBSET S -> Nat] /\ product[{}] = 1
      /\ \A s \in SUBSET S : \A k \in s : product[s] = k * product[s \ {k}]
  BY <1>3 DEF Multiplies
<1>5. /\ \A k \in 0 .. p - 1 : pow[k] \in Int
      /\ pow[0] = 1 /\ \A k \in 1 .. p - 1 : pow[k] = v * pow[k - 1]
  BY DEF Powers
<1>6. ASSUME NEW k \in S PROVE g(k) \in S /\ Rem(g(k), p) = Rem(v * k, p)
  <2> DEFINE n == v * k
  <2>1. n \in Int
    BY <1>1
  <2>2. Rem(n, p) # 0
    BY NoZeroDivisors
  <2> HIDE DEF n
  <2>3. Rem(n, p) \in 0 .. p - 1 /\ Rem(Rem(n, p), p) = Rem(n, p)
    BY <1>1, <2>1, RemIs
  <2>4. Rem(n, p) \in S
    BY <1>1, <2>2, <2>3
  <2> QED
    BY <2>3, <2>4 DEF n
<1>7. ASSUME NEW k \in S, NEW l \in S, g(k) = g(l) PROVE k = l
  <2>1. k \in 0 .. p - 1 /\ l \in 0 .. p - 1 /\ v \in 1 .. p - 1
    BY <1>1
  <2> QED
    BY <1>7, <2>1, RemCancels
<1> HIDE DEF g
<1> DEFINE T == {n \in 0 .. p - 1 :
                   Rem(product[Image(n)], p) = Rem(pow[n] * product[1 .. n], p)}
<1>8. 0 \in T
  <2>1. 1 .. 0 = {} /\ Image(0) = {}
    OBVIOUS
  <2>2. pow[0] * product[1 .. 0] = product[Image(0)]
    <3>1. product[1 .. 0] = 1 /\ product[Image(0)] = 1
      BY <1>4, <2>1, Zenon
    <3>2. pow[0] * product[1 .. 0] = 1 * 1
      BY <1>5, <3>1
    <3> HIDE DEF Image
    <3> QED
      BY <3>1, <3>2
  <2>3. 0 \in 0 .. p - 1
    BY <1>1
  <2> HIDE DEF Image
  <2> QED
    BY <2>2, <2>3
<1>9. ASSUME NEW n \in 1 .. p - 1, n - 1 \in T PROVE n \in T
  <2> DEFINE I == Image(n)
             J == Image(n - 1)
             x == product[J]
             y == product[1 .. n - 1]
             w == pow[n - 1]
             u == v * n
  <2>1. n \in S /\ n \in Int /\ n - 1 \in 0 .. p - 1 /\ 1 .. n \subseteq S /\ n \in 1 .. n
        /\ 1 .. n - 1 = (1 .. n) \ {n} /\ 1 .. n = (1 .. n - 1) \cup {n}
    BY <1>1
  <2>2. I = J \cup {g(n)} /\ g(n) \in I /\ I \in SUBSET S /\ J \in SUBSET S
    BY <1>6, <2>1
  <2>3. g(n) \notin J
    <3>1. ASSUME NEW k \in 1 .. n - 1, g(k) = g(n) PROVE FALSE
      <4>1. k \in S /\ k # n
        BY <2>1
      <4> QED
        BY <1>7, <2>1, <3>1, <4>1
    <3> QED
      BY <3>1
  <2>4. I \ {g(n)} = J
    BY <2>2, <2>3
  <2>5. product[I] = g(n) * x /\ x \in Nat
    BY <1>4, <2>2, <2>4
  <2>6. product[1 .. n] = n * y /\ y \in Nat
    <3>1. 1 .. n \in SUBSET S /\ 1 .. n - 1 \in SUBSET S
      BY <2>1
    <3>2. product[1 .. n] = n * product[(1 .. n) \ {n}]
      BY <1>4, <2>1, <3>1, Zenon
    <3> QED
      BY <1>4, <2>1, <3>1, <3>2
  <2>7. pow[n] = v * w /\ w \in Int
    BY <1>5, <2>1
  <2>8. Rem(x, p) = Rem(w * y, p)
    BY <1>9
  <2>9. u \in Int /\ g(n) \in Int /\ Rem(g(n), p) = Rem(u, p)
    BY <1>1, <1>6, <2>1
  <2>10. pow[n] * product[1 .. n] = u * (w * y)
    <3>1. (v * w) * (n * y) = (v * n) * (w * y)
      <4> HIDE DEF w, y
      <4>1. w \in Int /\ y \in Int /\ v \in Int /\ n \in Int
        BY <1>1, <2>1, <2>6, <2>7
      <4> QED
        BY <4>1
    <3> QED
      BY <2>6, <2>7, <3>1
  <2>11. product[Image(n)] = g(n) * x
    BY <2>5
  <2> HIDE DEF I, J, x, y, w, u, Image
  <2>12. w * y \in Int /\ x \in Int
    BY <2>5, <2>6, <2>7
  <2>13. Rem(g(n) * x, p) = Rem(u * (w * y), p)
    <3> DEFINE wy == w * y
               gn == g(n)
    <3>1. /\ p \in Nat /\ p > 0 /\ gn \in Int /\ x \in Int /\ u \in Int /\ wy \in Int
          /\ Rem(gn, p) = Rem(u, p) /\ Rem(x, p) = Rem(wy, p)
      BY <1>1, <2>8, <2>9, <2>12
    <3> HIDE DEF wy, gn
    <3>2. Rem(gn * x, p) = Rem(u * wy, p)
      BY <3>1, RemTimes
    <3> QED
      BY <3>2 DEF wy, gn
  <2> QED
    BY <2>1, <2>10, <2>11, <2>13
<1> HIDE DEF T
<1>10. 0 .. p - 1 \subseteq T
  BY <1>1, <1>8, <1>9, IntervalInduction
\* All of them are reached.
<1>11. Image(p - 1) = S
  <2> DEFINE f == [k \in S |-> g(k)]
  <2>1. f \in Injection(S, S)
    BY <1>6, <1>7 DEF Injection, IsInjective
  <2>2. f \in Surjection(S, S)
    <3> HIDE DEF f, S
    <3> QED
      BY <1>2, <2>1, FS_Injection
  <2>3. \A x \in S : \E k \in S : g(k) = x
    BY <2>2 DEF Surjection
  <2> QED
    BY <1>6, <2>3
\* No product is divided by p.
<1> DEFINE U == {n \in 0 .. p - 1 : Rem(product[1 .. n], p) # 0}
<1>12. 0 \in U
  <2>1. 1 .. 0 = {} /\ 0 \in 0 .. p - 1 /\ 1 \in 0 .. p - 1 /\ 1 \in Int
    BY <1>1
  <2>2. Rem(1, p) = 1
    BY <1>1, <2>1, RemIs
  <2> QED
    BY <1>4, <2>1, <2>2
<1>13. ASSUME NEW n \in 1 .. p - 1, n - 1 \in U PROVE n \in U
  <2> DEFINE y == product[1 .. n - 1]
             r == Rem(y, p)
  <2>1. n \in S /\ n \in Int /\ 1 .. n \subseteq S /\ n \in 1 .. n /\ n \in 0 .. p - 1
        /\ 1 .. n - 1 = (1 .. n) \ {n} /\ 1 .. n - 1 \in SUBSET S /\ 1 .. n \in SUBSET S
    BY <1>1
  <2>2. product[1 .. n] = n * y /\ y \in Nat
    <3>1. product[1 .. n] = n * product[(1 .. n) \ {n}]
      BY <1>4, <2>1, Zenon
    <3> QED
      BY <1>4, <2>1, <3>1
  <2>3. r # 0
    BY <1>13
  <2> HIDE DEF y
  <2>4. r \in 0 .. p - 1 /\ r \in Int /\ Rem(r, p) = Rem(y, p) /\ y \in Int
    <3>1. y \in Int /\ p \in Nat /\ p > 0
      BY <1>1, <2>2
    <3> QED
      BY <3>1, RemIs
  <2>5. r \in 1 .. p - 1
    BY <1>1, <2>3, <2>4
  <2> HIDE DEF r
  <2>6. Rem(n * r, p) # 0
    BY <2>5, NoZeroDivisors
  <2>7. Rem(n * r, p) = Rem(n * y, p)
    <3>1. n \in Int /\ r \in Int /\ y \in Int /\ p \in Nat /\ p > 0 /\ Rem(r, p) = Rem(y, p)
      BY <1>1, <2>1, <2>4
    <3> QED
      BY <3>1, RemSame
  <2> QED
    BY <2>1, <2>2, <2>6, <2>7
<1> HIDE DEF U
<1>14. 0 .. p - 1 \subseteq U
  BY <1>1, <1>12, <1>13, IntervalInduction
<1> DEFINE w == pow[p - 1]
           y == product[S]
<1>15. Rem(y, p) = Rem(w * y, p) /\ Rem(y, p) # 0
  <2>1. p - 1 \in T /\ p - 1 \in U
    BY <1>1, <1>10, <1>14
  <2> QED
    BY <1>11, <2>1 DEF T, U
<1>16. w \in Int /\ y \in Int
  <2>1. p - 1 \in 0 .. p - 1 /\ S \in SUBSET S
    BY <1>1
  <2> QED
    BY <1>4, <1>5, <2>1
<1> HIDE DEF w, y
<1> DEFINE r == Rem(w, p)
           s == Rem(y, p)
<1>17. /\ r \in 0 .. p - 1 /\ r \in Int /\ s \in 0 .. p - 1 /\ s \in Int
       /\ Rem(r, p) = Rem(w, p) /\ Rem(s, p) = Rem(y, p)
  BY <1>1, <1>16, RemIs
<1>18. s \in 1 .. p - 1
  BY <1>1, <1>15, <1>17
<1> HIDE DEF r, s
<1>19. Rem(s * r, p) = Rem(s * 1, p)
  <2>1. Rem(r * s, p) = Rem(w * y, p)
    BY <1>1, <1>16, <1>17, RemTimes
  <2>2. r * s = s * r /\ s * 1 = s
    BY <1>17
  <2> QED
    BY <1>15, <1>17, <2>1, <2>2
<1>20. r = 1
  <2>1. 1 \in 0 .. p - 1
    BY <1>1
  <2> QED
    BY <1>17, <1>18, <1>19, <2>1, RemCancels
<1> QED
  BY <1>20 DEF r, w

\* Powers by squaring, along the bits of the exponent.
BySquares(v, n, p, f) ==
  f = [e \in 0 .. n |->
         IF e = 0 THEN 1
         ELSE LET half == f[e \div 2]
              IN (half * half * (IF e % 2 = 1 THEN v ELSE 1)) % p]

LEMMA PowerDoubles ==
  ASSUME NEW v \in Int, NEW n \in Nat, NEW pow, Powers(v, n, pow),
         NEW h \in Nat, 2 * h <= n
  PROVE  pow[2 * h] = pow[h] * pow[h]
<1> DEFINE T == {k \in 0 .. h : pow[2 * k] = pow[k] * pow[k]}
<1>1. /\ \A k \in 0 .. n : pow[k] \in Int
      /\ pow[0] = 1 /\ \A k \in 1 .. n : pow[k] = v * pow[k - 1]
  BY DEF Powers
<1>2. 0 \in T
  <2>1. 2 * 0 = 0 /\ 0 \in 0 .. h /\ pow[0] * pow[0] = 1
    BY <1>1
  <2> QED
    BY <1>1, <2>1
<1>3. ASSUME NEW k \in 1 .. h, k - 1 \in T PROVE k \in T
  <2> DEFINE x == pow[k - 1]
             l == 2 * k
  <2>1. /\ l \in 1 .. n /\ l - 1 \in 1 .. n /\ l - 1 - 1 = 2 * (k - 1) /\ k \in 1 .. n
        /\ k - 1 \in 0 .. n /\ k \in 0 .. h
    OBVIOUS
  <2> HIDE DEF l
  <2>2. pow[l] = v * pow[l - 1] /\ pow[l - 1] = v * pow[l - 1 - 1] /\ pow[k] = v * x
        /\ x \in Int
    BY <1>1, <2>1
  <2>3. pow[l - 1 - 1] = x * x
    BY <1>3, <2>1
  <2> HIDE DEF x
  <2>4. v * (v * (x * x)) = (v * x) * (v * x)
    BY <2>2
  <2>5. pow[l] = pow[k] * pow[k]
    BY <2>2, <2>3, <2>4
  <2> QED
    BY <2>1, <2>5 DEF l
<1> HIDE DEF T
<1>4. 0 .. h \subseteq T
  BY <1>2, <1>3, IntervalInduction
<1>5. h \in T
  BY <1>4
<1> QED
  BY <1>5 DEF T

\* A step of the squaring: the exponent is twice its half, and what is odd of it.
LEMMA SquareStep ==
  ASSUME NEW p \in Nat, p > 0, NEW v \in Int, NEW n \in Nat, NEW pow, Powers(v, n, pow),
         NEW e \in 1 .. n, NEW a \in Int, Rem(a, p) = Rem(pow[e \div 2], p)
  PROVE  Rem(a * a * (IF e % 2 = 1 THEN v ELSE 1), p) = Rem(pow[e], p)
<1> DEFINE h == e \div 2
           w == IF e % 2 = 1 THEN v ELSE 1
           x == pow[h]
<1>1. h \in Nat /\ 2 * h <= n /\ h \in 0 .. n
      /\ (e % 2 = 1 => e = 2 * h + 1) /\ (e % 2 # 1 => e = 2 * h)
  OBVIOUS
<1>2. x \in Int
  BY <1>1 DEF Powers
<1>3. pow[2 * h] = x * x
  BY <1>1, PowerDoubles
<1>4. pow[e] = w * (x * x) /\ w \in Int
  <2>1. CASE e % 2 = 1
    <3>1. e - 1 = 2 * h
      BY <1>1, <2>1
    <3>2. pow[e] = v * pow[e - 1]
      BY DEF Powers
    <3> QED
      BY <1>3, <2>1, <3>1, <3>2
  <2>2. CASE e % 2 # 1
    <3>1. e = 2 * h
      BY <1>1, <2>2
    <3>2. pow[e] = x * x
      BY <1>3, <3>1, Zenon
    <3>3. x * x = 1 * (x * x)
      BY <1>2
    <3> QED
      BY <2>2, <3>2, <3>3
  <2> QED
    BY <2>1, <2>2
<1>5. Rem(a, p) = Rem(x, p)
  OBVIOUS
<1> HIDE DEF h, w, x
<1>6. Rem(a * a, p) = Rem(x * x, p)
  BY <1>2, <1>5, RemTimes
<1>7. Rem(w * (a * a), p) = Rem(w * (x * x), p)
  <2> DEFINE s == a * a
             t == x * x
  <2>1. Alike(p, s, t, w)
    BY <1>2, <1>4, <1>6 DEF Alike
  <2> HIDE DEF s, t
  <2>2. Rem(w * s, p) = Rem(w * t, p)
    BY <2>1, AlikeAre
  <2> QED
    BY <2>2 DEF s, t
<1>8. a * a * w = w * (a * a)
  BY <1>4
<1> QED
  BY <1>4, <1>7, <1>8 DEF w

LEMMA SquaresArePowers ==
  ASSUME NEW p \in Nat, p > 1, NEW v \in Int, NEW n \in Nat, NEW pow, Powers(v, n, pow)
  PROVE  /\ \E f : BySquares(v, n, p, f)
         /\ \A f : BySquares(v, n, p, f) => f[n] = Rem(pow[n], p)
<1>1. /\ \A k \in 0 .. n : pow[k] \in Int
      /\ pow[0] = 1
  BY DEF Powers
<1>2. \A k \in 0 .. n : Rem(pow[k], p) \in Int /\ Rem(Rem(pow[k], p), p) = Rem(pow[k], p)
  BY <1>1, RemIs
<1>3. Rem(pow[0], p) = 1
  <2>1. 1 \in 0 .. p - 1 /\ 1 \in Int
    OBVIOUS
  <2> QED
    BY <1>1, <2>1, RemIs
<1>4. ASSUME NEW e \in 1 .. n
      PROVE  e \div 2 \in 0 .. e - 1 /\ e \div 2 \in 0 .. n
  OBVIOUS
<1> DEFINE odd(e) == IF e % 2 = 1 THEN v ELSE 1
<1>5. ASSUME NEW f, NEW e \in 1 .. n, f[e \div 2] = Rem(pow[e \div 2], p)
      PROVE  (f[e \div 2] * f[e \div 2] * odd(e)) % p = Rem(pow[e], p)
  <2> DEFINE a == f[e \div 2]
  <2>1. a \in Int /\ Rem(a, p) = Rem(pow[e \div 2], p)
    BY <1>2, <1>4, <1>5
  <2> HIDE DEF a
  <2>2. Rem(a * a * (IF e % 2 = 1 THEN v ELSE 1), p) = Rem(pow[e], p)
    BY <2>1, SquareStep
  <2>3. (a * a * odd(e)) % p = Rem(pow[e], p)
    BY <2>2 DEF Rem
  <2> QED
    BY <2>3 DEF a
<1> HIDE DEF odd
<1>6. \A f : BySquares(v, n, p, f) <=>
        f = [e \in 0 .. n |-> IF e = 0 THEN 1 ELSE (f[e \div 2] * f[e \div 2] * odd(e)) % p]
  BY DEF BySquares, odd
<1>7. \E f : BySquares(v, n, p, f)
  <2> DEFINE f == [e \in 0 .. n |-> Rem(pow[e], p)]
  <2>1. \A e \in 0 .. n : f[e] = Rem(pow[e], p)
    OBVIOUS
  <2>2. f = [e \in 0 .. n |-> f[e]]
    OBVIOUS
  <2> HIDE DEF f
  <2>3. ASSUME NEW e \in 0 .. n
        PROVE  f[e] = IF e = 0 THEN 1 ELSE (f[e \div 2] * f[e \div 2] * odd(e)) % p
    <3>1. CASE e = 0
      BY <1>3, <2>1, <3>1
    <3>2. CASE e # 0
      <4>1. e \in 1 .. n
        BY <3>2
      <4>2. f[e \div 2] = Rem(pow[e \div 2], p)
        BY <1>4, <2>1, <4>1
      <4>3. (f[e \div 2] * f[e \div 2] * odd(e)) % p = Rem(pow[e], p)
        BY <1>5, <4>1, <4>2
      <4> QED
        BY <2>1, <3>2, <4>3
    <3> QED
      BY <3>1, <3>2
  <2>4. f = [e \in 0 .. n |-> IF e = 0 THEN 1 ELSE (f[e \div 2] * f[e \div 2] * odd(e)) % p]
    BY <2>2, <2>3
  <2> QED
    BY <1>6, <2>4
<1>8. ASSUME NEW f, BySquares(v, n, p, f) PROVE f[n] = Rem(pow[n], p)
  <2> DEFINE Agrees(d) == f[d] = Rem(pow[d], p)
             T == {e \in 0 .. n : \A d \in 0 .. e : Agrees(d)}
  <2>1. f = [e \in 0 .. n |-> IF e = 0 THEN 1 ELSE (f[e \div 2] * f[e \div 2] * odd(e)) % p]
    BY <1>6, <1>8
  <2>2. f[0] = 1 /\ \A e \in 1 .. n : f[e] = (f[e \div 2] * f[e \div 2] * odd(e)) % p
    <3>1. \A e \in 0 .. n :
            f[e] = IF e = 0 THEN 1 ELSE (f[e \div 2] * f[e \div 2] * odd(e)) % p
      BY <2>1
    <3> QED
      BY <3>1
  <2>3. 0 \in T
    <3>1. Agrees(0)
      BY <1>3, <2>2
    <3>2. \A d \in 0 .. 0 : d = 0
      OBVIOUS
    <3> HIDE DEF Agrees
    <3> QED
      BY <3>1, <3>2
  <2>4. ASSUME NEW e \in 1 .. n, e - 1 \in T PROVE e \in T
    <3>1. Agrees(e \div 2)
      BY <1>4, <2>4
    <3>2. Agrees(e)
      BY <1>5, <2>2, <3>1
    <3>3. \A d \in 0 .. e : d \in 0 .. e - 1 \/ d = e
      OBVIOUS
    <3> HIDE DEF Agrees
    <3> QED
      BY <2>4, <3>2, <3>3
  <2> HIDE DEF T
  <2>5. 0 .. n \subseteq T
    BY <2>3, <2>4, IntervalInduction
  <2>6. n \in 0 .. n
    OBVIOUS
  <2> QED
    BY <2>5, <2>6 DEF T
<1> QED
  BY <1>7, <1>8

-----------------------------------------------------------------------------
(* Finite sums.                                                            *)

Pick(s) == CHOOSE x \in s : TRUE

\* g is the sum of f over every set of a family.
Adds(f, family, g) ==
  g = [s \in family |-> IF s = {} THEN 0 ELSE f[Pick(s)] + g[s \ {Pick(s)}]]

LEMMA PickIn == ASSUME NEW s, s # {} PROVE Pick(s) \in s
BY DEF Pick

LEMMA SumIsPicked ==
  ASSUME NEW f, NEW S
  PROVE  SumFunctionOnSet(f, S) = (CHOOSE g : Adds(f, SUBSET S, g))[S]
BY DEF SumFunctionOnSet, FoldFunctionOnSet, MapThenFoldSet, Adds, Pick

\* There is a sum over the subsets of a finite set: over those of up to n elements, for
\* every n.
LEMMA SumExists ==
  ASSUME NEW f, NEW S, IsFiniteSet(S)
  PROVE  \E g : Adds(f, SUBSET S, g)
<1> DEFINE Layer(n) == {s \in SUBSET S : Cardinality(s) <= n}
           T == {n \in Nat : \E g : Adds(f, Layer(n), g)}
<1>1. \A s \in SUBSET S : IsFiniteSet(s) /\ Cardinality(s) \in 0 .. Cardinality(S)
  BY FS_Subset, FS_CardinalityType
<1>2. ASSUME NEW n \in Nat, NEW s \in Layer(n), s # {}
      PROVE  n # 0 /\ s \ {Pick(s)} \in Layer(n - 1)
  <2>1. s \in SUBSET S /\ Pick(s) \in s /\ IsFiniteSet(s) /\ Cardinality(s) \in Nat
        /\ Cardinality(s) <= n
    BY <1>1, <1>2, PickIn
  <2>2. Cardinality(s \ {Pick(s)}) = Cardinality(s) - 1 /\ Cardinality(s \ {Pick(s)}) \in Nat
    BY <1>1, <2>1, FS_RemoveElement
  <2> QED
    BY <2>1, <2>2
<1>3. 0 \in T
  <2> DEFINE g == [s \in Layer(0) |-> 0]
  <2>1. \A s \in Layer(0) : s = {}
    BY <1>2
  <2>2. Adds(f, Layer(0), g)
    BY <2>1 DEF Adds
  <2> QED
    BY <2>2
<1>4. ASSUME NEW n \in 1 .. Cardinality(S), n - 1 \in T PROVE n \in T
  <2>1. PICK g : Adds(f, Layer(n - 1), g)
    BY <1>4
  <2> DEFINE h == [s \in Layer(n) |-> IF s = {} THEN 0 ELSE f[Pick(s)] + g[s \ {Pick(s)}]]
  <2>2. ASSUME NEW s \in Layer(n - 1) PROVE s \in Layer(n) /\ h[s] = g[s]
    <3>1. s \in Layer(n)
      BY <1>1
    <3>2. h[s] = IF s = {} THEN 0 ELSE f[Pick(s)] + g[s \ {Pick(s)}]
      BY <3>1
    <3>3. g[s] = IF s = {} THEN 0 ELSE f[Pick(s)] + g[s \ {Pick(s)}]
      <4> HIDE DEF Layer
      <4> QED
        BY <2>1 DEF Adds
    <3> QED
      BY <3>1, <3>2, <3>3
  <2>3. ASSUME NEW s \in Layer(n), s # {} PROVE h[s \ {Pick(s)}] = g[s \ {Pick(s)}]
    <3>1. s \ {Pick(s)} \in Layer(n - 1)
      BY <1>2, <2>3
    <3> HIDE DEF Layer, h
    <3> QED
      BY <2>2, <3>1
  <2>4. Adds(f, Layer(n), h)
    <3> HIDE DEF Layer
    <3> QED
      BY <2>3 DEF Adds
  <2> HIDE DEF h, Layer
  <2> QED
    BY <2>4
<1>5. Cardinality(S) \in T
  <2>1. Cardinality(S) \in Nat
    BY FS_CardinalityType
  <2> HIDE DEF T
  <2>2. 0 .. Cardinality(S) \subseteq T
    BY <1>3, <1>4, <2>1, IntervalInduction
  <2> QED
    BY <2>1, <2>2
<1>6. Layer(Cardinality(S)) = SUBSET S
  BY <1>1
<1> QED
  BY <1>5, <1>6

\* ... and one only.
LEMMA SumUnique ==
  ASSUME NEW f, NEW S, IsFiniteSet(S), NEW R \in SUBSET S, NEW g, NEW h,
         Adds(f, SUBSET S, g), Adds(f, SUBSET R, h)
  PROVE  g[R] = h[R]
<1> DEFINE T == {s \in SUBSET R : g[s] = h[s]}
<1>1. \A s \in SUBSET R : /\ g[s] = IF s = {} THEN 0 ELSE f[Pick(s)] + g[s \ {Pick(s)}]
                          /\ h[s] = IF s = {} THEN 0 ELSE f[Pick(s)] + h[s \ {Pick(s)}]
  BY DEF Adds
<1>2. IsFiniteSet(R) /\ {} \in T
  BY <1>1, FS_Subset
<1>3. ASSUME NEW s \in SUBSET R, s # {}, \A x \in s : s \ {x} \in T PROVE s \in T
  BY <1>1, <1>3, PickIn
<1> HIDE DEF T
<1>4. SUBSET R \subseteq T
  BY <1>2, <1>3, SubsetInduction
<1> QED
  BY <1>4 DEF T

LEMMA SumUnfolds ==
  ASSUME NEW f, NEW S, IsFiniteSet(S)
  PROVE  SumFunctionOnSet(f, S) =
           IF S = {} THEN 0 ELSE f[Pick(S)] + SumFunctionOnSet(f, S \ {Pick(S)})
<1>1. ASSUME NEW R \in SUBSET S PROVE Adds(f, SUBSET R, CHOOSE g : Adds(f, SUBSET R, g))
  BY FS_Subset, SumExists
<1> DEFINE g == CHOOSE h : Adds(f, SUBSET S, h)
<1>2. ASSUME NEW R \in SUBSET S PROVE SumFunctionOnSet(f, R) = g[R]
  <2> DEFINE h == CHOOSE e : Adds(f, SUBSET R, e)
  <2>1. Adds(f, SUBSET R, h) /\ Adds(f, SUBSET S, g)
    BY <1>1
  <2>2. SumFunctionOnSet(f, R) = h[R]
    BY SumIsPicked
  <2> HIDE DEF g, h
  <2> QED
    BY <2>1, <2>2, SumUnique
<1>3. Adds(f, SUBSET S, g)
  BY <1>1
<1>4. g[S] = IF S = {} THEN 0 ELSE f[Pick(S)] + g[S \ {Pick(S)}]
  <2> HIDE DEF g
  <2> QED
    BY <1>3 DEF Adds
<1> HIDE DEF g
<1> QED
  BY <1>2, <1>4

-----------------------------------------------------------------------------
(* The laws of sums.                                                       *)

LEMMA SumEmpty == ASSUME NEW f PROVE SumFunctionOnSet(f, {}) = 0
BY SumUnfolds, FS_EmptySet

LEMMA SumType ==
  ASSUME NEW S, IsFiniteSet(S), NEW f, \A x \in S : f[x] \in Int
  PROVE  SumFunctionOnSet(f, S) \in Int
<1> DEFINE T == {s \in SUBSET S : SumFunctionOnSet(f, s) \in Int}
<1>1. {} \in T
  BY SumEmpty
<1>2. ASSUME NEW s \in SUBSET S, s # {}, \A x \in s : s \ {x} \in T PROVE s \in T
  <2>1. IsFiniteSet(s) /\ Pick(s) \in s
    BY <1>2, FS_Subset, PickIn
  <2>2. SumFunctionOnSet(f, s) = f[Pick(s)] + SumFunctionOnSet(f, s \ {Pick(s)})
    BY <1>2, <2>1, SumUnfolds
  <2> QED
    BY <1>2, <2>1, <2>2
<1> HIDE DEF T
<1>3. SUBSET S \subseteq T
  BY <1>1, <1>2, SubsetInduction
<1> QED
  BY <1>3 DEF T

LEMMA SumNat ==
  ASSUME NEW S, IsFiniteSet(S), NEW f, \A x \in S : f[x] \in Nat
  PROVE  SumFunctionOnSet(f, S) \in Nat
<1> DEFINE T == {s \in SUBSET S : SumFunctionOnSet(f, s) \in Nat}
<1>1. {} \in T
  BY SumEmpty
<1>2. ASSUME NEW s \in SUBSET S, s # {}, \A x \in s : s \ {x} \in T PROVE s \in T
  <2>1. IsFiniteSet(s) /\ Pick(s) \in s
    BY <1>2, FS_Subset, PickIn
  <2>2. SumFunctionOnSet(f, s) = f[Pick(s)] + SumFunctionOnSet(f, s \ {Pick(s)})
    BY <1>2, <2>1, SumUnfolds
  <2> QED
    BY <1>2, <2>1, <2>2
<1> HIDE DEF T
<1>3. SUBSET S \subseteq T
  BY <1>1, <1>2, SubsetInduction
<1> QED
  BY <1>3 DEF T

\* Any element can be taken out of a sum.
LEMMA SumTakesOut ==
  ASSUME NEW S, IsFiniteSet(S), NEW f, \A x \in S : f[x] \in Int, NEW x \in S
  PROVE  SumFunctionOnSet(f, S) = f[x] + SumFunctionOnSet(f, S \ {x})
<1> DEFINE Sum(s) == SumFunctionOnSet(f, s)
           T == {s \in SUBSET S : \A y \in s : Sum(s) = f[y] + Sum(s \ {y})}
<1>1. {} \in T
  OBVIOUS
<1>2. ASSUME NEW s \in SUBSET S, s # {}, \A y \in s : s \ {y} \in T,
             NEW y \in s
      PROVE  Sum(s) = f[y] + Sum(s \ {y})
  <2> DEFINE p == Pick(s)
  <2>1. IsFiniteSet(s) /\ p \in s
    BY <1>2, FS_Subset, PickIn
  <2>2. Sum(s) = f[p] + Sum(s \ {p})
    BY <1>2, <2>1, SumUnfolds
  <2>3. CASE y = p
    BY <2>2, <2>3
  <2>4. CASE y # p
    <3>1. Sum(s \ {p}) = f[y] + Sum((s \ {p}) \ {y})
      BY <1>2, <2>1, <2>4
    <3>2. Sum(s \ {y}) = f[p] + Sum((s \ {y}) \ {p})
      BY <1>2, <2>1, <2>4
    <3>3. (s \ {p}) \ {y} = (s \ {y}) \ {p} /\ IsFiniteSet((s \ {p}) \ {y})
      BY <2>1, FS_Subset
    <3>4. Sum((s \ {p}) \ {y}) \in Int /\ f[y] \in Int /\ f[p] \in Int
      BY <2>1, <3>3, SumType
    <3>5. Sum((s \ {y}) \ {p}) = Sum((s \ {p}) \ {y})
      BY <3>3
    <3>6. Sum(s) = f[p] + (f[y] + Sum((s \ {p}) \ {y}))
      BY <2>2, <3>1
    <3>7. f[y] + Sum(s \ {y}) = f[y] + (f[p] + Sum((s \ {p}) \ {y}))
      BY <3>2, <3>5
    <3> QED
      BY <3>4, <3>6, <3>7
  <2> QED
    BY <2>3, <2>4
<1>3. ASSUME NEW s \in SUBSET S, s # {}, \A y \in s : s \ {y} \in T PROVE s \in T
  <2> HIDE DEF Sum
  <2> QED
    BY <1>2, <1>3
<1> HIDE DEF T
<1>4. SUBSET S \subseteq T
  BY <1>1, <1>3, SubsetInduction
<1> QED
  BY <1>4 DEF T

\* The sum along an interval.
LEMMA SumInterval ==
  ASSUME NEW m \in Int, NEW n \in Int, m <= n, NEW f, \A i \in m .. n : f[i] \in Int
  PROVE  SumFunctionOnSet(f, m .. n) = SumFunctionOnSet(f, m .. n - 1) + f[n]
<1>1. IsFiniteSet(m .. n) /\ n \in m .. n /\ (m .. n) \ {n} = m .. n - 1
  BY FS_Interval
<1>2. SumFunctionOnSet(f, m .. n) = f[n] + SumFunctionOnSet(f, m .. n - 1)
  BY <1>1, SumTakesOut
<1>3. IsFiniteSet(m .. n - 1) /\ f[n] \in Int
  BY <1>1, FS_Interval
<1>4. SumFunctionOnSet(f, m .. n - 1) \in Int
  BY <1>3, SumType
<1> QED
  BY <1>2, <1>3, <1>4

\* The sum over two sets that are apart.
LEMMA SumApart ==
  ASSUME NEW S, IsFiniteSet(S), NEW R \in SUBSET S, NEW f, \A x \in S : f[x] \in Int
  PROVE  SumFunctionOnSet(f, S) = SumFunctionOnSet(f, R) + SumFunctionOnSet(f, S \ R)
<1> DEFINE Sum(s) == SumFunctionOnSet(f, s)
           T == {s \in SUBSET R : Sum(s \union (S \ R)) = Sum(s) + Sum(S \ R)}
<1>1. /\ IsFiniteSet(R) /\ IsFiniteSet(S \ R) /\ Sum(S \ R) \in Int
      /\ \A s \in SUBSET R : IsFiniteSet(s) /\ IsFiniteSet(s \union (S \ R)) /\ Sum(s) \in Int
  <2>1. \A s \in SUBSET S : IsFiniteSet(s)
    BY FS_Subset
  <2>2. \A s \in SUBSET S : Sum(s) \in Int
    BY <2>1, SumType
  <2>3. \A s \in SUBSET R : s \union (S \ R) \in SUBSET S
    OBVIOUS
  <2> HIDE DEF Sum
  <2> QED
    BY <2>1, <2>2, <2>3
<1>2. {} \in T
  <2>1. {} \union (S \ R) = S \ R /\ Sum({}) = 0
    BY SumEmpty
  <2> HIDE DEF Sum
  <2> QED
    BY <1>1, <2>1
<1>3. ASSUME NEW s \in SUBSET R, s # {}, \A x \in s : s \ {x} \in T PROVE s \in T
  <2>1. PICK x \in s : TRUE
    BY <1>3
  <2>2. s \ {x} \in SUBSET R /\ Sum((s \ {x}) \union (S \ R)) = Sum(s \ {x}) + Sum(S \ R)
    BY <1>3, <2>1
  <2>3. Sum(s) = f[x] + Sum(s \ {x})
    BY <1>1, <2>1, SumTakesOut
  <2>4. Sum(s \union (S \ R)) = f[x] + Sum((s \union (S \ R)) \ {x})
    BY <1>1, <2>1, SumTakesOut
  <2>5. (s \union (S \ R)) \ {x} = (s \ {x}) \union (S \ R) /\ f[x] \in Int
    BY <2>1
  <2> HIDE DEF Sum
  <2> QED
    BY <1>1, <2>2, <2>3, <2>4, <2>5
<1> HIDE DEF T
<1>4. SUBSET R \subseteq T
  BY <1>1, <1>2, <1>3, SubsetInduction
<1>5. R \union (S \ R) = S /\ R \in T
  BY <1>4
<1> QED
  BY <1>5 DEF T

\* A sum is linear in what is summed.
LEMMA SumLinear ==
  ASSUME NEW S, IsFiniteSet(S), NEW c \in Int, NEW f, NEW g, NEW h,
         \A x \in S : f[x] \in Int /\ g[x] \in Int /\ h[x] = c * f[x] + g[x]
  PROVE  SumFunctionOnSet(h, S) = c * SumFunctionOnSet(f, S) + SumFunctionOnSet(g, S)
<1> DEFINE F(s) == SumFunctionOnSet(f, s)
           G(s) == SumFunctionOnSet(g, s)
           H(s) == SumFunctionOnSet(h, s)
           T == {s \in SUBSET S : H(s) = c * F(s) + G(s)}
<1>1. \A x \in S : h[x] \in Int
  OBVIOUS
<1>2. {} \in T
  <2>1. F({}) = 0 /\ G({}) = 0 /\ H({}) = 0
    BY SumEmpty
  <2> HIDE DEF F, G, H
  <2> QED
    BY <2>1
<1>3. ASSUME NEW s \in SUBSET S, s # {}, \A x \in s : s \ {x} \in T PROVE s \in T
  <2>1. PICK x \in s : TRUE
    BY <1>3
  <2>2. IsFiniteSet(s) /\ IsFiniteSet(s \ {x})
    BY FS_Subset
  <2>3. F(s) = f[x] + F(s \ {x}) /\ G(s) = g[x] + G(s \ {x}) /\ H(s) = h[x] + H(s \ {x})
    BY <1>1, <2>1, <2>2, SumTakesOut
  <2>4. H(s \ {x}) = c * F(s \ {x}) + G(s \ {x})
    BY <1>3, <2>1
  <2>5. F(s \ {x}) \in Int /\ G(s \ {x}) \in Int
    BY <1>1, <2>2, SumType
  <2>6. f[x] \in Int /\ g[x] \in Int /\ h[x] = c * f[x] + g[x]
    BY <2>1
  <2>7. \A a, b \in Int : c * (a + b) = c * a + c * b /\ c * a \in Int
    OBVIOUS
  <2> DEFINE a == f[x]  b == F(s \ {x})  p == c * a  q == c * b
  <2>8. F(s) = a + b /\ c * (a + b) = p + q /\ p \in Int /\ q \in Int
    BY <2>3, <2>5, <2>6, <2>7
  <2>9. H(s) = (p + g[x]) + (q + G(s \ {x})) /\ G(s) = g[x] + G(s \ {x})
    BY <2>3, <2>4, <2>6
  <2>10. H(s) = c * F(s) + G(s)
    <3> HIDE DEF F, G, H, a, b, p, q
    <3> QED
      BY <2>5, <2>6, <2>8, <2>9
  <2> QED
    BY <2>10
<1> HIDE DEF T
<1>4. SUBSET S \subseteq T
  BY <1>2, <1>3, SubsetInduction
<1> QED
  BY <1>4 DEF T

\* Only the values on the set count.
LEMMA SumSame ==
  ASSUME NEW S, IsFiniteSet(S), NEW f, NEW g, \A x \in S : f[x] \in Int /\ g[x] = f[x]
  PROVE  SumFunctionOnSet(g, S) = SumFunctionOnSet(f, S)
<1>1. SumFunctionOnSet(g, S) = 0 * SumFunctionOnSet(f, S) + SumFunctionOnSet(f, S)
  BY SumLinear
<1>2. SumFunctionOnSet(f, S) \in Int
  BY SumType
<1> QED
  BY <1>1, <1>2

LEMMA SumOfZeros ==
  ASSUME NEW S, IsFiniteSet(S), NEW f, \A x \in S : f[x] = 0
  PROVE  SumFunctionOnSet(f, S) = 0
<1> DEFINE T == {s \in SUBSET S : SumFunctionOnSet(f, s) = 0}
<1>1. {} \in T
  BY SumEmpty
<1>2. ASSUME NEW s \in SUBSET S, s # {}, \A x \in s : s \ {x} \in T PROVE s \in T
  <2>1. IsFiniteSet(s) /\ Pick(s) \in s
    BY <1>2, FS_Subset, PickIn
  <2>2. SumFunctionOnSet(f, s) = f[Pick(s)] + SumFunctionOnSet(f, s \ {Pick(s)})
    BY <1>2, <2>1, SumUnfolds
  <2> QED
    BY <1>2, <2>1, <2>2
<1> HIDE DEF T
<1>3. SUBSET S \subseteq T
  BY <1>1, <1>2, SubsetInduction
<1> QED
  BY <1>3 DEF T

\* A sum of values that are at most k is at most k times their number.
LEMMA SumBounded ==
  ASSUME NEW S, IsFiniteSet(S), NEW k \in Int, NEW f, \A x \in S : f[x] \in Int /\ f[x] <= k
  PROVE  SumFunctionOnSet(f, S) <= Cardinality(S) * k
<1> DEFINE Sum(s) == SumFunctionOnSet(f, s)
           T == {s \in SUBSET S : Sum(s) <= Cardinality(s) * k}
<1>1. {} \in T
  <2>1. Sum({}) = 0 /\ Cardinality({}) = 0 /\ 0 * k = 0
    BY SumEmpty, FS_EmptySet
  <2> HIDE DEF Sum
  <2> QED
    BY <2>1
<1>2. ASSUME NEW s \in SUBSET S, s # {}, \A x \in s : s \ {x} \in T PROVE s \in T
  <2>1. PICK x \in s : TRUE
    BY <1>2
  <2>2. IsFiniteSet(s) /\ IsFiniteSet(s \ {x})
    BY FS_Subset
  <2>3. Sum(s) = f[x] + Sum(s \ {x}) /\ Sum(s \ {x}) \in Int
    BY <2>1, <2>2, SumTakesOut, SumType
  <2> DEFINE n == Cardinality(s)
  <2>4. n \in Nat /\ Cardinality(s \ {x}) = n - 1
    BY <2>1, <2>2, FS_RemoveElement, FS_CardinalityType
  <2>5. Sum(s \ {x}) <= (n - 1) * k
    BY <1>2, <2>1, <2>4
  <2>6. (n - 1) * k = n * k - k /\ n * k \in Int /\ f[x] \in Int /\ f[x] <= k
    <3>1. \A a \in Nat : (a - 1) * k = a * k - k /\ a * k \in Int
      OBVIOUS
    <3> HIDE DEF n
    <3> QED
      BY <2>1, <2>4, <3>1
  <2>7. Sum(s) <= n * k
    <3> DEFINE p == n * k
               q == (n - 1) * k
    <3>1. Sum(s \ {x}) <= q /\ q = p - k /\ p \in Int
      BY <2>5, <2>6
    <3> HIDE DEF Sum, n, p, q
    <3>2. Sum(s) <= p
      BY <2>3, <2>6, <3>1
    <3> QED
      BY <3>2 DEF p
  <2> QED
    BY <2>7
<1> HIDE DEF T
<1>3. SUBSET S \subseteq T
  BY <1>1, <1>2, SubsetInduction
<1> QED
  BY <1>3 DEF T

\* The order of two sums can be exchanged.
LEMMA SumExchange ==
  ASSUME NEW S, IsFiniteSet(S), NEW R, IsFiniteSet(R), NEW f \in [S -> [R -> Int]]
  PROVE  SumFunctionOnSet([x \in S |-> SumFunctionOnSet(f[x], R)], S) =
           SumFunctionOnSet([y \in R |-> SumFunctionOnSet([x \in S |-> f[x][y]], S)], R)
<1> DEFINE rows == [x \in S |-> SumFunctionOnSet(f[x], R)]
           Column(y) == [x \in S |-> f[x][y]]
           Partial(s) == [y \in R |-> SumFunctionOnSet(Column(y), s)]
           Rows(s) == SumFunctionOnSet(rows, s)
           Sum(s) == SumFunctionOnSet(Partial(s), R)
           T == {s \in SUBSET S : Rows(s) = Sum(s)}
<1>1. \A x \in S : rows[x] \in Int
  BY SumType
<1>2. \A y \in R, x \in S : Column(y)[x] = f[x][y] /\ Column(y)[x] \in Int
  OBVIOUS
<1>3. \A s \in SUBSET S : IsFiniteSet(s)
  BY FS_Subset
<1>4. ASSUME NEW s \in SUBSET S, NEW y \in R PROVE Partial(s)[y] \in Int
  <2>1. SumFunctionOnSet(Column(y), s) \in Int
    <3> HIDE DEF Column
    <3> QED
      BY <1>2, <1>3, SumType
  <2> QED
    BY <2>1
<1>5. {} \in T
  <2>1. Rows({}) = 0
    BY SumEmpty
  <2> DEFINE z == Partial({})
  <2>2. \A y \in R : z[y] = 0
    BY SumEmpty
  <2> HIDE DEF z
  <2>3. SumFunctionOnSet(z, R) = 0
    BY <2>2, SumOfZeros
  <2> QED
    BY <2>1, <2>3 DEF z
<1>6. ASSUME NEW s \in SUBSET S, s # {}, \A x \in s : s \ {x} \in T PROVE s \in T
  <2>1. PICK x \in s : TRUE
    BY <1>6
  <2> DEFINE r == s \ {x}
             p == Partial(s)
             q == Partial(r)
             fx == f[x]
  <2>2. Rows(s) = rows[x] + Rows(r) /\ rows[x] = SumFunctionOnSet(fx, R) /\ Rows(r) = Sum(r)
    BY <1>1, <1>3, <1>6, <2>1, SumTakesOut
  <2>3. ASSUME NEW y \in R PROVE p[y] = 1 * fx[y] + q[y] /\ fx[y] \in Int /\ q[y] \in Int
    <3> DEFINE column == Column(y)
    <3>1. p[y] = SumFunctionOnSet(column, s) /\ q[y] = SumFunctionOnSet(column, r)
      OBVIOUS
    <3>2. \A u \in s : column[u] \in Int
      BY <1>2
    <3>3. column[x] = fx[y] /\ fx[y] \in Int
      BY <2>1
    <3>4. SumFunctionOnSet(column, s) = column[x] + SumFunctionOnSet(column, r)
      <4> HIDE DEF column
      <4> QED
        BY <1>3, <2>1, <3>2, SumTakesOut
    <3>5. q[y] \in Int
      BY <1>4
    <3> HIDE DEF p, q, fx, column
    <3> QED
      BY <3>1, <3>3, <3>4, <3>5
  <2>4. SumFunctionOnSet(p, R) = 1 * SumFunctionOnSet(fx, R) + SumFunctionOnSet(q, R)
    <3> HIDE DEF p, q, fx
    <3> QED
      BY <2>3, SumLinear
  <2>5. SumFunctionOnSet(fx, R) \in Int /\ SumFunctionOnSet(q, R) \in Int
    <3> HIDE DEF p, q, fx
    <3> QED
      BY <2>3, SumType
  <2>6. Sum(s) = SumFunctionOnSet(p, R) /\ Sum(r) = SumFunctionOnSet(q, R)
    OBVIOUS
  <2>7. Rows(s) = Sum(s)
    <3> HIDE DEF p, q, fx, Rows, Sum, r
    <3> QED
      BY <2>2, <2>4, <2>5, <2>6
  <2> QED
    BY <2>7
<1>7. Rows(S) = Sum(S)
  <2> HIDE DEF T
  <2>1. SUBSET S \subseteq T
    BY <1>5, <1>6, SubsetInduction
  <2> QED
    BY <2>1 DEF T
<1> QED
  BY <1>7

\* Sums of what has the same remainders have the same remainder.
LEMMA SumRem ==
  ASSUME NEW S, IsFiniteSet(S), NEW m \in Nat, m > 0, NEW f, NEW g,
         \A x \in S : f[x] \in Int /\ g[x] \in Int /\ Rem(f[x], m) = Rem(g[x], m)
  PROVE  Rem(SumFunctionOnSet(f, S), m) = Rem(SumFunctionOnSet(g, S), m)
<1> DEFINE F(s) == SumFunctionOnSet(f, s)
           G(s) == SumFunctionOnSet(g, s)
           T == {s \in SUBSET S : Rem(F(s), m) = Rem(G(s), m)}
<1>1. {} \in T
  <2>1. F({}) = 0 /\ G({}) = 0
    BY SumEmpty
  <2> HIDE DEF F, G
  <2> QED
    BY <2>1
<1>2. ASSUME NEW s \in SUBSET S, s # {}, \A x \in s : s \ {x} \in T PROVE s \in T
  <2>1. PICK x \in s : TRUE
    BY <1>2
  <2>2. IsFiniteSet(s) /\ IsFiniteSet(s \ {x})
    BY FS_Subset
  <2>3. F(s) = f[x] + F(s \ {x}) /\ G(s) = g[x] + G(s \ {x})
    BY <2>1, <2>2, SumTakesOut
  <2>4. F(s \ {x}) \in Int /\ G(s \ {x}) \in Int /\ f[x] \in Int /\ g[x] \in Int
    BY <2>1, <2>2, SumType
  <2>5. Rem(F(s \ {x}), m) = Rem(G(s \ {x}), m) /\ Rem(f[x], m) = Rem(g[x], m)
    BY <1>2, <2>1
  <2> HIDE DEF F, G
  <2>6. Rem(F(s), m) = Rem(G(s), m)
    <3> DEFINE a == f[x]  b == F(s \ {x})  c == g[x]  d == G(s \ {x})
    <3>1. a \in Int /\ b \in Int /\ c \in Int /\ d \in Int
          /\ Rem(a, m) = Rem(c, m) /\ Rem(b, m) = Rem(d, m)
      BY <2>4, <2>5
    <3>2. F(s) = a + b /\ G(s) = c + d
      BY <2>3
    <3> HIDE DEF a, b, c, d
    <3> QED
      BY <3>1, <3>2, RemSums
  <2> QED
    BY <2>6
<1> HIDE DEF T
<1>3. SUBSET S \subseteq T
  BY <1>1, <1>2, SubsetInduction
<1> QED
  BY <1>3 DEF T
=============================================================================
