---------------------------- MODULE ViewportProofs ----------------------------
(***************************************************************************)
(* Theorems about the viewport, for every screen, every zoom factor and    *)
(* gestures of every length. The first half makes Fractions a field.       *)
(***************************************************************************)
EXTENDS Viewport, FiniteSetTheorems, NaturalsInduction, WellFoundedInduction, TLAPS

-----------------------------------------------------------------------------
(* Recursion on the naturals                                                *)

LEMMA LeastOf ==
  ASSUME NEW S, S \subseteq Nat, S # {}
  PROVE  \E x \in S : \A y \in S : x <= y
<1>1. PICK x \in S : \A y \in S : ~(<<y, x>> \in OpToRel(<, Nat))
  BY NatLessThanWellFounded, WFMin
<1>2. \A y \in S : ~(y < x)
  BY <1>1 DEF OpToRel
<1> QED
  BY <1>2

\* A set that holds each natural all of whose predecessors it holds has them all.
LEMMA StrongInduction ==
  ASSUME NEW C, \A n \in Nat : (\A i \in 0 .. n - 1 : i \in C) => n \in C
  PROVE  \A n \in Nat : n \in C
<1> DEFINE bad == {n \in Nat : n \notin C}
<1> SUFFICES ASSUME bad # {} PROVE FALSE
  OBVIOUS
<1>1. PICK m \in bad : \A k \in bad : m <= k
  BY LeastOf
<1>2. m \in Nat /\ m \notin C
  OBVIOUS
<1>3. ASSUME NEW i \in 0 .. m - 1 PROVE i \in C
  <2>1. i \in Nat /\ i < m
    BY <1>2
  <2> QED
    BY <1>1, <1>2, <2>1
<1> QED
  BY <1>2, <1>3

LEMMA Remainder ==
  ASSUME NEW m \in Nat, NEW n \in Nat, n # 0
  PROVE  /\ m % n \in 0 .. n - 1 /\ m \div n \in Nat
         /\ m = n * (m \div n) + (m % n)
  OBVIOUS

\* The table of the greatest common divisors, up to row k.
IsTable(g, k) == g = [n \in 0 .. k |-> [m \in Nat |-> IF n = 0 THEN m ELSE g[m % n][n]]]

LEMMA TableExists ==
  \A k \in Nat : \E g : IsTable(g, k)
<1> DEFINE C == {k \in Nat : \E g : IsTable(g, k)}
<1>1. ASSUME NEW k \in Nat, \A i \in 0 .. k - 1 : i \in C PROVE k \in C
  <2>1. CASE k = 0
    <3> DEFINE g0 == [n \in 0 .. 0 |-> [m \in Nat |-> m]]
    <3>1. g0 = [n \in 0 .. 0 |-> [m \in Nat |-> IF n = 0 THEN m ELSE g0[m % n][n]]]
      OBVIOUS
    <3>2. IsTable(g0, 0)
      BY <3>1 DEF IsTable
    <3> QED
      BY <2>1, <3>2
  <2>2. CASE k # 0
    <3>1. k - 1 \in 0 .. k - 1
      BY <2>2
    <3>2. PICK g : IsTable(g, k - 1)
      BY <1>1, <3>1
    <3> DEFINE more == [n \in 0 .. k |-> IF n = k THEN [m \in Nat |-> g[m % k][k]] ELSE g[n]]
    <3>3. DOMAIN g = 0 .. k - 1 /\ \A n \in 0 .. k - 1 : g[n] = [m \in Nat |-> IF n = 0 THEN m ELSE g[m % n][n]]
      BY <3>2 DEF IsTable
    <3>4. \A i \in 0 .. k - 1 : more[i] = g[i]
      BY <2>2
    <3>5. ASSUME NEW n \in 0 .. k
          PROVE  more[n] = [m \in Nat |-> IF n = 0 THEN m ELSE more[m % n][n]]
      <4>1. \A m \in Nat : n # 0 => m % n \in 0 .. k - 1
        <5>1. \A m \in Nat : n # 0 => m % n \in 0 .. n - 1
          BY Remainder
        <5> QED
          BY <5>1
      <4>2. \A m \in Nat : n # 0 => more[m % n] = g[m % n]
        BY <3>4, <4>1
      <4>3. CASE n = k
        <5>1. more[n] = [m \in Nat |-> g[m % k][k]]
          BY <4>3
        <5> HIDE DEF more
        <5> QED
          BY <2>2, <4>2, <4>3, <5>1
      <4>4. CASE n # k
        <5>1. n \in 0 .. k - 1
          BY <4>4
        <5>2. more[n] = g[n]
          BY <3>4, <5>1
        <5> HIDE DEF more
        <5> QED
          BY <3>3, <4>2, <5>1, <5>2
      <4> QED
        BY <4>3, <4>4
    <3>6. more = [n \in 0 .. k |-> more[n]]
      OBVIOUS
    <3> HIDE DEF more
    <3>7. IsTable(more, k)
      BY <3>5, <3>6 DEF IsTable
    <3> QED
      BY <3>7
  <2> QED
    BY <2>1, <2>2
<1> HIDE DEF C
<1>2. \A k \in Nat : k \in C
  BY <1>1, StrongInduction
<1> QED
  BY <1>2 DEF C

LEMMA TablesAgree ==
  ASSUME NEW g, NEW h, NEW k \in Nat, NEW l \in Nat, k <= l, IsTable(g, k), IsTable(h, l)
  PROVE  \A n \in 0 .. k : g[n] = h[n]
<1> DEFINE C == {n \in Nat : n \in 0 .. k => g[n] = h[n]}
<1>0. /\ \A n \in 0 .. k : g[n] = [m \in Nat |-> IF n = 0 THEN m ELSE g[m % n][n]]
      /\ \A n \in 0 .. l : h[n] = [m \in Nat |-> IF n = 0 THEN m ELSE h[m % n][n]]
  BY DEF IsTable
<1>1. ASSUME NEW n \in Nat, \A i \in 0 .. n - 1 : i \in C PROVE n \in C
  <2>1. CASE n \in 0 .. k
    <3>1. n \in 0 .. l /\ \A i \in 0 .. n - 1 : i \in Nat /\ i \in 0 .. k
      BY <2>1
    <3>2. \A i \in 0 .. n - 1 : g[i] = h[i]
      BY <1>1, <3>1
    <3>3. \A m \in Nat : n # 0 => m % n \in 0 .. n - 1
      BY Remainder
    <3>4. \A m \in Nat : n # 0 => g[m % n] = h[m % n]
      BY <3>2, <3>3
    <3>5. /\ g[n] = [m \in Nat |-> IF n = 0 THEN m ELSE g[m % n][n]]
          /\ h[n] = [m \in Nat |-> IF n = 0 THEN m ELSE h[m % n][n]]
      BY <1>0, <2>1, <3>1
    <3>6. g[n] = h[n]
      BY <3>4, <3>5
    <3> QED
      BY <3>6
  <2> QED
    BY <2>1
<1> HIDE DEF C
<1>2. \A n \in Nat : n \in C
  BY <1>1, StrongInduction
<1> QED
  BY <1>2 DEF C

\* Euclid's algorithm.
LEMMA Euclid ==
  /\ \A m \in Nat : Gcd[0][m] = m
  /\ \A m, n \in Nat : n # 0 => Gcd[n][m] = Gcd[m % n][n]
<1> DEFINE table(k) == CHOOSE g : IsTable(g, k)
           gcd == [n \in Nat |-> table(n)[n]]
<1>1. \A k \in Nat : IsTable(table(k), k)
  BY TableExists
<1>2. ASSUME NEW n \in Nat PROVE gcd[n] = [m \in Nat |-> IF n = 0 THEN m ELSE gcd[m % n][n]]
  <2>1. n \in 0 .. n /\ gcd[n] = table(n)[n]
    OBVIOUS
  <2>2. table(n)[n] = [m \in Nat |-> IF n = 0 THEN m ELSE table(n)[m % n][n]]
    <3>1. IsTable(table(n), n)
      BY <1>1
    <3> HIDE DEF table
    <3> QED
      BY <2>1, <3>1 DEF IsTable
  <2>3. ASSUME NEW i \in 0 .. n PROVE gcd[i] = table(n)[i]
    <3>1. i \in Nat /\ i <= n /\ i \in 0 .. i /\ gcd[i] = table(i)[i]
      OBVIOUS
    <3>2. IsTable(table(i), i) /\ IsTable(table(n), n)
      BY <1>1, <3>1
    <3> HIDE DEF table, gcd
    <3> QED
      BY <3>1, <3>2, TablesAgree
  <2>4. \A m \in Nat : n # 0 => m % n \in 0 .. n
    <3>1. \A m \in Nat : n # 0 => m % n \in 0 .. n - 1
      BY Remainder
    <3> QED
      BY <3>1
  <2>5. \A m \in Nat : n # 0 => gcd[m % n] = table(n)[m % n]
    <3> HIDE DEF table, gcd
    <3> QED
      BY <2>3, <2>4
  <2> HIDE DEF table, gcd
  <2> QED
    BY <2>1, <2>2, <2>5
<1>3. gcd = [n \in Nat |-> gcd[n]]
  OBVIOUS
<1>4. gcd = [n \in Nat |-> [m \in Nat |-> IF n = 0 THEN m ELSE gcd[m % n][n]]]
  <2> HIDE DEF gcd
  <2> QED
    BY <1>2, <1>3
<1>5. Gcd = [n \in Nat |-> [m \in Nat |-> IF n = 0 THEN m ELSE Gcd[m % n][n]]]
  <2> HIDE DEF gcd
  <2> QED
    BY <1>4 DEF Gcd
<1>6. \A n, m \in Nat : Gcd[n][m] = IF n = 0 THEN m ELSE Gcd[m % n][n]
  <2> TAKE n, m \in Nat
  <2>1. Gcd[n] = [q \in Nat |-> IF n = 0 THEN q ELSE Gcd[q % n][n]]
    BY <1>5
  <2> QED
    BY <2>1
<1> QED
  BY <1>6

LEMMA PositiveProduct ==
  ASSUME NEW a \in Nat \ {0}, NEW b \in Nat \ {0}
  PROVE  a * b \in Nat \ {0}
<1>1. (a - 1) * b >= 0 /\ (a - 1) * b = a * b - b
  OBVIOUS
<1> QED
  BY <1>1

LEMMA Ring ==
  ASSUME NEW a \in Int, NEW b \in Int, NEW c \in Int
  PROVE  /\ a * b \in Int /\ a + b \in Int /\ a - b \in Int
         /\ a * b = b * a
         /\ a * (b * c) = (a * b) * c
         /\ a * (b + c) = a * b + a * c
         /\ a * (b - c) = a * b - a * c
  OBVIOUS

LEMMA ExactQuotient ==
  ASSUME NEW a \in Int, NEW g \in Nat \ {0}
  PROVE  (g * a) \div g = a
<1> DEFINE q == (g * a) \div g
           r == (g * a) % g
<1>1. q \in Int /\ r \in Int /\ 0 <= r /\ r < g /\ g * a = g * q + r
  <2>1. g * a \in Int
    OBVIOUS
  <2>2. \A n \in Int : n \div g \in Int /\ n % g \in Int /\ 0 <= n % g /\ n % g < g /\ n = g * (n \div g) + (n % g)
    OBVIOUS
  <2> QED
    BY <2>1, <2>2
<1> HIDE DEF q, r
<1>2. g * (a - q) = r
  BY <1>1
<1>3. a - q \in Int
  BY <1>1
<1>4. \A x \in Int : (x >= 1 => g * x >= g) /\ (x <= -1 => g * x <= -g) /\ (x = 0 \/ x >= 1 \/ x <= -1)
  <2> TAKE x \in Int
  <2>1. x >= 1 => g * (x - 1) >= 0
    OBVIOUS
  <2>2. x <= -1 => g * (-1 - x) >= 0
    OBVIOUS
  <2>3. g * (x - 1) = g * x - g /\ g * (-1 - x) = -g - g * x
    OBVIOUS
  <2> QED
    BY <2>1, <2>2, <2>3
<1>5. a - q = 0
  BY <1>1, <1>2, <1>3, <1>4
<1> QED
  BY <1>1, <1>5 DEF q

LEMMA GcdDivides ==
  \A n, m \in Nat : n # 0 \/ m # 0 =>
    /\ Gcd[n][m] \in Nat \ {0}
    /\ \E a, b \in Nat : m = Gcd[n][m] * a /\ n = Gcd[n][m] * b
<1> DEFINE Divides(n, m) == /\ Gcd[n][m] \in Nat \ {0}
                            /\ \E a, b \in Nat : m = Gcd[n][m] * a /\ n = Gcd[n][m] * b
           C == {n \in Nat : \A m \in Nat : n # 0 \/ m # 0 => Divides(n, m)}
<1>1. ASSUME NEW n \in Nat, \A i \in 0 .. n - 1 : i \in C PROVE n \in C
  <2> SUFFICES ASSUME NEW m \in Nat, n # 0 \/ m # 0 PROVE Divides(n, m)
    OBVIOUS
  <2>1. CASE n = 0
    <3>1. Gcd[n][m] = m /\ m = m * 1 /\ n = m * 0
      BY <2>1, Euclid
    <3> QED
      BY <2>1, <3>1
  <2>2. CASE n # 0
    <3>0. m % n \in 0 .. n - 1 /\ m \div n \in Nat /\ m = n * (m \div n) + (m % n)
      BY <2>2, Remainder
    <3>1. m % n \in 0 .. n - 1 /\ m % n \in Nat /\ m \div n \in Nat /\ m = n * (m \div n) + (m % n)
      <4> DEFINE r == m % n
      <4>1. r \in 0 .. n - 1
        BY <3>0
      <4> HIDE DEF r
      <4>2. r \in Nat
        BY <4>1
      <4> QED
        BY <3>0, <4>2 DEF r
    <3>2. Divides(m % n, n)
      BY <1>1, <2>2, <3>1
    <3>3. Gcd[n][m] = Gcd[m % n][n]
      BY <2>2, Euclid
    <3> DEFINE g == Gcd[n][m]
    <3>4. g \in Nat \ {0} /\ \E a, b \in Nat : n = g * a /\ m % n = g * b
      BY <3>2, <3>3
    <3> HIDE DEF g
    <3>5. PICK a, b \in Nat : n = g * a /\ m % n = g * b
      BY <3>4
    <3> DEFINE q == m \div n
    <3>6. m = g * (a * q + b) /\ a * q + b \in Nat
      <4>1. q \in Nat /\ m = (g * a) * q + g * b
        BY <3>1, <3>5
      <4> HIDE DEF q
      <4> QED
        BY <3>4, <4>1
    <3> QED
      BY <3>4, <3>5, <3>6 DEF g
  <2> QED
    BY <2>1, <2>2
<1> HIDE DEF C
<1>2. \A n \in Nat : n \in C
  BY <1>1, StrongInduction
<1> QED
  BY <1>2 DEF C

LEMMA ScaledRemainder ==
  ASSUME NEW m \in Nat, NEW n \in Nat \ {0}, NEW k \in Nat \ {0}
  PROVE  (k * m) % (k * n) = k * (m % n)
<1> DEFINE q == m \div n
           r == m % n
           d == k * n
           s == k * r
<1>1. q \in Nat /\ r \in 0 .. n - 1 /\ m = n * q + r
  BY Remainder
<1> HIDE DEF q, r
<1>2. d \in Nat \ {0} /\ k * m = d * q + s /\ s \in Nat /\ s < d
  <2>1. d \in Nat \ {0}
    BY PositiveProduct
  <2>2. k * m = (k * n) * q + k * r
    BY <1>1
  <2>3. k * r \in Nat /\ k * r < k * n
    <3>1. n - r \in Nat \ {0} /\ r \in Nat
      BY <1>1
    <3>2. k * (n - r) \in Nat \ {0}
      BY <3>1, PositiveProduct
    <3>3. k * (n - r) = k * n - k * r /\ k * r \in Nat
      BY <3>1
    <3> QED
      BY <3>2, <3>3
  <2> QED
    BY <2>1, <2>2, <2>3
<1> HIDE DEF d, s
<1>3. \A x \in Nat : x % d \in 0 .. d - 1 /\ x \div d \in Nat /\ x = d * (x \div d) + (x % d)
  BY <1>2, Remainder
<1> DEFINE x == k * m
           y == x % d
           z == x \div d
<1>4. x \in Nat /\ y \in Nat /\ y < d /\ z \in Nat /\ x = d * z + y /\ x = d * q + s
  BY <1>2, <1>3
<1>5. y = s
  <2> HIDE DEF x, y, z
  <2>1. d * (q - z) = y - s /\ q - z \in Int
    BY <1>1, <1>2, <1>4
  <2>2. \A t \in Int : (t >= 1 => d * t >= d) /\ (t <= -1 => d * t <= -d) /\ (t = 0 \/ t >= 1 \/ t <= -1)
    <3> TAKE t \in Int
    <3>1. (t >= 1 => d * (t - 1) >= 0) /\ (t <= -1 => d * (-1 - t) >= 0)
      BY <1>2
    <3>2. d * (t - 1) = d * t - d /\ d * (-1 - t) = -d - d * t /\ d * t \in Int
      BY <1>2
    <3> QED
      BY <1>2, <3>1, <3>2
  <2>3. q - z = 0
    BY <1>2, <1>4, <2>1, <2>2
  <2>4. d * 0 = 0
    BY <1>2
  <2> QED
    BY <1>2, <1>4, <2>1, <2>3, <2>4
<1> QED
  BY <1>5 DEF d, s, r

LEMMA GcdScales ==
  ASSUME NEW k \in Nat \ {0}
  PROVE  \A n, m \in Nat : Gcd[k * n][k * m] = k * Gcd[n][m]
<1> DEFINE C == {n \in Nat : \A m \in Nat : Gcd[k * n][k * m] = k * Gcd[n][m]}
<1>1. ASSUME NEW n \in Nat, \A i \in 0 .. n - 1 : i \in C PROVE n \in C
  <2> SUFFICES ASSUME NEW m \in Nat PROVE Gcd[k * n][k * m] = k * Gcd[n][m]
    OBVIOUS
  <2>1. CASE n = 0
    <3>1. k * n = 0 /\ k * m \in Nat
      BY <2>1
    <3>2. Gcd[k * n][k * m] = k * m /\ Gcd[n][m] = m
      BY <2>1, <3>1, Euclid
    <3> QED
      BY <3>2
  <2>2. CASE n # 0
    <3>1. k * n \in Nat \ {0} /\ k * m \in Nat
      BY <2>2, PositiveProduct
    <3>2. Gcd[k * n][k * m] = Gcd[(k * m) % (k * n)][k * n]
      BY <3>1, Euclid
    <3>3. (k * m) % (k * n) = k * (m % n)
      BY <2>2, ScaledRemainder
    <3>4. m % n \in 0 .. n - 1
      BY <2>2, Remainder
    <3>5. Gcd[k * (m % n)][k * n] = k * Gcd[m % n][n]
      BY <1>1, <3>4
    <3>6. Gcd[n][m] = Gcd[m % n][n]
      BY <2>2, Euclid
    <3> QED
      BY <3>2, <3>3, <3>5, <3>6
  <2> QED
    BY <2>1, <2>2
<1> HIDE DEF C
<1>2. \A n \in Nat : n \in C
  BY <1>1, StrongInduction
<1> QED
  BY <1>2 DEF C

-----------------------------------------------------------------------------
(* Fractions                                                                *)

Fraction == {Lowest(n, d) : n \in Int, d \in Nat \ {0}}

LEMMA LowestByGcd ==
  ASSUME NEW n \in Int, NEW d \in Nat \ {0}
  PROVE  LET g == Gcd[d][Abs(n)] IN Lowest(n, d) = <<n \div g, d \div g>>
<1>1. Abs(n) \in Nat /\ Abs(d) = d /\ ~(d < 0)
  BY DEF Abs
<1>2. CASE d = 1
  <2>1. Abs(n) % 1 = 0
    BY <1>1
  <2>2. Gcd[1][Abs(n)] = Gcd[Abs(n) % 1][1]
    <3>1. 1 \in Nat /\ 1 # 0
      OBVIOUS
    <3> QED
      BY <1>1, <3>1, Euclid
  <2>3. Gcd[0][1] = 1
    BY Euclid
  <2>4. n \div 1 = n /\ 1 \div 1 = 1
    OBVIOUS
  <2> QED
    BY <1>2, <2>1, <2>2, <2>3, <2>4 DEF Lowest
<1>3. CASE d # 1
  BY <1>1, <1>3 DEF Lowest
<1> QED
  BY <1>2, <1>3

\* A fraction in lowest terms is what the greatest common divisor leaves.
LEMMA LowestDivides ==
  ASSUME NEW n \in Int, NEW d \in Nat \ {0}
  PROVE  \E g \in Nat \ {0}, a \in Int, b \in Nat \ {0} :
           n = g * a /\ d = g * b /\ g = Gcd[d][Abs(n)] /\ Lowest(n, d) = <<a, b>>
<1> DEFINE g == Gcd[d][Abs(n)]
<1>1. Abs(n) \in Nat /\ (n = Abs(n) \/ n = -Abs(n))
  BY DEF Abs
<1>2. g \in Nat \ {0} /\ \E a, b \in Nat : Abs(n) = g * a /\ d = g * b
  BY <1>1, GcdDivides
<1>3. Lowest(n, d) = <<n \div g, d \div g>>
  BY LowestByGcd
<1> HIDE DEF g
<1>4. PICK c, b \in Nat : Abs(n) = g * c /\ d = g * b
  BY <1>2
<1>5. PICK a \in Int : n = g * a
  <2>1. n = g * c \/ n = g * (-c)
    BY <1>1, <1>2, <1>4
  <2>2. c \in Int /\ -c \in Int
    OBVIOUS
  <2> QED
    BY <2>1, <2>2
<1>6. b # 0
  <2>1. g * 0 = 0
    BY <1>2
  <2> QED
    BY <1>4, <2>1
<1>7. n \div g = a /\ d \div g = b
  BY <1>2, <1>4, <1>5, ExactQuotient
<1> QED
  BY <1>2, <1>3, <1>4, <1>5, <1>6, <1>7 DEF g

LEMMA LowestScales ==
  ASSUME NEW n \in Int, NEW d \in Nat \ {0}, NEW k \in Nat \ {0}
  PROVE  Lowest(k * n, k * d) = Lowest(n, d)
<1>1. PICK g \in Nat \ {0}, a \in Int, b \in Nat \ {0} :
        n = g * a /\ d = g * b /\ g = Gcd[d][Abs(n)] /\ Lowest(n, d) = <<a, b>>
  BY LowestDivides
<1>2. k * n \in Int /\ k * d \in Nat \ {0}
  BY PositiveProduct
<1>3. Abs(k * n) = k * Abs(n) /\ Abs(n) \in Nat
  <2>1. n < 0 => k * (-n) \in Nat \ {0}
    BY PositiveProduct
  <2>2. n >= 0 => k * n \in Nat
    OBVIOUS
  <2>3. k * (-n) = -(k * n)
    OBVIOUS
  <2> QED
    BY <2>1, <2>2, <2>3, <1>2 DEF Abs
<1>4. Gcd[k * d][Abs(k * n)] = k * g
  <2>1. Gcd[k * d][k * Abs(n)] = k * Gcd[d][Abs(n)]
    BY <1>3, GcdScales
  <2> QED
    BY <1>1, <1>3, <2>1
<1>5. Lowest(k * n, k * d) = <<(k * n) \div (k * g), (k * d) \div (k * g)>>
  BY <1>2, <1>4, LowestByGcd
<1>6. k * g \in Nat \ {0} /\ k * n = (k * g) * a /\ k * d = (k * g) * b
  <2>1. k * g \in Nat \ {0}
    BY PositiveProduct
  <2>2. k * (g * a) = (k * g) * a /\ k * (g * b) = (k * g) * b
    OBVIOUS
  <2> QED
    BY <1>1, <2>1, <2>2
<1>7. (k * n) \div (k * g) = a /\ (k * d) \div (k * g) = b
  BY <1>6, ExactQuotient
<1> QED
  BY <1>1, <1>5, <1>7

\* Fractions of the same value are the same.
LEMMA SameValue ==
  ASSUME NEW n \in Int, NEW d \in Nat \ {0}, NEW m \in Int, NEW e \in Nat \ {0}, n * e = m * d
  PROVE  Lowest(n, d) = Lowest(m, e)
<1>1. Lowest(e * n, e * d) = Lowest(n, d) /\ Lowest(d * m, d * e) = Lowest(m, e)
  BY LowestScales
<1>2. e * n = d * m /\ e * d = d * e
  OBVIOUS
<1> QED
  BY <1>1, <1>2

\* The terms of a fraction, up to a common factor.
LEMMA Terms ==
  ASSUME NEW n \in Int, NEW d \in Nat \ {0}
  PROVE  \E a \in Int, b \in Nat \ {0}, g \in Nat \ {0} :
           Lowest(n, d) = <<a, b>> /\ n = g * a /\ d = g * b
<1>1. PICK g \in Nat \ {0}, a \in Int, b \in Nat \ {0} :
        n = g * a /\ d = g * b /\ g = Gcd[d][Abs(n)] /\ Lowest(n, d) = <<a, b>>
  BY LowestDivides
<1> QED
  BY <1>1

LEMMA Added ==
  ASSUME NEW n \in Int, NEW m \in Int, NEW d \in Nat \ {0}
  PROVE  /\ Lowest(n, d) (+) Lowest(m, d) = Lowest(n + m, d)
         /\ Lowest(n, d) (-) Lowest(m, d) = Lowest(n - m, d)
<1>1. PICK a \in Int, b \in Nat \ {0}, g \in Nat \ {0} :
        Lowest(n, d) = <<a, b>> /\ n = g * a /\ d = g * b
  BY Terms
<1>2. PICK p \in Int, q \in Nat \ {0}, h \in Nat \ {0} :
        Lowest(m, d) = <<p, q>> /\ m = h * p /\ d = h * q
  BY Terms
<1>3. b * q \in Nat \ {0}
  BY PositiveProduct
<1>4. a * d = n * b /\ p * d = m * q
  BY <1>1, <1>2
<1>5. (a * q) * d = n * (b * q) /\ (p * b) * d = m * (b * q)
  BY <1>4
<1>6. (a * q + p * b) * d = (n + m) * (b * q) /\ (a * q - p * b) * d = (n - m) * (b * q)
  BY <1>5
<1>7. a * q + p * b \in Int /\ a * q - p * b \in Int /\ n + m \in Int /\ n - m \in Int
  OBVIOUS
<1>8. Lowest(a * q + p * b, b * q) = Lowest(n + m, d) /\ Lowest(a * q - p * b, b * q) = Lowest(n - m, d)
  BY <1>3, <1>6, <1>7, SameValue
<1> QED
  BY <1>1, <1>2, <1>8 DEF (+), (-)

LEMMA Multiplied ==
  ASSUME NEW n \in Int, NEW d \in Nat \ {0}, NEW m \in Int, NEW e \in Nat \ {0}
  PROVE  Lowest(n, d) (.) Lowest(m, e) = Lowest(n * m, d * e)
<1>1. PICK a \in Int, b \in Nat \ {0}, g \in Nat \ {0} :
        Lowest(n, d) = <<a, b>> /\ n = g * a /\ d = g * b
  BY Terms
<1>2. PICK p \in Int, q \in Nat \ {0}, h \in Nat \ {0} :
        Lowest(m, e) = <<p, q>> /\ m = h * p /\ e = h * q
  BY Terms
<1>3. b * q \in Nat \ {0} /\ g * h \in Nat \ {0} /\ a * p \in Int
  BY PositiveProduct
<1>4. n * m = (g * h) * (a * p) /\ d * e = (g * h) * (b * q)
  BY <1>1, <1>2
<1>5. Lowest(n * m, d * e) = Lowest(a * p, b * q)
  <2> DEFINE k == g * h
             x == a * p
             y == b * q
  <2> HIDE DEF k, x, y
  <2>1. k \in Nat \ {0} /\ x \in Int /\ y \in Nat \ {0}
    BY <1>3 DEF k, x, y
  <2>2. Lowest(k * x, k * y) = Lowest(x, y)
    BY <2>1, LowestScales
  <2> QED
    BY <1>4, <2>2 DEF k, x, y
<1> QED
  BY <1>1, <1>2, <1>5 DEF (.)

LEMMA Divided ==
  ASSUME NEW n \in Int, NEW d \in Nat \ {0}, NEW m \in Nat \ {0}, NEW e \in Nat \ {0}
  PROVE  Lowest(n, d) (/) Lowest(m, e) = Lowest(n * e, d * m)
<1>1. PICK a \in Int, b \in Nat \ {0}, g \in Nat \ {0} :
        Lowest(n, d) = <<a, b>> /\ n = g * a /\ d = g * b
  BY Terms
<1>2. PICK p \in Int, q \in Nat \ {0}, h \in Nat \ {0} :
        Lowest(m, e) = <<p, q>> /\ m = h * p /\ e = h * q
  <2>1. m \in Int
    OBVIOUS
  <2> QED
    BY <2>1, Terms
<1>3. p \in Nat \ {0}
  <2>1. p <= 0 => h * (-p) >= 0
    OBVIOUS
  <2>2. h * (-p) = -(h * p)
    OBVIOUS
  <2> QED
    BY <1>2, <2>1, <2>2
<1>4. b * p \in Nat \ {0} /\ g * h \in Nat \ {0} /\ a * q \in Int
  BY <1>3, PositiveProduct
<1>5. n * e = (g * h) * (a * q) /\ d * m = (g * h) * (b * p)
  BY <1>1, <1>2
<1>6. Lowest(n * e, d * m) = Lowest(a * q, b * p)
  <2> DEFINE k == g * h
             x == a * q
             y == b * p
  <2> HIDE DEF k, x, y
  <2>1. k \in Nat \ {0} /\ x \in Int /\ y \in Nat \ {0}
    BY <1>4 DEF k, x, y
  <2>2. Lowest(k * x, k * y) = Lowest(x, y)
    BY <2>1, LowestScales
  <2> QED
    BY <1>5, <2>2 DEF k, x, y
<1> QED
  BY <1>1, <1>2, <1>6 DEF (/)

LEMMA Compared ==
  ASSUME NEW n \in Int, NEW d \in Nat \ {0}, NEW m \in Int, NEW e \in Nat \ {0}
  PROVE  Lowest(n, d) \preceq Lowest(m, e) <=> n * e <= m * d
<1>1. PICK a \in Int, b \in Nat \ {0}, g \in Nat \ {0} :
        Lowest(n, d) = <<a, b>> /\ n = g * a /\ d = g * b
  BY Terms
<1>2. PICK p \in Int, q \in Nat \ {0}, h \in Nat \ {0} :
        Lowest(m, e) = <<p, q>> /\ m = h * p /\ e = h * q
  BY Terms
<1> DEFINE x == p * b - a * q
           k == g * h
<1>3. k \in Nat \ {0} /\ x \in Int
  BY PositiveProduct
<1>4. m * d - n * e = k * x
  BY <1>1, <1>2
<1>5. Lowest(n, d) \preceq Lowest(m, e) <=> x >= 0
  BY <1>1, <1>2 DEF \preceq
<1>6. k * x >= 0 <=> x >= 0
  <2> HIDE DEF k, x
  <2>1. x >= 0 => k * x >= 0
    BY <1>3
  <2>2. x < 0 => k * (-x) \in Nat \ {0}
    BY <1>3, PositiveProduct
  <2>3. k * (-x) = -(k * x) /\ k * x \in Int
    BY <1>3
  <2> QED
    BY <1>3, <2>1, <2>2, <2>3
<1>7. m * d \in Int /\ n * e \in Int
  OBVIOUS
<1> QED
  BY <1>4, <1>5, <1>6, <1>7

Positive == {Lowest(n, d) : n \in Nat \ {0}, d \in Nat \ {0}}

One == Whole(1)

Reciprocal(a) == One (/) a

LEMMA WholeIsFraction ==
  ASSUME NEW n \in Int
  PROVE  /\ Whole(n) = Lowest(n, 1) /\ Whole(n) \in Fraction
         /\ n > 0 => Whole(n) \in Positive
<1>1. Whole(n) = Lowest(n, 1)
  BY DEF Whole, Lowest
<1> QED
  BY <1>1 DEF Fraction, Positive

LEMMA PositiveIsFraction == Positive \subseteq Fraction
  BY DEF Positive, Fraction

LEMMA FractionTerms ==
  ASSUME NEW a \in Fraction
  PROVE  /\ a = Lowest(a[1], a[2]) /\ a[1] \in Int /\ a[2] \in Nat \ {0}
         /\ a[1] > 0 => a \in Positive
<1>1. PICK n \in Int, d \in Nat \ {0} : a = Lowest(n, d)
  BY DEF Fraction
<1>2. PICK p \in Int, q \in Nat \ {0}, g \in Nat \ {0} :
        Lowest(n, d) = <<p, q>> /\ n = g * p /\ d = g * q
  BY Terms
<1>3. a[1] = p /\ a[2] = q
  BY <1>1, <1>2
<1>4. Lowest(p, q) = a
  BY <1>1, <1>2, LowestScales
<1> QED
  BY <1>3, <1>4 DEF Positive

LEMMA PositiveTerms ==
  ASSUME NEW a \in Positive
  PROVE  a[1] \in Nat \ {0}
<1>1. PICK n \in Nat \ {0}, d \in Nat \ {0} : a = Lowest(n, d)
  BY DEF Positive
<1>2. n \in Int
  OBVIOUS
<1>3. PICK p \in Int, q \in Nat \ {0}, g \in Nat \ {0} :
        Lowest(n, d) = <<p, q>> /\ n = g * p /\ d = g * q
  BY <1>2, Terms
<1>4. p <= 0 => g * (-p) >= 0
  OBVIOUS
<1>5. g * (-p) = -(g * p)
  OBVIOUS
<1>6. p > 0
  BY <1>3, <1>4, <1>5
<1> QED
  BY <1>1, <1>3, <1>6

-----------------------------------------------------------------------------
(* The laws of addition, over a shared denominator                          *)

LEMMA Scaled ==
  ASSUME NEW a \in Fraction, NEW k \in Nat \ {0}, NEW d \in Nat \ {0}, d = a[2] * k
  PROVE  \E n \in Int : a = Lowest(n, d)
<1>1. a = Lowest(a[1], a[2]) /\ a[1] \in Int /\ a[2] \in Nat \ {0}
  BY FractionTerms
<1>2. Lowest(k * a[1], k * a[2]) = a
  BY <1>1, LowestScales
<1>3. k * a[2] = d /\ k * a[1] \in Int
  BY <1>1
<1> QED
  BY <1>2, <1>3

ShareDenominator(a, b, c) ==
  \E d \in Nat \ {0} : \E n, m, k \in Int :
    a = Lowest(n, d) /\ b = Lowest(m, d) /\ c = Lowest(k, d)

LEMMA Shared ==
  ASSUME NEW a \in Fraction, NEW b \in Fraction, NEW c \in Fraction
  PROVE  ShareDenominator(a, b, c)
<1> DEFINE p == a[2]
           q == b[2]
           r == c[2]
           d == p * (q * r)
<1>1. p \in Nat \ {0} /\ q \in Nat \ {0} /\ r \in Nat \ {0}
  BY FractionTerms
<1>2. q * r \in Nat \ {0} /\ p * r \in Nat \ {0} /\ p * q \in Nat \ {0}
  <2> HIDE DEF p, q, r
  <2> QED
    BY <1>1, PositiveProduct
<1>3. d \in Nat \ {0} /\ d = p * (q * r) /\ d = q * (p * r) /\ d = r * (p * q)
  <2> HIDE DEF p, q, r
  <2>1. p * (q * r) \in Nat \ {0}
    BY <1>1, <1>2, PositiveProduct
  <2>2. p * (q * r) = q * (p * r) /\ p * (q * r) = r * (p * q)
    BY <1>1
  <2> QED
    BY <2>1, <2>2
<1> HIDE DEF d
<1>4. \E n \in Int : a = Lowest(n, d)
  BY <1>2, <1>3, Scaled
<1>5. \E n \in Int : b = Lowest(n, d)
  BY <1>2, <1>3, Scaled
<1>6. \E n \in Int : c = Lowest(n, d)
  BY <1>2, <1>3, Scaled
<1> QED
  BY <1>3, <1>4, <1>5, <1>6 DEF ShareDenominator

LEMMA SumIsFraction ==
  ASSUME NEW a \in Fraction, NEW b \in Fraction
  PROVE  a (+) b \in Fraction /\ a (-) b \in Fraction
<1>0. ShareDenominator(a, b, b)
  BY Shared
<1>1. PICK d \in Nat \ {0} : \E n, m, k \in Int :
        a = Lowest(n, d) /\ b = Lowest(m, d) /\ b = Lowest(k, d)
  BY <1>0 DEF ShareDenominator
<1>2. PICK n, m \in Int : a = Lowest(n, d) /\ b = Lowest(m, d)
  BY <1>1
<1>3. a (+) b = Lowest(n + m, d) /\ a (-) b = Lowest(n - m, d)
  BY <1>2, Added
<1>4. n + m \in Int /\ n - m \in Int
  OBVIOUS
<1> QED
  BY <1>3, <1>4 DEF Fraction

\* Moving by g - (s + p) takes what was at s + p to g.
LEMMA Moved ==
  ASSUME NEW s \in Fraction, NEW p \in Fraction, NEW g \in Fraction
  PROVE  /\ (s (+) p) (-) s = p
         /\ (g (-) p) (+) p = g
         /\ (s (+) (g (-) (s (+) p))) (+) p = g
<1>0. ShareDenominator(s, p, g)
  BY Shared
<1>1. PICK d \in Nat \ {0} : \E n, m, k \in Int :
        s = Lowest(n, d) /\ p = Lowest(m, d) /\ g = Lowest(k, d)
  BY <1>0 DEF ShareDenominator
<1>2. PICK n, m, k \in Int : s = Lowest(n, d) /\ p = Lowest(m, d) /\ g = Lowest(k, d)
  BY <1>1
<1>3. \A x, y \in Int : /\ Lowest(x, d) (+) Lowest(y, d) = Lowest(x + y, d)
                        /\ Lowest(x, d) (-) Lowest(y, d) = Lowest(x - y, d)
                        /\ x + y \in Int /\ x - y \in Int
  BY Added
<1>4. s (+) p = Lowest(n + m, d)
  BY <1>2, <1>3
<1>5. (s (+) p) (-) s = p
  <2>1. (s (+) p) (-) s = Lowest((n + m) - n, d)
    BY <1>2, <1>3, <1>4
  <2>2. (n + m) - n = m
    OBVIOUS
  <2> QED
    BY <1>2, <2>1, <2>2
<1>6. (g (-) p) (+) p = g
  <2>1. (g (-) p) (+) p = Lowest((k - m) + m, d)
    BY <1>2, <1>3
  <2>2. (k - m) + m = k
    OBVIOUS
  <2> QED
    BY <1>2, <2>1, <2>2
<1>7. (s (+) (g (-) (s (+) p))) (+) p = g
  <2>1. g (-) (s (+) p) = Lowest(k - (n + m), d)
    BY <1>2, <1>3, <1>4
  <2>2. s (+) (g (-) (s (+) p)) = Lowest(n + (k - (n + m)), d)
    BY <1>2, <1>3, <2>1
  <2>3. n + (k - (n + m)) = k - m /\ k - m \in Int
    OBVIOUS
  <2>4. (s (+) (g (-) (s (+) p))) (+) p = Lowest((k - m) + m, d)
    BY <1>2, <1>3, <2>2, <2>3
  <2>5. (k - m) + m = k
    OBVIOUS
  <2> QED
    BY <1>2, <2>4, <2>5
<1> QED
  BY <1>5, <1>6, <1>7

-----------------------------------------------------------------------------
(* The laws of multiplication                                               *)

LEMMA ProductIsFraction ==
  ASSUME NEW a \in Fraction, NEW b \in Fraction
  PROVE  /\ a (.) b \in Fraction
         /\ a \in Positive /\ b \in Positive => a (.) b \in Positive
<1> DEFINE n == a[1]
           d == a[2]
           m == b[1]
           e == b[2]
<1>1. /\ a = Lowest(n, d) /\ n \in Int /\ d \in Nat \ {0}
      /\ b = Lowest(m, e) /\ m \in Int /\ e \in Nat \ {0}
  BY FractionTerms
<1>2. a \in Positive /\ b \in Positive => n \in Nat \ {0} /\ m \in Nat \ {0}
  BY PositiveTerms
<1> HIDE DEF n, d, m, e
<1>3. a (.) b = Lowest(n * m, d * e)
  BY <1>1, Multiplied
<1>4. n * m \in Int /\ d * e \in Nat \ {0}
  BY <1>1, PositiveProduct
<1>5. a \in Positive /\ b \in Positive => n * m \in Nat \ {0}
  BY <1>2, PositiveProduct
<1> QED
  BY <1>3, <1>4, <1>5 DEF Fraction, Positive

LEMMA Commutes ==
  ASSUME NEW a \in Fraction, NEW b \in Fraction
  PROVE  a (.) b = b (.) a
<1>1. a[1] \in Int /\ a[2] \in Int /\ b[1] \in Int /\ b[2] \in Int
  BY FractionTerms
<1>2. a[1] * b[1] = b[1] * a[1] /\ a[2] * b[2] = b[2] * a[2]
  BY <1>1
<1> QED
  BY <1>2 DEF (.)

LEMMA Associates ==
  ASSUME NEW a \in Fraction, NEW b \in Fraction, NEW c \in Fraction
  PROVE  (a (.) b) (.) c = a (.) (b (.) c)
<1> DEFINE n1 == a[1]
           d1 == a[2]
           n2 == b[1]
           d2 == b[2]
           n3 == c[1]
           d3 == c[2]
<1>1. /\ a = Lowest(n1, d1) /\ n1 \in Int /\ d1 \in Nat \ {0}
      /\ b = Lowest(n2, d2) /\ n2 \in Int /\ d2 \in Nat \ {0}
      /\ c = Lowest(n3, d3) /\ n3 \in Int /\ d3 \in Nat \ {0}
  BY FractionTerms
<1> HIDE DEF n1, d1, n2, d2, n3, d3
<1>2. /\ n1 * n2 \in Int /\ d1 * d2 \in Nat \ {0}
      /\ n2 * n3 \in Int /\ d2 * d3 \in Nat \ {0}
  BY <1>1, PositiveProduct
<1>3. a (.) b = Lowest(n1 * n2, d1 * d2) /\ b (.) c = Lowest(n2 * n3, d2 * d3)
  BY <1>1, Multiplied
<1>4. (a (.) b) (.) c = Lowest((n1 * n2) * n3, (d1 * d2) * d3)
  BY <1>1, <1>2, <1>3, Multiplied
<1>5. a (.) (b (.) c) = Lowest(n1 * (n2 * n3), d1 * (d2 * d3))
  BY <1>1, <1>2, <1>3, Multiplied
<1>6. (n1 * n2) * n3 = n1 * (n2 * n3) /\ (d1 * d2) * d3 = d1 * (d2 * d3)
  BY <1>1
<1> QED
  BY <1>4, <1>5, <1>6

LEMMA DividesByReciprocal ==
  ASSUME NEW a \in Fraction, NEW b \in Positive
  PROVE  /\ Reciprocal(b) \in Positive
         /\ a (/) b = a (.) Reciprocal(b)
         /\ b (.) Reciprocal(b) = One
         /\ a (.) One = a
<1> DEFINE n == a[1]
           d == a[2]
           m == b[1]
           e == b[2]
<1>1. /\ a = Lowest(n, d) /\ n \in Int /\ d \in Nat \ {0}
      /\ b = Lowest(m, e) /\ m \in Nat \ {0} /\ e \in Nat \ {0}
  <2>1. b \in Fraction
    BY PositiveIsFraction
  <2> QED
    BY <2>1, FractionTerms, PositiveTerms
<1> HIDE DEF n, d, m, e
<1>2. One = Lowest(1, 1)
  BY WholeIsFraction DEF One
<1>3. Reciprocal(b) = Lowest(e, m)
  <2>1. Reciprocal(b) = Lowest(1 * e, 1 * m)
    BY <1>1, <1>2, Divided DEF Reciprocal
  <2>2. 1 * e = e /\ 1 * m = m
    BY <1>1
  <2> QED
    BY <2>1, <2>2
<1>4. a (/) b = Lowest(n * e, d * m)
  BY <1>1, Divided
<1>5. e \in Int /\ m \in Int
  BY <1>1
<1>6. a (.) Reciprocal(b) = Lowest(n * e, d * m)
  BY <1>1, <1>3, <1>5, Multiplied
<1>7. b (.) Reciprocal(b) = One
  <2>1. b (.) Reciprocal(b) = Lowest(m * e, e * m)
    BY <1>1, <1>3, <1>5, Multiplied
  <2> DEFINE k == m * e
  <2>2. k \in Nat \ {0} /\ e * m = k
    BY <1>1, PositiveProduct
  <2> HIDE DEF k
  <2>3. Lowest(k * 1, k * 1) = Lowest(1, 1) /\ k * 1 = k
    BY <2>2, LowestScales
  <2> QED
    BY <1>2, <2>1, <2>2, <2>3 DEF k
<1>8. a (.) One = a
  <2>1. a (.) One = Lowest(n * 1, d * 1)
    BY <1>1, <1>2, Multiplied
  <2>2. n * 1 = n /\ d * 1 = d
    BY <1>1
  <2> QED
    BY <1>1, <2>1, <2>2
<1> QED
  BY <1>1, <1>3, <1>4, <1>6, <1>7, <1>8 DEF Positive

LEMMA QuotientIsFraction ==
  ASSUME NEW a \in Fraction, NEW b \in Positive
  PROVE  /\ a (/) b \in Fraction
         /\ a \in Positive => a (/) b \in Positive
<1>1. Reciprocal(b) \in Positive /\ Reciprocal(b) \in Fraction /\ a (/) b = a (.) Reciprocal(b)
  BY DividesByReciprocal, PositiveIsFraction
<1> QED
  BY <1>1, ProductIsFraction

LEMMA Swap ==
  ASSUME NEW a \in Fraction, NEW b \in Fraction, NEW c \in Fraction
  PROVE  (a (.) b) (.) c = (a (.) c) (.) b
<1>1. (a (.) b) (.) c = a (.) (b (.) c)
  BY Associates
<1>2. b (.) c = c (.) b
  BY Commutes
<1>3. a (.) (c (.) b) = (a (.) c) (.) b
  BY Associates
<1> QED
  BY <1>1, <1>2, <1>3

\* A part w / b grows with w.
LEMMA PartGrows ==
  ASSUME NEW w \in Fraction, NEW b \in Positive, NEW r \in Fraction
  PROVE  (w (/) b) (.) r = (w (.) r) (/) b
<1>1. Reciprocal(b) \in Fraction /\ w (.) r \in Fraction
  BY DividesByReciprocal, PositiveIsFraction, ProductIsFraction
<1>2. w (/) b = w (.) Reciprocal(b) /\ (w (.) r) (/) b = (w (.) r) (.) Reciprocal(b)
  BY <1>1, DividesByReciprocal
<1> QED
  BY <1>1, <1>2, Swap

\* And so does the share h of it.
LEMMA ShareGrows ==
  ASSUME NEW h \in Fraction, NEW w \in Fraction, NEW b \in Positive, NEW r \in Fraction
  PROVE  ((h (.) w) (/) b) (.) r = (h (.) (w (.) r)) (/) b
<1>1. h (.) w \in Fraction
  BY ProductIsFraction
<1>2. ((h (.) w) (/) b) (.) r = ((h (.) w) (.) r) (/) b
  BY <1>1, PartGrows
<1>3. (h (.) w) (.) r = h (.) (w (.) r)
  BY Associates
<1> QED
  BY <1>2, <1>3

LEMMA Cancels ==
  ASSUME NEW w \in Positive, NEW v \in Fraction
  PROVE  w (.) (v (/) w) = v
<1>1. w \in Fraction /\ Reciprocal(w) \in Fraction /\ v (/) w = v (.) Reciprocal(w)
      /\ w (.) Reciprocal(w) = One /\ v (.) One = v
  BY DividesByReciprocal, PositiveIsFraction
<1>2. w (.) (v (.) Reciprocal(w)) = (w (.) v) (.) Reciprocal(w)
  BY <1>1, Associates
<1>3. w (.) v = v (.) w
  BY <1>1, Commutes
<1>4. (v (.) w) (.) Reciprocal(w) = v (.) (w (.) Reciprocal(w))
  BY <1>1, Associates
<1> QED
  BY <1>1, <1>2, <1>3, <1>4

\* The share of the width a point lies at does not depend on the width.
LEMMA ShareKept ==
  ASSUME NEW h \in Fraction, NEW w \in Positive, NEW b \in Positive, NEW v \in Fraction
  PROVE  (((h (.) w) (/) b) (/) w) (.) v = (h (.) v) (/) b
<1> DEFINE i == Reciprocal(b)
           j == Reciprocal(w)
<1>1. i \in Fraction /\ j \in Fraction /\ w \in Fraction /\ h (.) w \in Fraction
  BY DividesByReciprocal, PositiveIsFraction, ProductIsFraction
<1>2. (h (.) w) (/) b = (h (.) w) (.) i
  BY <1>1, DividesByReciprocal
<1>3. (h (.) w) (.) i \in Fraction
  BY <1>1, ProductIsFraction
<1>4. ((h (.) w) (/) b) (/) w = ((h (.) w) (.) i) (.) j
  BY <1>2, <1>3, DividesByReciprocal
<1>5. ((h (.) w) (.) i) (.) j = ((h (.) w) (.) j) (.) i
  <2> HIDE DEF i, j
  <2> QED
    BY <1>1, Swap
<1>6. (h (.) w) (.) j = h
  <2>1. (h (.) w) (.) j = h (.) (w (.) j)
    BY <1>1, Associates
  <2>2. w (.) j = One /\ h (.) One = h
    BY DividesByReciprocal
  <2> QED
    BY <2>1, <2>2
<1>7. ((h (.) w) (/) b) (/) w = h (/) b
  <2>1. h (/) b = h (.) i
    BY DividesByReciprocal
  <2> QED
    BY <1>4, <1>5, <1>6, <2>1
<1> QED
  BY <1>7, PartGrows

-----------------------------------------------------------------------------
(* The bounds of the zoom                                                   *)

NarrowestWidth == BaseWidth (/) MaxScale
WidestWidth == BaseWidth (/) MinScale

LEMMA BaseIsPositive ==
  /\ BaseWidth \in Positive /\ BaseHeight \in Positive
  /\ BaseWidth = Lowest(Base.width, 1) /\ BaseHeight = Lowest(Base.height, 1)
  /\ Base.width \in Nat \ {0} /\ Base.height \in Nat \ {0}
<1>1. Base.width \in Nat \ {0} /\ Base.height \in Nat \ {0}
  BY ViewportAssumption
<1>2. Base.width \in Int /\ Base.height \in Int /\ Base.width > 0 /\ Base.height > 0
  BY <1>1
<1> QED
  BY <1>1, <1>2, WholeIsFraction DEF BaseWidth, BaseHeight

LEMMA ScaleTerms ==
  /\ MinScale = Lowest(3, 20) /\ MaxScale = Lowest(6, 1)
  /\ <<13, 10>> = Lowest(13, 10) /\ <<10, 13>> = Lowest(10, 13)
<1>1. \A m, n, k \in Nat : n # 0 /\ m % n = k => Gcd[n][m] = Gcd[k][n]
  BY Euclid
<1>2. Gcd[0][1] = 1
  BY Euclid
<1>3. Gcd[1][2] = 1 /\ Gcd[1][3] = 1
  <2>1. 2 % 1 = 0 /\ 3 % 1 = 0
    OBVIOUS
  <2> QED
    BY <1>1, <1>2, <2>1
<1>4. Gcd[2][3] = 1 /\ Gcd[3][10] = 1
  <2>1. 3 % 2 = 1 /\ 10 % 3 = 1
    OBVIOUS
  <2> QED
    BY <1>1, <1>3, <2>1
<1>5. Gcd[3][20] = 1 /\ Gcd[10][13] = 1
  <2>1. 20 % 3 = 2 /\ 13 % 10 = 3
    OBVIOUS
  <2> QED
    BY <1>1, <1>4, <2>1
<1>6. Gcd[20][3] = 1 /\ Gcd[13][10] = 1
  <2>1. 3 % 20 = 3 /\ 10 % 13 = 10
    OBVIOUS
  <2> QED
    BY <1>1, <1>5, <2>1
<1>7. Abs(3) = 3 /\ Abs(10) = 10 /\ Abs(13) = 13
  BY DEF Abs
<1>8. \A n \in Int : n \div 1 = n
  OBVIOUS
<1>9. Lowest(3, 20) = <<3, 20>>
  <2>1. Lowest(3, 20) = <<3 \div 1, 20 \div 1>>
    BY <1>6, <1>7, LowestByGcd
  <2> QED
    BY <1>8, <2>1
<1>10. Lowest(13, 10) = <<13, 10>>
  <2>1. Lowest(13, 10) = <<13 \div 1, 10 \div 1>>
    BY <1>5, <1>7, LowestByGcd
  <2> QED
    BY <1>8, <2>1
<1>11. Lowest(10, 13) = <<10, 13>>
  <2>1. Lowest(10, 13) = <<10 \div 1, 13 \div 1>>
    BY <1>6, <1>7, LowestByGcd
  <2> QED
    BY <1>8, <2>1
<1>12. MaxScale = Lowest(6, 1)
  BY WholeIsFraction DEF MaxScale
<1> QED
  BY <1>9, <1>10, <1>11, <1>12 DEF MinScale

LEMMA BoundTerms ==
  /\ NarrowestWidth = Lowest(Base.width, 6)
  /\ WidestWidth = Lowest(Base.width * 20, 3)
  /\ NarrowestWidth \in Positive /\ WidestWidth \in Positive
  /\ NarrowestWidth \preceq WidestWidth
  /\ NarrowestWidth \preceq BaseWidth /\ BaseWidth \preceq WidestWidth
<1> DEFINE w == Base.width
<1>1. w \in Nat \ {0} /\ BaseWidth = Lowest(w, 1)
  BY BaseIsPositive
<1> HIDE DEF w
<1>2. NarrowestWidth = Lowest(w, 6)
  <2>1. NarrowestWidth = Lowest(w * 1, 1 * 6)
    BY <1>1, ScaleTerms, Divided DEF NarrowestWidth
  <2>2. w * 1 = w
    BY <1>1
  <2> QED
    BY <2>1, <2>2
<1>3. WidestWidth = Lowest(w * 20, 3)
  BY <1>1, ScaleTerms, Divided DEF WidestWidth
<1>4. w * 20 \in Nat \ {0} /\ w \in Int /\ w * 20 \in Int
  BY <1>1
<1>5. NarrowestWidth \in Positive /\ WidestWidth \in Positive
  BY <1>1, <1>2, <1>3, <1>4 DEF Positive
<1>6. /\ NarrowestWidth \preceq WidestWidth <=> w * 3 <= (w * 20) * 6
      /\ NarrowestWidth \preceq BaseWidth <=> w * 1 <= w * 6
      /\ BaseWidth \preceq WidestWidth <=> w * 3 <= (w * 20) * 1
  BY <1>1, <1>2, <1>3, <1>4, Compared
<1>7. w * 3 <= (w * 20) * 6 /\ w * 1 <= w * 6 /\ w * 3 <= (w * 20) * 1
  BY <1>1
<1> QED
  BY <1>2, <1>3, <1>5, <1>6, <1>7 DEF w

LEMMA Ordered ==
  ASSUME NEW a \in Fraction, NEW b \in Fraction
  PROVE  a \preceq a /\ (a \preceq b \/ b \preceq a)
<1>1. a[1] \in Int /\ a[2] \in Int /\ b[1] \in Int /\ b[2] \in Int
  BY FractionTerms
<1> DEFINE p == a[1] * b[2]
           q == b[1] * a[2]
           r == a[1] * a[2]
<1>2. p \in Int /\ q \in Int /\ r \in Int
  BY <1>1
<1>3. (a \preceq b <=> p <= q) /\ (b \preceq a <=> q <= p) /\ (a \preceq a <=> r <= r)
  BY DEF \preceq
<1> HIDE DEF p, q, r
<1> QED
  BY <1>2, <1>3

LEMMA AbovePositive ==
  ASSUME NEW a \in Fraction, NEW b \in Positive, b \preceq a
  PROVE  a \in Positive
<1> DEFINE n == a[1]
           d == a[2]
           m == b[1]
           e == b[2]
<1>1. n \in Int /\ d \in Nat \ {0} /\ m \in Nat \ {0} /\ e \in Nat \ {0}
  <2>1. b \in Fraction
    BY PositiveIsFraction
  <2> QED
    BY <2>1, FractionTerms, PositiveTerms
<1>2. m * d <= n * e
  BY DEF \preceq
<1>3. n > 0 => a \in Positive
  BY FractionTerms
<1> HIDE DEF n, d, m, e
<1>4. m * d \in Nat \ {0}
  BY <1>1, PositiveProduct
<1>5. n <= 0 => n * e <= 0
  <2>1. n <= 0 => (-n) * e >= 0
    BY <1>1
  <2>2. (-n) * e = -(n * e) /\ n * e \in Int
    BY <1>1
  <2> QED
    BY <2>1, <2>2
<1>6. n * e \in Int
  BY <1>1
<1> QED
  BY <1>1, <1>2, <1>3, <1>4, <1>5, <1>6

LEMMA Clamped ==
  ASSUME NEW w \in Fraction
  PROVE  /\ ClampWidth(w) \in Positive
         /\ NarrowestWidth \preceq ClampWidth(w) /\ ClampWidth(w) \preceq WidestWidth
<1> DEFINE lo == NarrowestWidth
           hi == WidestWidth
           l == Larger(w, lo)
<1>1. lo \in Positive /\ hi \in Positive /\ lo \in Fraction /\ hi \in Fraction /\ lo \preceq hi
  BY BoundTerms, PositiveIsFraction
<1>2. ClampWidth(w) = Smaller(l, hi)
  BY DEF ClampWidth, NarrowestWidth, WidestWidth
<1> HIDE DEF lo, hi
<1>3. l \in Fraction /\ lo \preceq l
  <2>1. (w \preceq lo \/ lo \preceq w) /\ lo \preceq lo
    BY <1>1, Ordered
  <2> QED
    BY <1>1, <2>1 DEF Larger
<1> HIDE DEF l
<1>4. Smaller(l, hi) \in Fraction /\ lo \preceq Smaller(l, hi) /\ Smaller(l, hi) \preceq hi
  <2>1. hi \preceq hi
    BY <1>1, Ordered
  <2> QED
    BY <1>1, <1>3, <2>1 DEF Smaller
<1>5. Smaller(l, hi) \in Positive
  BY <1>1, <1>4, AbovePositive
<1> QED
  BY <1>2, <1>4, <1>5 DEF lo, hi

-----------------------------------------------------------------------------
(* What the operations of lib/viewport.ts do to a view                      *)

Points == [x : Fraction, y : Fraction]

Views == {v \in [x : Fraction, y : Fraction, width : Positive, height : Positive] : InBounds(v)}

LEMMA ViewTypes ==
  ASSUME NEW v \in Views
  PROVE  /\ v.x \in Fraction /\ v.y \in Fraction
         /\ v.width \in Positive /\ v.height \in Positive
         /\ v.width \in Fraction /\ v.height \in Fraction
         /\ InBounds(v)
  BY PositiveIsFraction DEF Views

LEMMA ViewsAre ==
  ASSUME NEW x \in Fraction, NEW y \in Fraction, NEW w \in Positive, NEW h \in Positive,
         NarrowestWidth \preceq w, w \preceq WidestWidth, h (.) BaseWidth = w (.) BaseHeight
  PROVE  [x |-> x, y |-> y, width |-> w, height |-> h] \in Views
  BY DEF Views, InBounds, NarrowestWidth, WidestWidth

LEMMA InitialIsView == InitialViewport \in Views
<1>1. Whole(0) \in Fraction
  BY WholeIsFraction
<1>2. BaseWidth \in Positive /\ BaseHeight \in Positive /\ BaseWidth \in Fraction /\ BaseHeight \in Fraction
  BY BaseIsPositive, PositiveIsFraction
<1>3. BaseHeight (.) BaseWidth = BaseWidth (.) BaseHeight
  BY <1>2, Commutes
<1> QED
  BY <1>1, <1>2, <1>3, BoundTerms, ViewsAre DEF InitialViewport

LEMMA PointSeen ==
  ASSUME NEW v \in Views, NEW c \in Points
  PROVE  /\ ToUser(v, c) \in Points
         /\ (c.x (.) v.width) (/) BaseWidth \in Fraction
         /\ (c.y (.) v.height) (/) BaseHeight \in Fraction
<1>1. c.x \in Fraction /\ c.y \in Fraction
  BY DEF Points
<1>2. c.x (.) v.width \in Fraction /\ c.y (.) v.height \in Fraction
  BY <1>1, ViewTypes, ProductIsFraction
<1>3. (c.x (.) v.width) (/) BaseWidth \in Fraction /\ (c.y (.) v.height) (/) BaseHeight \in Fraction
  BY <1>2, BaseIsPositive, QuotientIsFraction
<1>4. /\ v.x (+) ((c.x (.) v.width) (/) BaseWidth) \in Fraction
      /\ v.y (+) ((c.y (.) v.height) (/) BaseHeight) \in Fraction
  BY <1>3, ViewTypes, SumIsFraction
<1> QED
  BY <1>3, <1>4 DEF ToUser, Points

\* A pan puts the point grabbed under the hand.
LEMMA PanHolds ==
  ASSUME NEW v \in Views, NEW c \in Points, NEW g \in Points
  PROVE  LET p == ToUser(v, c)
             w == PanBy(v, g.x (-) p.x, g.y (-) p.y)
         IN  w \in Views /\ ToUser(w, c) = g
<1> DEFINE px == (c.x (.) v.width) (/) BaseWidth
           py == (c.y (.) v.height) (/) BaseHeight
           p == ToUser(v, c)
           dx == g.x (-) p.x
           dy == g.y (-) p.y
           w == PanBy(v, dx, dy)
<1>1. px \in Fraction /\ py \in Fraction /\ p \in Points /\ p.x = v.x (+) px /\ p.y = v.y (+) py
  BY PointSeen DEF ToUser
<1>2. g.x \in Fraction /\ g.y \in Fraction /\ p.x \in Fraction /\ p.y \in Fraction
      /\ g = [x |-> g.x, y |-> g.y]
  BY <1>1 DEF Points
<1>3. dx \in Fraction /\ dy \in Fraction
  BY <1>2, SumIsFraction
<1>4. v.x (+) dx \in Fraction /\ v.y (+) dy \in Fraction
  BY <1>3, ViewTypes, SumIsFraction
<1>5. w = [x |-> v.x (+) dx, y |-> v.y (+) dy, width |-> v.width, height |-> v.height]
  <2> HIDE DEF dx, dy
  <2>1. v \in [x : Fraction, y : Fraction, width : Positive, height : Positive]
    BY DEF Views
  <2> DEFINE a == v.x (+) dx
             b == v.y (+) dy
             u == [v EXCEPT !.x = a, !.y = b]
  <2>2. a \in Fraction /\ b \in Fraction
    BY <1>4
  <2> HIDE DEF a, b
  <2>3. u \in [x : Fraction, y : Fraction, width : Positive, height : Positive]
    BY <2>1, <2>2
  <2>4. u.x = a /\ u.y = b /\ u.width = v.width /\ u.height = v.height
    BY <2>1
  <2>5. u = [x |-> a, y |-> b, width |-> v.width, height |-> v.height]
    <3> HIDE DEF u
    <3> QED
      BY <2>3, <2>4
  <2> QED
    BY <2>5 DEF PanBy, a, b
<1>6. w \in Views
  <2> HIDE DEF w, dx, dy
  <2>1. /\ NarrowestWidth \preceq v.width /\ v.width \preceq WidestWidth
        /\ v.height (.) BaseWidth = v.width (.) BaseHeight
    BY ViewTypes DEF InBounds, NarrowestWidth, WidestWidth
  <2> QED
    BY <1>4, <1>5, <2>1, ViewTypes, ViewsAre
<1>7. (v.x (+) dx) (+) px = g.x /\ (v.y (+) dy) (+) py = g.y
  <2> HIDE DEF px, py, p
  <2>1. v.x \in Fraction /\ v.y \in Fraction
    BY ViewTypes
  <2> QED
    BY <1>1, <1>2, <2>1, Moved
<1>8. ToUser(w, c) = [x |-> (v.x (+) dx) (+) px, y |-> (v.y (+) dy) (+) py]
  <2> HIDE DEF w, dx, dy
  <2> QED
    BY <1>5 DEF ToUser
<1>9. ToUser(w, c) = g
  BY <1>2, <1>7, <1>8
<1> QED
  BY <1>6, <1>9

\* Along one axis: at share h of the extent e, a zoom from e to n about the
\* point grabbed g.
LEMMA AxisPinched ==
  ASSUME NEW h \in Fraction, NEW s \in Fraction, NEW e \in Positive, NEW b \in Positive,
         NEW n \in Fraction, NEW g \in Fraction
  PROVE  LET f == ((s (+) ((h (.) e) (/) b)) (-) s) (/) e
         IN  /\ g (-) (f (.) n) \in Fraction
             /\ (g (-) (f (.) n)) (+) ((h (.) n) (/) b) = g
<1> DEFINE p == (h (.) e) (/) b
           q == (h (.) n) (/) b
           f == ((s (+) p) (-) s) (/) e
<1>1. e \in Fraction
  BY PositiveIsFraction
<1>2. h (.) e \in Fraction /\ h (.) n \in Fraction
  BY <1>1, ProductIsFraction
<1>3. p \in Fraction /\ q \in Fraction
  BY <1>2, QuotientIsFraction
<1>4. (p (/) e) (.) n = q
  BY ShareKept
<1>5. (s (+) p) (-) s = p
  <2> HIDE DEF p
  <2> QED
    BY <1>3, Moved
<1>6. f (.) n = q
  BY <1>4, <1>5
<1>7. g (-) q \in Fraction /\ (g (-) q) (+) q = g
  <2> HIDE DEF q
  <2> QED
    BY <1>3, SumIsFraction, Moved
<1> QED
  BY <1>6, <1>7

\* The height that goes with a new width keeps the shape.
LEMMA ShapeKept ==
  ASSUME NEW w \in Positive, NEW h \in Positive, NEW n \in Positive,
         h (.) BaseWidth = w (.) BaseHeight
  PROVE  /\ n (.) (h (/) w) \in Positive
         /\ (n (.) (h (/) w)) (.) BaseWidth = n (.) BaseHeight
<1> DEFINE B == BaseWidth
           C == BaseHeight
           q == h (/) w
<1>1. w \in Fraction /\ h \in Fraction /\ n \in Fraction /\ B \in Fraction /\ C \in Fraction
  BY BaseIsPositive, PositiveIsFraction
<1>2. q \in Positive /\ q \in Fraction
  BY <1>1, QuotientIsFraction, PositiveIsFraction
<1>3. n (.) q \in Positive
  <2> HIDE DEF q
  <2> QED
    BY <1>1, <1>2, ProductIsFraction
<1>4. (n (.) q) (.) B = n (.) (q (.) B)
  <2> HIDE DEF q, B
  <2> QED
    BY <1>1, <1>2, Associates
<1>5. q (.) B = C
  <2>1. q (.) B = (h (.) B) (/) w
    BY <1>1, PartGrows
  <2>2. h (.) B = C (.) w
    BY <1>1, Commutes
  <2>3. (C (.) w) (/) w = (C (/) w) (.) w
    BY <1>1, PartGrows
  <2>4. C (/) w \in Fraction
    BY <1>1, QuotientIsFraction
  <2>5. (C (/) w) (.) w = w (.) (C (/) w)
    BY <1>1, <2>4, Commutes
  <2>6. w (.) (C (/) w) = C
    BY <1>1, Cancels
  <2> QED
    BY <2>1, <2>2, <2>3, <2>5, <2>6
<1> QED
  BY <1>3, <1>4, <1>5

\* A pinch puts the point grabbed under the hand, at the bounds too.
LEMMA PinchHolds ==
  ASSUME NEW v \in Views, NEW c \in Points, NEW g \in Points, NEW factor \in Positive
  PROVE  LET w == PinchTo(v, g, ToUser(v, c), factor)
         IN  w \in Views /\ ToUser(w, c) = g
<1> DEFINE width == ClampWidth(v.width (/) factor)
           height == width (.) (v.height (/) v.width)
           p == ToUser(v, c)
           fx == (p.x (-) v.x) (/) v.width
           fy == (p.y (-) v.y) (/) v.height
           x == g.x (-) (fx (.) width)
           y == g.y (-) (fy (.) height)
           w == PinchTo(v, g, p, factor)
<1>1. /\ v.x \in Fraction /\ v.y \in Fraction /\ v.width \in Positive /\ v.height \in Positive
      /\ v.width \in Fraction /\ v.height (.) BaseWidth = v.width (.) BaseHeight
  BY ViewTypes DEF InBounds
<1>2. c.x \in Fraction /\ c.y \in Fraction /\ g.x \in Fraction /\ g.y \in Fraction
      /\ g = [x |-> g.x, y |-> g.y]
  BY DEF Points
<1>3. v.width (/) factor \in Fraction
  BY <1>1, QuotientIsFraction
<1>4. width \in Positive /\ NarrowestWidth \preceq width /\ width \preceq WidestWidth
  BY <1>3, Clamped
<1>5. w = [x |-> x, y |-> y, width |-> width, height |-> height]
  BY DEF PinchTo
<1>6. /\ p.x = v.x (+) ((c.x (.) v.width) (/) BaseWidth)
      /\ p.y = v.y (+) ((c.y (.) v.height) (/) BaseHeight)
  BY DEF ToUser
<1> HIDE DEF width, p, w
<1>7. height \in Positive /\ height (.) BaseWidth = width (.) BaseHeight
  BY <1>1, <1>4, ShapeKept
<1> HIDE DEF height
<1>8. width \in Fraction /\ height \in Fraction
  BY <1>4, <1>7, PositiveIsFraction
<1>9. x \in Fraction /\ x (+) ((c.x (.) width) (/) BaseWidth) = g.x
  <2> DEFINE f == ((v.x (+) ((c.x (.) v.width) (/) BaseWidth)) (-) v.x) (/) v.width
  <2>1. /\ g.x (-) (f (.) width) \in Fraction
        /\ (g.x (-) (f (.) width)) (+) ((c.x (.) width) (/) BaseWidth) = g.x
    BY <1>1, <1>2, <1>8, BaseIsPositive, AxisPinched
  <2>2. x = g.x (-) (f (.) width)
    BY <1>6
  <2> HIDE DEF f, x
  <2> QED
    BY <2>1, <2>2
<1>10. y \in Fraction /\ y (+) ((c.y (.) height) (/) BaseHeight) = g.y
  <2> DEFINE f == ((v.y (+) ((c.y (.) v.height) (/) BaseHeight)) (-) v.y) (/) v.height
  <2>1. /\ g.y (-) (f (.) height) \in Fraction
        /\ (g.y (-) (f (.) height)) (+) ((c.y (.) height) (/) BaseHeight) = g.y
    BY <1>1, <1>2, <1>8, BaseIsPositive, AxisPinched
  <2>2. y = g.y (-) (f (.) height)
    BY <1>6
  <2> HIDE DEF f, y
  <2> QED
    BY <2>1, <2>2
<1> HIDE DEF x, y
<1>11. w \in Views
  BY <1>4, <1>5, <1>7, <1>9, <1>10, ViewsAre
<1>12. ToUser(w, c) = g
  BY <1>2, <1>5, <1>9, <1>10 DEF ToUser
<1> QED
  BY <1>11, <1>12 DEF w, p

\* Along one axis: what is p beyond the corner s stays, if p grows by r too.
LEMMA AxisZoomed ==
  ASSUME NEW s \in Fraction, NEW p \in Fraction, NEW r \in Fraction
  PROVE  LET a == s (+) p
             n == a (-) ((a (-) s) (.) r)
         IN  n \in Fraction /\ n (+) (p (.) r) = a
<1> DEFINE a == s (+) p
           q == p (.) r
<1>1. a \in Fraction /\ q \in Fraction /\ a (-) s = p
  BY SumIsFraction, ProductIsFraction, Moved
<1> HIDE DEF a, q
<1>2. a (-) q \in Fraction /\ (a (-) q) (+) q = a
  BY <1>1, SumIsFraction, Moved
<1> QED
  BY <1>1, <1>2 DEF a, q

\* A zoom keeps what is under its anchor there, at the bounds too.
LEMMA ZoomHolds ==
  ASSUME NEW v \in Views, NEW factor \in Positive
  PROVE  /\ \A a \in Points : ZoomAt(v, factor, a) \in Views
         /\ \A c \in Points :
              ToUser(ZoomAt(v, factor, ToUser(v, c)), c) = ToUser(v, c)
         /\ CentreOf(v) \in Points
         /\ CentreOf(ZoomAt(v, factor, CentreOf(v))) = CentreOf(v)
<1> DEFINE width == ClampWidth(v.width (/) factor)
           r == width (/) v.width
           x(a) == a.x (-) ((a.x (-) v.x) (.) r)
           y(a) == a.y (-) ((a.y (-) v.y) (.) r)
           w(a) == ZoomAt(v, factor, a)
<1>1. /\ v.x \in Fraction /\ v.y \in Fraction /\ v.width \in Positive /\ v.height \in Positive
      /\ v.width \in Fraction /\ v.height \in Fraction
      /\ v.height (.) BaseWidth = v.width (.) BaseHeight
  BY ViewTypes DEF InBounds
<1>2. v.width (/) factor \in Fraction
  BY <1>1, QuotientIsFraction
<1>3. width \in Positive /\ NarrowestWidth \preceq width /\ width \preceq WidestWidth
      /\ width \in Fraction
  BY <1>2, Clamped, PositiveIsFraction
<1>4. \A a : w(a) = [x |-> x(a), y |-> y(a), width |-> width, height |-> v.height (.) r]
  BY DEF ZoomAt
<1> HIDE DEF width, w
<1>5. r \in Positive /\ r \in Fraction /\ v.width (.) r = width
  BY <1>1, <1>3, QuotientIsFraction, PositiveIsFraction, Cancels
<1> HIDE DEF r
<1>6. v.height (.) r \in Positive
  BY <1>1, <1>5, ProductIsFraction
<1>7. (v.height (.) r) (.) BaseWidth = width (.) BaseHeight
  <2>1. BaseWidth \in Fraction /\ BaseHeight \in Fraction
    BY BaseIsPositive, PositiveIsFraction
  <2>2. (v.height (.) r) (.) BaseWidth = (v.height (.) BaseWidth) (.) r
    BY <1>1, <1>5, <2>1, Swap
  <2>3. (v.width (.) BaseHeight) (.) r = (v.width (.) r) (.) BaseHeight
    BY <1>1, <1>5, <2>1, Swap
  <2> QED
    BY <1>1, <1>5, <2>2, <2>3
<1>8. ASSUME NEW a \in Points PROVE w(a) \in Views
  <2>1. a.x \in Fraction /\ a.y \in Fraction
    BY DEF Points
  <2>2. a.x (-) v.x \in Fraction /\ a.y (-) v.y \in Fraction
    BY <1>1, <2>1, SumIsFraction
  <2>3. (a.x (-) v.x) (.) r \in Fraction /\ (a.y (-) v.y) (.) r \in Fraction
    BY <1>5, <2>2, ProductIsFraction
  <2>4. x(a) \in Fraction /\ y(a) \in Fraction
    BY <2>1, <2>3, SumIsFraction
  <2> HIDE DEF x, y
  <2> QED
    BY <1>3, <1>4, <1>6, <1>7, <2>4, ViewsAre
<1>9. ASSUME NEW c \in Points PROVE ToUser(w(ToUser(v, c)), c) = ToUser(v, c)
  <2> DEFINE a == ToUser(v, c)
             px == (c.x (.) v.width) (/) BaseWidth
             py == (c.y (.) v.height) (/) BaseHeight
  <2>1. a.x = v.x (+) px /\ a.y = v.y (+) py /\ a = [x |-> a.x, y |-> a.y]
    BY DEF ToUser
  <2>2. c.x \in Fraction /\ c.y \in Fraction /\ px \in Fraction /\ py \in Fraction
    BY PointSeen DEF Points
  <2>3. px (.) r = (c.x (.) width) (/) BaseWidth
    BY <1>1, <1>5, <2>2, BaseIsPositive, ShareGrows
  <2>4. py (.) r = (c.y (.) (v.height (.) r)) (/) BaseHeight
    BY <1>1, <1>5, <2>2, BaseIsPositive, ShareGrows
  <2> HIDE DEF a, px, py
  <2>5. x(a) (+) (px (.) r) = a.x /\ y(a) (+) (py (.) r) = a.y
    <3>1. /\ ((v.x (+) px) (-) (((v.x (+) px) (-) v.x) (.) r)) (+) (px (.) r) = v.x (+) px
          /\ ((v.y (+) py) (-) (((v.y (+) py) (-) v.y) (.) r)) (+) (py (.) r) = v.y (+) py
      BY <1>1, <1>5, <2>2, AxisZoomed
    <3> QED
      BY <2>1, <3>1
  <2>6. ToUser(w(a), c) = [x |-> x(a) (+) (px (.) r), y |-> y(a) (+) (py (.) r)]
    <3> HIDE DEF x, y
    <3> QED
      BY <1>4, <2>3, <2>4 DEF ToUser
  <2>7. ToUser(w(a), c) = a
    BY <2>1, <2>5, <2>6
  <2> QED
    BY <2>7 DEF a
<1>10. CentreOf(v) \in Points /\ CentreOf(w(CentreOf(v))) = CentreOf(v)
  <2> DEFINE a == CentreOf(v)
             two == Whole(2)
             px == v.width (/) two
             py == v.height (/) two
  <2>1. a.x = v.x (+) px /\ a.y = v.y (+) py /\ a = [x |-> v.x (+) px, y |-> v.y (+) py]
    BY DEF CentreOf
  <2>2. two \in Positive
    BY WholeIsFraction
  <2>3. px \in Fraction /\ py \in Fraction
    BY <1>1, <2>2, QuotientIsFraction
  <2>4. px (.) r = width (/) two /\ py (.) r = (v.height (.) r) (/) two
    BY <1>1, <1>5, <2>2, PartGrows
  <2>5. CentreOf(w(a)) = [x |-> x(a) (+) (px (.) r), y |-> y(a) (+) (py (.) r)]
    <3> HIDE DEF x, y, a, px, py
    <3> QED
      BY <1>4, <2>4 DEF CentreOf
  <2> HIDE DEF a, px, py
  <2>6. x(a) (+) (px (.) r) = a.x /\ y(a) (+) (py (.) r) = a.y
    <3>1. /\ ((v.x (+) px) (-) (((v.x (+) px) (-) v.x) (.) r)) (+) (px (.) r) = v.x (+) px
          /\ ((v.y (+) py) (-) (((v.y (+) py) (-) v.y) (.) r)) (+) (py (.) r) = v.y (+) py
      BY <1>1, <1>5, <2>3, AxisZoomed
    <3> QED
      BY <2>1, <3>1
  <2>7. a \in Points
    BY <1>1, <2>1, <2>3, SumIsFraction DEF Points
  <2> QED
    BY <2>1, <2>5, <2>6, <2>7 DEF a
<1> QED
  BY <1>8, <1>9, <1>10 DEF w

-----------------------------------------------------------------------------
(* Fit                                                                      *)

LEMMA SetInduction ==
  ASSUME NEW S, IsFiniteSet(S), NEW C, {} \in C,
         \A T \in SUBSET S : \A x \in S : T \in C /\ x \notin T => T \cup {x} \in C
  PROVE  S \in C
<1> DEFINE bad == {T \in SUBSET S : T \notin C}
<1> SUFFICES ASSUME S \notin C PROVE FALSE
  OBVIOUS
<1>1. FiniteSubsetsOf(S) = SUBSET S
  BY FS_FiniteSubsetsOfFinite
<1>2. IsWellFoundedOn(StrictSubsetOrdering(S), SUBSET S)
  BY <1>1, FS_StrictSubsetOrderingWellFounded
<1>3. bad \subseteq SUBSET S /\ S \in bad
  OBVIOUS
<1>4. PICK T \in bad : \A U \in bad : ~(<<U, T>> \in StrictSubsetOrdering(S))
  <2> HIDE DEF bad
  <2> QED
    BY <1>2, <1>3, WFMin
<1>5. PICK x \in T : TRUE
  <2>1. T # {}
    BY <1>4
  <2> QED
    BY <2>1
<1>6. <<T \ {x}, T>> \in StrictSubsetOrdering(S)
  BY <1>4, <1>5 DEF StrictSubsetOrdering
<1>7. T \ {x} \in C
  BY <1>4, <1>6
<1>8. (T \ {x}) \cup {x} = T
  BY <1>5
<1> QED
  BY <1>4, <1>5, <1>7, <1>8

\* A finite set has an element with the least value of f.
LEMMA LowestOf ==
  ASSUME NEW S, IsFiniteSet(S), S # {}, NEW f, \A x \in S : f[x] \in Int
  PROVE  \E x \in S : \A y \in S : f[x] <= f[y]
<1> DEFINE C == {T \in SUBSET S : T = {} \/ \E x \in T : \A y \in T : f[x] <= f[y]}
<1>1. {} \in C
  OBVIOUS
<1>2. ASSUME NEW T \in SUBSET S, NEW z \in S, T \in C, z \notin T
      PROVE  T \cup {z} \in C
  <2>1. CASE T = {}
    <3>1. f[z] <= f[z]
      OBVIOUS
    <3> QED
      BY <2>1, <3>1
  <2>2. CASE T # {}
    <3>1. PICK x \in T : \A y \in T : f[x] <= f[y]
      BY <1>2, <2>2
    <3>2. x \in S /\ f[x] \in Int /\ f[z] \in Int /\ \A y \in T : f[y] \in Int
      OBVIOUS
    <3>3. CASE f[x] <= f[z]
      BY <3>1, <3>3
    <3>4. CASE f[z] < f[x]
      <4>1. \A y \in T \cup {z} : f[z] <= f[y]
        BY <3>1, <3>2, <3>4
      <4> QED
        BY <4>1
    <3> QED
      BY <3>2, <3>3, <3>4
  <2> QED
    BY <2>1, <2>2
<1> HIDE DEF C
<1>3. S \in C
  BY <1>1, <1>2, SetInduction
<1> QED
  BY <1>3 DEF C

ImageOf(f, S) == {f[x] : x \in S}

LEMMA Extremes ==
  ASSUME NEW S, IsFiniteSet(S), S # {}, NEW f, \A x \in S : f[x] \in Int
  PROVE  Least(ImageOf(f, S)) \in Int /\ Greatest(ImageOf(f, S)) \in Int
<1> DEFINE T == {f[x] : x \in S}
<1>1. \E n \in T : \A m \in T : n <= m
  <2>1. PICK x \in S : \A y \in S : f[x] <= f[y]
    BY LowestOf
  <2> QED
    BY <2>1
<1>2. \E n \in T : \A m \in T : m <= n
  <2> DEFINE g == [x \in S |-> -f[x]]
  <2>1. \A x \in S : g[x] = -f[x] /\ g[x] \in Int
    OBVIOUS
  <2> HIDE DEF g
  <2>2. PICK x \in S : \A y \in S : g[x] <= g[y]
    BY <2>1, LowestOf
  <2>3. \A y \in S : f[y] <= f[x]
    BY <2>1, <2>2
  <2> QED
    BY <2>3
<1>3. T \subseteq Int
  OBVIOUS
<1> HIDE DEF T
<1>4. Least(T) \in T /\ Greatest(T) \in T
  BY <1>1, <1>2 DEF Least, Greatest
<1> QED
  BY <1>3, <1>4 DEF T, ImageOf

LEMMA FitIsView ==
  ASSUME NEW cs \in CircleSets
  PROVE  FitTo(cs) \in Views
<1>1. CASE cs = {}
  BY <1>1, InitialIsView DEF FitTo
<1>2. CASE cs # {}
  <2> DEFINE left == [c \in cs |-> c.x - c.radius]
             right == [c \in cs |-> c.x + c.radius]
             top == [c \in cs |-> c.y - c.radius]
             bottom == [c \in cs |-> c.y + c.radius]
             minX == Least({c.x - c.radius : c \in cs})
             maxX == Greatest({c.x + c.radius : c \in cs})
             minY == Least({c.y - c.radius : c \in cs})
             maxY == Greatest({c.y + c.radius : c \in cs})
             aspect == BaseWidth (/) BaseHeight
             across == Whole(maxX - minX + Padding * 2)
             down == Whole(maxY - minY + Padding * 2) (.) aspect
             width == ClampWidth(Larger(across, down))
             height == width (/) aspect
             x == Lowest(minX + maxX, 2) (-) (width (/) Whole(2))
             y == Lowest(minY + maxY, 2) (-) (height (/) Whole(2))
  <2>1. IsFiniteSet(cs) /\ \A c \in cs : c.x \in Int /\ c.y \in Int /\ c.radius \in Int
    BY ViewportAssumption
  <2>2. minX \in Int /\ maxX \in Int
    <3>1. minX = Least(ImageOf(left, cs)) /\ maxX = Greatest(ImageOf(right, cs))
      <4>1. /\ {c.x - c.radius : c \in cs} = {left[c] : c \in cs}
            /\ {c.x + c.radius : c \in cs} = {right[c] : c \in cs}
        OBVIOUS
      <4> HIDE DEF left, right
      <4> QED
        BY <4>1 DEF ImageOf
    <3>2. \A c \in cs : left[c] \in Int /\ right[c] \in Int
      BY <2>1
    <3> HIDE DEF left, right, minX, maxX
    <3> QED
      BY <1>2, <2>1, <3>1, <3>2, Extremes
  <2>3. minY \in Int /\ maxY \in Int
    <3>1. minY = Least(ImageOf(top, cs)) /\ maxY = Greatest(ImageOf(bottom, cs))
      <4>1. /\ {c.y - c.radius : c \in cs} = {top[c] : c \in cs}
            /\ {c.y + c.radius : c \in cs} = {bottom[c] : c \in cs}
        OBVIOUS
      <4> HIDE DEF top, bottom
      <4> QED
        BY <4>1 DEF ImageOf
    <3>2. \A c \in cs : top[c] \in Int /\ bottom[c] \in Int
      BY <2>1
    <3> HIDE DEF top, bottom, minY, maxY
    <3> QED
      BY <1>2, <2>1, <3>1, <3>2, Extremes
  <2> HIDE DEF minX, maxX, minY, maxY
  <2>4. aspect \in Positive /\ aspect \in Fraction /\ BaseWidth \in Fraction /\ BaseHeight \in Fraction
    BY BaseIsPositive, PositiveIsFraction, QuotientIsFraction
  <2>5. BaseHeight (.) aspect = BaseWidth
    BY <2>4, BaseIsPositive, Cancels
  <2>6. across \in Fraction /\ down \in Fraction
    <3>1. Padding \in Int
      BY ViewportAssumption
    <3>2. maxX - minX + Padding * 2 \in Int /\ maxY - minY + Padding * 2 \in Int
      BY <2>2, <2>3, <3>1
    <3>3. across \in Fraction /\ Whole(maxY - minY + Padding * 2) \in Fraction
      BY <3>2, WholeIsFraction
    <3> HIDE DEF aspect
    <3> QED
      BY <2>4, <3>3, ProductIsFraction
  <2> HIDE DEF aspect, across, down
  <2>7. width \in Positive /\ width \in Fraction
        /\ NarrowestWidth \preceq width /\ width \preceq WidestWidth
    <3>1. Larger(across, down) \in Fraction
      BY <2>6 DEF Larger
    <3> QED
      BY <3>1, Clamped, PositiveIsFraction
  <2> HIDE DEF width
  <2>8. height \in Positive /\ height \in Fraction
    BY <2>4, <2>7, QuotientIsFraction, PositiveIsFraction
  <2>9. height (.) BaseWidth = width (.) BaseHeight
    <3> DEFINE wc == width (.) BaseHeight
    <3>1. height (.) BaseWidth = (width (.) BaseWidth) (/) aspect
      BY <2>4, <2>7, PartGrows
    <3>2. width (.) BaseWidth = wc (.) aspect
      BY <2>4, <2>5, <2>7, Associates
    <3>3. wc \in Fraction
      BY <2>4, <2>7, ProductIsFraction
    <3> HIDE DEF wc
    <3>4. (wc (.) aspect) (/) aspect = (wc (/) aspect) (.) aspect
      BY <2>4, <3>3, PartGrows
    <3>5. wc (/) aspect \in Fraction
      BY <2>4, <3>3, QuotientIsFraction
    <3>6. (wc (/) aspect) (.) aspect = aspect (.) (wc (/) aspect)
      BY <2>4, <3>5, Commutes
    <3>7. aspect (.) (wc (/) aspect) = wc
      BY <2>4, <3>3, Cancels
    <3> QED
      BY <3>1, <3>2, <3>4, <3>6, <3>7 DEF wc
  <2>10. x \in Fraction /\ y \in Fraction
    <3>1. Whole(2) \in Positive
      BY WholeIsFraction
    <3>2. width (/) Whole(2) \in Fraction /\ height (/) Whole(2) \in Fraction
      BY <2>7, <2>8, <3>1, QuotientIsFraction
    <3>3. minX + maxX \in Int /\ minY + maxY \in Int
      BY <2>2, <2>3
    <3>4. Lowest(minX + maxX, 2) \in Fraction /\ Lowest(minY + maxY, 2) \in Fraction
      BY <3>3 DEF Fraction
    <3> QED
      BY <3>2, <3>4, SumIsFraction
  <2>11. FitTo(cs) = [x |-> x, y |-> y, width |-> width, height |-> height]
    BY <1>2 DEF FitTo, minX, maxX, minY, maxY, aspect, across, down, width
  <2> HIDE DEF x, y, height
  <2> QED
    BY <2>7, <2>8, <2>9, <2>10, <2>11, ViewsAre
<1> QED
  BY <1>1, <1>2

-----------------------------------------------------------------------------
(* The hand                                                                 *)

\* One pointer or two.
OneOrTwo(ps) == ps # {} /\ \A p \in ps : \E q \in ps : ps = {p, q}

LEMMA TwoPointers ==
  /\ OneOrTwo(Pointer)
  /\ \A p \in Pointer : OneOrTwo({p}) /\ OneOrTwo(Pointer \ {p})
<1>1. PICK a, b \in Pointer : a # b /\ Pointer = {a, b}
  BY ViewportAssumption
<1>2. OneOrTwo(Pointer)
  BY <1>1 DEF OneOrTwo
<1>3. \A p : OneOrTwo({p})
  BY DEF OneOrTwo
<1>4. \A p \in Pointer : \E q : Pointer \ {p} = {q}
  <2>1. Pointer \ {a} = {b} /\ Pointer \ {b} = {a}
    BY <1>1
  <2> QED
    BY <1>1, <2>1
<1>5. ASSUME NEW p \in Pointer PROVE OneOrTwo(Pointer \ {p})
  <2>1. PICK q : Pointer \ {p} = {q}
    BY <1>4
  <2> QED
    BY <1>3, <2>1
<1> QED
  BY <1>2, <1>3, <1>5

LEMMA HandIsPoint ==
  ASSUME NEW where, NEW ps, OneOrTwo(ps), \A p \in ps : where[p] \in Client
  PROVE  Hand(where, ps) \in Points
<1> DEFINE p == CHOOSE p \in ps : TRUE
           q == CHOOSE q \in ps : ps = {p, q}
<1>1. p \in ps
  BY DEF OneOrTwo
<1>2. q \in ps
  <2> HIDE DEF p
  <2> QED
    BY <1>1 DEF OneOrTwo
<1>3. Hand(where, ps) = [x |-> Lowest(where[p].x + where[q].x, 2), y |-> Lowest(where[p].y + where[q].y, 2)]
  BY DEF Hand
<1> HIDE DEF p, q
<1>4. /\ where[p].x \in Int /\ where[q].x \in Int
      /\ where[p].y \in Int /\ where[q].y \in Int
  BY <1>1, <1>2, ViewportAssumption
<1>5. where[p].x + where[q].x \in Int /\ where[p].y + where[q].y \in Int
  BY <1>4
<1>6. Lowest(where[p].x + where[q].x, 2) \in Fraction /\ Lowest(where[p].y + where[q].y, 2) \in Fraction
  BY <1>5 DEF Fraction
<1> QED
  BY <1>3, <1>6 DEF Points

LEMMA SameHand ==
  ASSUME NEW where, NEW there, NEW ps, OneOrTwo(ps), \A p \in ps : where[p] = there[p]
  PROVE  Hand(where, ps) = Hand(there, ps)
<1> DEFINE p == CHOOSE p \in ps : TRUE
           q == CHOOSE q \in ps : ps = {p, q}
<1>1. p \in ps
  BY DEF OneOrTwo
<1>2. q \in ps
  <2> HIDE DEF p
  <2> QED
    BY <1>1 DEF OneOrTwo
<1>3. /\ Hand(where, ps) = [x |-> Lowest(where[p].x + where[q].x, 2), y |-> Lowest(where[p].y + where[q].y, 2)]
      /\ Hand(there, ps) = [x |-> Lowest(there[p].x + there[q].x, 2), y |-> Lowest(there[p].y + there[q].y, 2)]
  BY DEF Hand
<1> HIDE DEF p, q
<1> QED
  BY <1>1, <1>2, <1>3

LEMMA GapIsNatural ==
  ASSUME NEW where, \A p \in Pointer : where[p] \in Client
  PROVE  Gap(where) \in Nat
<1> DEFINE S == 0 .. (Base.width + Base.height)
           Right(g) == \A p, q \in Pointer : p # q => Square(g) = SquareGap(where[p], where[q])
<1>1. PICK a, b \in Pointer : a # b /\ Pointer = {a, b}
  BY ViewportAssumption
<1>2. \A c \in Client : c.x \in Int /\ c.y \in Int
  BY ViewportAssumption
<1>3. SquareGap(where[a], where[b]) = SquareGap(where[b], where[a])
  <2> DEFINE c == where[a]
             d == where[b]
  <2>1. c.x \in Int /\ c.y \in Int /\ d.x \in Int /\ d.y \in Int
    BY <1>2
  <2>2. \A m, n \in Int : (m - n) * (m - n) = (n - m) * (n - m)
    OBVIOUS
  <2> HIDE DEF c, d
  <2>3. SquareGap(c, d) = SquareGap(d, c)
    BY <2>1, <2>2 DEF SquareGap, Square
  <2> QED
    BY <2>3 DEF c, d
<1>4. \E g \in S : Square(g) = SquareGap(where[a], where[b])
  BY ViewportAssumption
<1>5. \E g \in S : Right(g)
  BY <1>1, <1>3, <1>4
<1>6. Gap(where) = CHOOSE g \in S : Right(g)
  BY DEF Gap
<1>7. Gap(where) \in S
  <2> HIDE DEF S, Right
  <2> QED
    BY <1>5, <1>6
<1>8. S \subseteq Nat
  BY ViewportAssumption
<1> QED
  BY <1>7, <1>8

-----------------------------------------------------------------------------
(* The specification                                                        *)

\* A gesture is made by pointers that are down, on a view that was rendered.
Made(g) ==
  /\ g \in [kind : {"pan", "pinch"}, pointers : SUBSET Pointer, start : Views, grabbed : Points, gap : Nat]
  /\ OneOrTwo(g.pointers)
  /\ g.kind = "pinch" => g.pointers = Pointer
  /\ \A p \in g.pointers : at[p] \in Client

Steady ==
  /\ view \in Views /\ shown \in Views
  /\ at \in [Pointer -> Client \cup {Off}]
  /\ gesture = NoGesture \/ Made(gesture)
  /\ HeldPointIsUnderHand

LEMMA OffIsNowhere == Off \notin Client
<1>1. \A c \in [x : 0 .. Base.width, y : 0 .. Base.height] : DOMAIN c = {"x", "y"}
  OBVIOUS
<1>2. DOMAIN Off = {"off"} /\ "x" # "off"
  BY DEF Off
<1>3. {"off"} # {"x", "y"}
  OBVIOUS
<1> QED
  BY <1>1, <1>2, <1>3, ViewportAssumption

LEMMA FactorsArePositive ==
  /\ \A f \in WheelFactors : f \in Positive
  /\ <<13, 10>> \in Positive /\ <<10, 13>> \in Positive
<1>1. \A f \in WheelFactors : f[1] \in Nat \ {0} /\ f[2] \in Nat \ {0} /\ f = Lowest(f[1], f[2])
  BY ViewportAssumption
<1>2. \A f \in WheelFactors : f \in Positive
  BY <1>1 DEF Positive
<1>3. <<13, 10>> = Lowest(13, 10) /\ <<10, 13>> = Lowest(10, 13)
  BY ScaleTerms
<1>4. Lowest(13, 10) \in Positive /\ Lowest(10, 13) \in Positive
  BY DEF Positive
<1> QED
  BY <1>2, <1>3, <1>4

LEMMA ScreenPoint ==
  ASSUME NEW c \in Client
  PROVE  [x |-> Whole(c.x), y |-> Whole(c.y)] \in Points
<1>1. c.x \in Int /\ c.y \in Int
  BY ViewportAssumption
<1> QED
  BY <1>1, WholeIsFraction DEF Points

LEMMA BeginsSteady ==
  ASSUME Steady, NEW kind \in {"pan", "pinch"}, NEW ps \in SUBSET Pointer,
         Begin(kind, ps), OneOrTwo(ps), kind = "pinch" => ps = Pointer,
         at' \in [Pointer -> Client \cup {Off}], \A p \in ps : at'[p] \in Client,
         view' = view, shown' = shown
  PROVE  Steady'
<1> DEFINE h == Hand(at', ps)
           gap == IF kind = "pinch" THEN Gap(at') ELSE 0
<1>1. h \in Points
  BY HandIsPoint
<1>2. gap \in Nat
  BY GapIsNatural
<1>3. gesture' = [kind |-> kind, pointers |-> ps, start |-> shown, grabbed |-> ToUser(shown, h), gap |-> gap]
      /\ slipped' = (shown # view)
  BY DEF Begin
<1> HIDE DEF h, gap
<1>4. shown \in Views /\ view \in Views
  BY DEF Steady
<1>5. ToUser(shown, h) \in Points
  BY <1>1, <1>4, PointSeen
<1>6. gesture' \in [kind : {"pan", "pinch"}, pointers : SUBSET Pointer, start : Views, grabbed : Points, gap : Nat]
      /\ gesture'.pointers = ps /\ gesture'.kind = kind /\ gesture'.grabbed = ToUser(shown, h)
  BY <1>2, <1>3, <1>4, <1>5
<1>7. Made(gesture)'
  BY <1>6 DEF Made
<1>8. HeldPointIsUnderHand'
  BY <1>3, <1>6 DEF HeldPointIsUnderHand, h
<1> QED
  BY <1>4, <1>7, <1>8 DEF Steady

\* Whatever else moves the view leaves the gesture alone and is noted.
LEMMA SlipsSteady ==
  ASSUME Steady, view' \in Views, shown' \in Views, at' = at, gesture' = gesture,
         slipped' = (gesture # NoGesture)
  PROVE  Steady'
<1>1. NoGesture.kind = "none"
  BY DEF NoGesture
<1>2. HeldPointIsUnderHand'
  BY <1>1 DEF HeldPointIsUnderHand
<1>3. (gesture = NoGesture \/ Made(gesture))'
  BY DEF Steady, Made
<1> QED
  BY <1>2, <1>3 DEF Steady

LEMMA PressSteady ==
  ASSUME Steady, NEW p \in Pointer, NEW c \in Client, NEW b \in BOOLEAN, Press(p, c, b)
  PROVE  Steady'
<1>1. at[p] = Off /\ at' = [at EXCEPT ![p] = c] /\ view' = view /\ shown' = shown
  BY DEF Press
<1>2. at \in [Pointer -> Client \cup {Off}]
  BY DEF Steady
<1>3. at' \in [Pointer -> Client \cup {Off}] /\ at'[p] = c /\ \A q \in Pointer \ {p} : at'[q] = at[q]
  BY <1>1, <1>2
<1>4. CASE \A q \in Pointer : at'[q] # Off
  <2>1. Begin("pinch", Pointer)
    BY <1>4 DEF Press
  <2>2. \A q \in Pointer : at'[q] \in Client
    BY <1>3, <1>4
  <2> QED
    BY <1>1, <1>3, <2>1, <2>2, TwoPointers, BeginsSteady
<1>5. CASE ~(\A q \in Pointer : at'[q] # Off) /\ b
  <2>1. Begin("pan", {p})
    BY <1>5 DEF Press
  <2>2. \A q \in {p} : at'[q] \in Client
    BY <1>3
  <2>3. {p} \in SUBSET Pointer /\ OneOrTwo({p})
    BY TwoPointers
  <2> QED
    BY <1>1, <1>3, <2>1, <2>2, <2>3, BeginsSteady
<1>6. CASE ~(\A q \in Pointer : at'[q] # Off) /\ ~b
  <2>1. gesture' = gesture /\ slipped' = slipped
    BY <1>6 DEF Press
  <2>2. CASE gesture = NoGesture
    <3>1. gesture.kind = "none"
      BY <2>2 DEF NoGesture
    <3>2. HeldPointIsUnderHand'
      BY <2>1, <3>1 DEF HeldPointIsUnderHand
    <3> QED
      BY <1>1, <1>3, <2>1, <2>2, <3>2 DEF Steady
  <2>3. CASE Made(gesture)
    <3> DEFINE ps == gesture.pointers
    <3>1. ps \in SUBSET Pointer /\ OneOrTwo(ps) /\ \A q \in ps : at[q] \in Client
      BY <2>3 DEF Made
    <3>2. p \notin ps
      BY <1>1, <3>1, OffIsNowhere
    <3>3. \A q \in ps : at'[q] = at[q]
      BY <1>3, <3>1, <3>2
    <3>4. Made(gesture)'
      BY <2>1, <2>3, <3>1, <3>3 DEF Made
    <3>5. Hand(at', ps) = Hand(at, ps)
      BY <3>1, <3>3, SameHand
    <3>6. HeldPointIsUnderHand
      BY DEF Steady
    <3>7. HeldPointIsUnderHand'
      BY <1>1, <2>1, <3>5, <3>6 DEF HeldPointIsUnderHand
    <3> QED
      BY <1>1, <1>3, <3>4, <3>7 DEF Steady
  <2> QED
    BY <2>2, <2>3 DEF Steady
<1> QED
  BY <1>4, <1>5, <1>6

LEMMA MoveSteady ==
  ASSUME Steady, NEW p \in Pointer, NEW c \in Client, Move(p, c)
  PROVE  Steady'
<1> DEFINE ps == gesture.pointers
           g == gesture.grabbed
           v == gesture.start
           h == Hand(at', ps)
           panned == gesture.kind = "pan" /\ p \in ps
           pinched == gesture.kind = "pinch" /\ gesture.gap # 0 /\ Gap(at') # 0
<1>1. at' = [at EXCEPT ![p] = c] /\ shown' = shown /\ gesture' = gesture
  BY DEF Move
<1>2. at \in [Pointer -> Client \cup {Off}] /\ view \in Views /\ shown \in Views
  BY DEF Steady
<1>3. at' \in [Pointer -> Client \cup {Off}] /\ at'[p] = c /\ \A q \in Pointer \ {p} : at'[q] = at[q]
  BY <1>1, <1>2
<1>4. /\ panned => Pan(h) /\ slipped' = FALSE
      /\ pinched => Pinch(h) /\ slipped' = FALSE
      /\ ~panned /\ ~pinched => slipped' = (gesture # NoGesture) /\ view' = view
  BY DEF Move
<1>5. Made(gesture) => Made(gesture)'
  BY <1>1, <1>3 DEF Made
<1>6. Made(gesture) => h \in Points /\ g \in Points /\ v \in Views /\ OneOrTwo(ps)
  <2> SUFFICES ASSUME Made(gesture) PROVE h \in Points /\ g \in Points /\ v \in Views /\ OneOrTwo(ps)
    OBVIOUS
  <2>1. g \in Points /\ v \in Views /\ OneOrTwo(ps)
    BY DEF Made
  <2>2. \A q \in ps : at'[q] \in Client
    BY <1>1, <1>5 DEF Made
  <2> QED
    BY <2>1, <2>2, HandIsPoint
<1>7. panned \/ pinched => Made(gesture)
  BY DEF Steady, NoGesture
<1>8. CASE panned
  <2>1. view' = PanBy(v, g.x (-) ToUser(v, h).x, g.y (-) ToUser(v, h).y)
    BY <1>4, <1>8 DEF Pan, Matrix
  <2>2. view' \in Views /\ ToUser(view', h) = g
    <3> HIDE DEF h, g, v
    <3> QED
      BY <1>6, <1>7, <1>8, <2>1, PanHolds
  <2>3. HeldPointIsUnderHand'
    BY <1>1, <2>2 DEF HeldPointIsUnderHand
  <2> QED
    BY <1>1, <1>2, <1>3, <1>5, <1>7, <1>8, <2>2, <2>3 DEF Steady
<1>9. CASE pinched
  <2> DEFINE factor == Lowest(Gap(at'), gesture.gap)
  <2>1. view' = PinchTo(v, g, ToUser(v, h), factor)
    BY <1>4, <1>9 DEF Pinch, Matrix
  <2>2. factor \in Positive
    <3>1. ps = Pointer /\ gesture.gap \in Nat
      BY <1>7, <1>9 DEF Made
    <3>2. \A q \in Pointer : at'[q] \in Client
      BY <1>1, <1>5, <1>7, <1>9, <3>1 DEF Made
    <3>3. Gap(at') \in Nat
      BY <3>2, GapIsNatural
    <3> QED
      BY <1>9, <3>1, <3>3 DEF Positive
  <2>3. view' \in Views /\ ToUser(view', h) = g
    <3> HIDE DEF h, g, v, factor
    <3> QED
      BY <1>6, <1>7, <1>9, <2>1, <2>2, PinchHolds
  <2>4. HeldPointIsUnderHand'
    BY <1>1, <2>3 DEF HeldPointIsUnderHand
  <2> QED
    BY <1>1, <1>2, <1>3, <1>5, <1>7, <1>9, <2>3, <2>4 DEF Steady
<1>10. CASE ~panned /\ ~pinched
  <2>1. NoGesture.kind = "none"
    BY DEF NoGesture
  <2>2. HeldPointIsUnderHand'
    BY <1>1, <1>4, <1>10, <2>1 DEF HeldPointIsUnderHand
  <2>3. (gesture = NoGesture \/ Made(gesture))'
    BY <1>1, <1>5 DEF Steady
  <2> QED
    BY <1>1, <1>2, <1>3, <1>4, <1>10, <2>2, <2>3 DEF Steady
<1> QED
  BY <1>8, <1>9, <1>10

LEMMA LiftSteady ==
  ASSUME Steady, NEW p \in Pointer, Lift(p)
  PROVE  Steady'
<1>1. at' = [at EXCEPT ![p] = Off] /\ view' = view /\ shown' = shown
  BY DEF Lift
<1>2. at \in [Pointer -> Client \cup {Off}] /\ view \in Views /\ shown \in Views
  BY DEF Steady
<1>3. at' \in [Pointer -> Client \cup {Off}] /\ \A q \in Pointer \ {p} : at'[q] = at[q]
  BY <1>1, <1>2
<1>4. CASE gesture.kind = "pinch"
  <2>1. Made(gesture)
    BY <1>4 DEF Steady, NoGesture
  <2>2. gesture.pointers = Pointer /\ \A q \in Pointer : at[q] \in Client
    BY <1>4, <2>1 DEF Made
  <2>3. Begin("pan", Pointer \ {p})
    BY <1>4, <2>2 DEF Lift
  <2>4. \A q \in Pointer \ {p} : at'[q] \in Client
    BY <1>3, <2>2
  <2>5. Pointer \ {p} \in SUBSET Pointer /\ OneOrTwo(Pointer \ {p})
    BY TwoPointers
  <2> QED
    BY <1>1, <1>3, <2>3, <2>4, <2>5, BeginsSteady
<1>5. CASE gesture.kind # "pinch"
  <2>1. gesture' = NoGesture
    BY <1>5 DEF Lift
  <2>2. HeldPointIsUnderHand'
    BY <2>1 DEF HeldPointIsUnderHand, NoGesture
  <2> QED
    BY <1>1, <1>2, <1>3, <2>1, <2>2 DEF Steady
<1> QED
  BY <1>4, <1>5

LEMMA WheelSteady ==
  ASSUME Steady, NEW c \in Client, NEW f \in WheelFactors, Wheel(c, f)
  PROVE  Steady'
<1> DEFINE p == [x |-> Whole(c.x), y |-> Whole(c.y)]
<1>1. /\ view' = ZoomAt(view, f, ToUser(shown, p)) /\ slipped' = (gesture # NoGesture)
      /\ shown' = shown /\ at' = at /\ gesture' = gesture
  BY DEF Wheel
<1>2. view \in Views /\ shown \in Views
  BY DEF Steady
<1>3. p \in Points /\ f \in Positive
  BY ScreenPoint, FactorsArePositive
<1> HIDE DEF p
<1>4. ToUser(shown, p) \in Points
  BY <1>2, <1>3, PointSeen
<1>5. view' \in Views
  BY <1>1, <1>2, <1>3, <1>4, ZoomHolds
<1> QED
  BY <1>1, <1>2, <1>5, SlipsSteady

LEMMA ClickSteady ==
  ASSUME Steady, NEW v \in Views, Click(v)
  PROVE  Steady'
<1>1. /\ view' = v /\ shown' = v /\ slipped' = (gesture # NoGesture)
      /\ at' = at /\ gesture' = gesture
  BY DEF Click
<1> QED
  BY <1>1, SlipsSteady

LEMMA ButtonsSteady ==
  ASSUME Steady, \/ ZoomIn \/ ZoomOut \/ Reset \/ \E circles \in CircleSets : Fit(circles)
  PROVE  Steady'
<1>1. view \in Views
  BY DEF Steady
<1>2. CentreOf(view) \in Points
  BY <1>1, FactorsArePositive, ZoomHolds
<1>3. CASE ZoomIn
  <2>1. ZoomAt(view, <<13, 10>>, CentreOf(view)) \in Views
    BY <1>1, <1>2, FactorsArePositive, ZoomHolds
  <2> QED
    BY <1>3, <2>1, ClickSteady DEF ZoomIn
<1>4. CASE ZoomOut
  <2>1. ZoomAt(view, <<10, 13>>, CentreOf(view)) \in Views
    BY <1>1, <1>2, FactorsArePositive, ZoomHolds
  <2> QED
    BY <1>4, <2>1, ClickSteady DEF ZoomOut
<1>5. CASE Reset
  BY <1>5, InitialIsView, ClickSteady DEF Reset
<1>6. ASSUME NEW circles \in CircleSets, Fit(circles) PROVE Steady'
  BY <1>6, FitIsView, ClickSteady DEF Fit
<1> QED
  BY <1>3, <1>4, <1>5, <1>6

LEMMA StepSteady == Steady /\ [Next]_vars => Steady'
<1> SUFFICES ASSUME Steady, [Next]_vars PROVE Steady'
  OBVIOUS
<1>1. ASSUME NEW p \in Pointer, NEW c \in Client, Move(p, c) PROVE Steady'
  BY <1>1, MoveSteady
<1>2. ASSUME NEW p \in Pointer, NEW c \in Client, NEW b \in BOOLEAN, Press(p, c, b) PROVE Steady'
  BY <1>2, PressSteady
<1>3. ASSUME NEW p \in Pointer, Lift(p) PROVE Steady'
  BY <1>3, LiftSteady
<1>4. ASSUME NEW c \in Client, NEW f \in WheelFactors, Wheel(c, f) PROVE Steady'
  BY <1>4, WheelSteady
<1>5. ASSUME \/ ZoomIn \/ ZoomOut \/ Reset \/ \E circles \in CircleSets : Fit(circles) PROVE Steady'
  BY <1>5, ButtonsSteady
<1>6. CASE Render
  <2>1. /\ shown' = view /\ view' = view /\ at' = at /\ gesture' = gesture /\ slipped' = slipped
    BY <1>6 DEF Render
  <2> QED
    BY <2>1 DEF Steady, Made, HeldPointIsUnderHand
<1>7. CASE UNCHANGED vars
  BY <1>7 DEF Steady, Made, HeldPointIsUnderHand, vars
<1> QED
  BY <1>1, <1>2, <1>3, <1>4, <1>5, <1>6, <1>7 DEF Next

\* The inductive invariant: every view has the shape of the base and a width
\* within the bounds, a gesture is made by pointers that are down, and the
\* point it grabbed is under the hand unless something slipped.
THEOREM AlwaysSteady == Spec => []Steady
<1>1. Init => Steady
  <2> SUFFICES ASSUME Init PROVE Steady
    OBVIOUS
  <2>1. view \in Views /\ shown \in Views
    BY InitialIsView DEF Init
  <2>2. at \in [Pointer -> Client \cup {Off}]
    BY DEF Init
  <2>3. gesture = NoGesture /\ HeldPointIsUnderHand
    BY DEF Init, HeldPointIsUnderHand, NoGesture
  <2> QED
    BY <2>1, <2>2, <2>3 DEF Steady
<1> QED
  BY <1>1, StepSteady, PTL DEF Spec

\* "The point grabbed stays under the pointer however many moves it takes to
\* get there" (useViewport.ts): for every screen and every sequence of presses,
\* moves, lifts, turns of the wheel, clicks and renders.
THEOREM HeldPointStaysUnderHand == Spec => []HeldPointIsUnderHand
<1>1. Steady => HeldPointIsUnderHand
  BY DEF Steady
<1> QED
  BY <1>1, AlwaysSteady, PTL

\* A zoom keeps what is under its anchor there and every view within the
\* bounds and in the shape of the base, at the bounds too (lib/viewport.ts).
THEOREM ZoomAlwaysKeepsAnchor == Spec => ZoomKeepsAnchor
<1> DEFINE Kept ==
      /\ \A c \in Client, f \in WheelFactors :
           Wheel(c, f) /\ shown = view =>
             LET p == [x |-> Whole(c.x), y |-> Whole(c.y)] IN ToUser(view', p) = ToUser(view, p)
      /\ ZoomIn \/ ZoomOut => CentreOf(view') = CentreOf(view)
      /\ view' # view => InBounds(view')
<1>1. ASSUME Steady, [Next]_vars PROVE Kept
  <2>1. view \in Views
    BY <1>1 DEF Steady
  <2>2. ASSUME NEW c \in Client, NEW f \in WheelFactors, Wheel(c, f), shown = view
        PROVE  LET p == [x |-> Whole(c.x), y |-> Whole(c.y)] IN ToUser(view', p) = ToUser(view, p)
    <3> DEFINE p == [x |-> Whole(c.x), y |-> Whole(c.y)]
    <3>1. view' = ZoomAt(view, f, ToUser(view, p))
      BY <2>2 DEF Wheel
    <3>2. p \in Points /\ f \in Positive
      BY ScreenPoint, FactorsArePositive
    <3> HIDE DEF p
    <3>3. ToUser(view', p) = ToUser(view, p)
      BY <2>1, <3>1, <3>2, ZoomHolds
    <3> QED
      BY <3>3 DEF p
  <2>3. ZoomIn => CentreOf(view') = CentreOf(view)
    <3>1. CentreOf(ZoomAt(view, <<13, 10>>, CentreOf(view))) = CentreOf(view)
      BY <2>1, FactorsArePositive, ZoomHolds
    <3> QED
      BY <3>1 DEF ZoomIn, Click
  <2>4. ZoomOut => CentreOf(view') = CentreOf(view)
    <3>1. CentreOf(ZoomAt(view, <<10, 13>>, CentreOf(view))) = CentreOf(view)
      BY <2>1, FactorsArePositive, ZoomHolds
    <3> QED
      BY <3>1 DEF ZoomOut, Click
  <2>5. InBounds(view')
    <3>1. view' \in Views
      BY <1>1, StepSteady DEF Steady
    <3> QED
      BY <3>1, ViewTypes
  <2> QED
    BY <2>2, <2>3, <2>4, <2>5
<1>2. Steady /\ [Next]_vars => [Kept]_vars
  BY <1>1
<1> HIDE DEF Kept
<1>3. Spec => [][Kept]_vars
  BY <1>2, AlwaysSteady, PTL DEF Spec
<1> QED
  BY <1>3 DEF ZoomKeepsAnchor, Kept
=============================================================================
