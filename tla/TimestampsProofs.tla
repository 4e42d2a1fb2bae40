--------------------------- MODULE TimestampsProofs ---------------------------
(***************************************************************************)
(* Theorems about times, for every number of digits a nanosecond has and   *)
(* texts of every length.                                                  *)
(***************************************************************************)
EXTENDS Timestamps, NaturalsInduction, WellFoundedInduction, TLAPS

-----------------------------------------------------------------------------
(* Recursion on the naturals                                                *)

LEMMA LeastOf ==
  ASSUME NEW S, S \subseteq Nat, S # {}
  PROVE  \E x \in S : \A y \in S : x <= y
<1>1. PICK x \in S : \A y \in S : ~(<<y, x>> \in OpToRel(<, Nat))
  BY NatLessThanWellFounded, WFMin
<1>2. \A y \in S : ~(y < x)
  BY <1>1 DEF OpToRel
<1> QED
  BY <1>2

\* A set of naturals that holds 0 and the successors of its members is Nat.
LEMMA AllNaturals ==
  ASSUME NEW C, 0 \in C, \A n \in Nat : n \in C => n + 1 \in C
  PROVE  \A n \in Nat : n \in C
<1> DEFINE bad == {n \in Nat : n \notin C}
<1> SUFFICES ASSUME bad # {} PROVE FALSE
  OBVIOUS
<1>1. PICK m \in bad : \A k \in bad : m <= k
  BY LeastOf
<1>2. m \in Nat /\ m # 0 /\ m \notin C
  OBVIOUS
<1>3. m - 1 \in Nat /\ m - 1 \notin bad /\ m = (m - 1) + 1
  BY <1>1, <1>2
<1> QED
  BY <1>2, <1>3

\* The digits ds read from the left, up to the n-th.
IsReading(read, ds, n) ==
  read = [i \in 0 .. n |-> IF i = 0 THEN 0 ELSE 10 * read[i - 1] + ds[i]]

\* The powers of ten up to the n-th.
ArePowers(p, n) == p = [i \in 0 .. n |-> IF i = 0 THEN 1 ELSE 10 * p[i - 1]]

LEMMA ReadingExists ==
  ASSUME NEW ds
  PROVE  \A n \in Nat : \E read : IsReading(read, ds, n)
<1> DEFINE C == {n \in Nat : \E read : IsReading(read, ds, n)}
<1>1. 0 \in C
  <2>1. IsReading([i \in 0 .. 0 |-> 0], ds, 0)
    BY DEF IsReading
  <2> QED
    BY <2>1
<1>2. ASSUME NEW n \in Nat, n \in C PROVE n + 1 \in C
  <2>1. PICK read : IsReading(read, ds, n)
    BY <1>2
  <2> DEFINE more == [i \in 0 .. n + 1 |-> IF i = n + 1 THEN 10 * read[n] + ds[n + 1] ELSE read[i]]
  <2>2. \A i \in 0 .. n : read[i] = IF i = 0 THEN 0 ELSE 10 * read[i - 1] + ds[i]
    BY <2>1 DEF IsReading
  <2>3. ASSUME NEW i \in 0 .. n + 1
        PROVE  more[i] = IF i = 0 THEN 0 ELSE 10 * more[i - 1] + ds[i]
    <3>1. CASE i = n + 1
      <4>1. n \in 0 .. n + 1 /\ n # n + 1 /\ i - 1 = n /\ i # 0
        BY <3>1
      <4>2. more[n] = read[n] /\ more[i] = 10 * read[n] + ds[n + 1]
        BY <4>1, <3>1
      <4> QED
        BY <4>1, <4>2, <3>1
    <3>2. CASE i # n + 1
      <4>1. i \in 0 .. n /\ (i # 0 => i - 1 \in 0 .. n + 1 /\ i - 1 # n + 1)
        BY <3>2
      <4>2. more[i] = read[i] /\ (i # 0 => more[i - 1] = read[i - 1])
        BY <4>1, <3>2
      <4> QED
        BY <2>2, <4>1, <4>2
    <3> QED
      BY <3>1, <3>2
  <2>4. more = [i \in 0 .. n + 1 |-> more[i]]
    OBVIOUS
  <2> HIDE DEF more
  <2>5. IsReading(more, ds, n + 1)
    BY <2>3, <2>4 DEF IsReading
  <2> QED
    BY <2>5
<1> HIDE DEF C
<1>3. \A n \in Nat : n \in C
  BY <1>1, <1>2, AllNaturals
<1> QED
  BY <1>3 DEF C

LEMMA PowersExist ==
  \A n \in Nat : \E p : ArePowers(p, n)
<1> DEFINE C == {n \in Nat : \E p : ArePowers(p, n)}
<1>1. 0 \in C
  <2>1. ArePowers([i \in 0 .. 0 |-> 1], 0)
    BY DEF ArePowers
  <2> QED
    BY <2>1
<1>2. ASSUME NEW n \in Nat, n \in C PROVE n + 1 \in C
  <2>1. PICK p : ArePowers(p, n)
    BY <1>2
  <2> DEFINE more == [i \in 0 .. n + 1 |-> IF i = n + 1 THEN 10 * p[n] ELSE p[i]]
  <2>2. \A i \in 0 .. n : p[i] = IF i = 0 THEN 1 ELSE 10 * p[i - 1]
    BY <2>1 DEF ArePowers
  <2>3. ASSUME NEW i \in 0 .. n + 1
        PROVE  more[i] = IF i = 0 THEN 1 ELSE 10 * more[i - 1]
    <3>1. CASE i = n + 1
      <4>1. n \in 0 .. n + 1 /\ n # n + 1 /\ i - 1 = n /\ i # 0
        BY <3>1
      <4>2. more[n] = p[n] /\ more[i] = 10 * p[n]
        BY <4>1, <3>1
      <4> QED
        BY <4>1, <4>2, <3>1
    <3>2. CASE i # n + 1
      <4>1. i \in 0 .. n /\ (i # 0 => i - 1 \in 0 .. n + 1 /\ i - 1 # n + 1)
        BY <3>2
      <4>2. more[i] = p[i] /\ (i # 0 => more[i - 1] = p[i - 1])
        BY <4>1, <3>2
      <4> QED
        BY <2>2, <4>1, <4>2
    <3> QED
      BY <3>1, <3>2
  <2>4. more = [i \in 0 .. n + 1 |-> more[i]]
    OBVIOUS
  <2> HIDE DEF more
  <2>5. ArePowers(more, n + 1)
    BY <2>3, <2>4 DEF ArePowers
  <2> QED
    BY <2>5
<1> HIDE DEF C
<1>3. \A n \in Nat : n \in C
  BY <1>1, <1>2, AllNaturals
<1> QED
  BY <1>3 DEF C

\* Two lists of powers agree as far as both go.
LEMMA PowersAgree ==
  ASSUME NEW p, NEW q, NEW n \in Nat, NEW m \in Nat, n <= m, ArePowers(p, n), ArePowers(q, m)
  PROVE  \A i \in 0 .. n : p[i] = q[i]
<1> DEFINE C == {i \in Nat : i \in 0 .. n => p[i] = q[i]}
<1>0. /\ \A i \in 0 .. n : p[i] = IF i = 0 THEN 1 ELSE 10 * p[i - 1]
      /\ \A i \in 0 .. m : q[i] = IF i = 0 THEN 1 ELSE 10 * q[i - 1]
  BY DEF ArePowers
<1>1. 0 \in C
  BY <1>0
<1>2. ASSUME NEW i \in Nat, i \in C PROVE i + 1 \in C
  <2>1. CASE i + 1 \in 0 .. n
    <3>1. i \in 0 .. n /\ i + 1 \in 0 .. m /\ (i + 1) - 1 = i /\ i + 1 # 0
      BY <2>1
    <3>2. p[i] = q[i]
      BY <1>2, <3>1
    <3>3. p[i + 1] = 10 * p[i]
      BY <1>0, <2>1, <3>1
    <3>4. q[i + 1] = 10 * q[i]
      BY <1>0, <3>1
    <3> QED
      BY <3>2, <3>3, <3>4
  <2> QED
    BY <2>1
<1> HIDE DEF C
<1>3. \A i \in Nat : i \in C
  BY <1>1, <1>2, AllNaturals
<1> QED
  BY <1>3 DEF C

LEMMA Powers ==
  /\ Pow10[0] = 1
  /\ \A n \in Nat : Pow10[n + 1] = 10 * Pow10[n]
<1> DEFINE list(n) == CHOOSE p : ArePowers(p, n)
           pow == [n \in Nat |-> list(n)[n]]
<1>1. \A n \in Nat : ArePowers(list(n), n)
  BY PowersExist
<1>2. ASSUME NEW n \in Nat PROVE pow[n] = IF n = 0 THEN 1 ELSE 10 * pow[n - 1]
  <2>1. n \in 0 .. n
    OBVIOUS
  <2>2. list(n)[n] = IF n = 0 THEN 1 ELSE 10 * list(n)[n - 1]
    <3>1. ArePowers(list(n), n)
      BY <1>1
    <3> HIDE DEF list
    <3> QED
      BY <2>1, <3>1 DEF ArePowers
  <2>3. CASE n = 0
    BY <2>2, <2>3
  <2>4. CASE n # 0
    <3>1. n - 1 \in Nat /\ n - 1 <= n /\ n - 1 \in 0 .. n - 1
      BY <2>4
    <3>2. list(n - 1)[n - 1] = list(n)[n - 1]
      <4>1. ArePowers(list(n - 1), n - 1) /\ ArePowers(list(n), n)
        BY <1>1, <3>1
      <4> HIDE DEF list
      <4> QED
        BY <3>1, <4>1, PowersAgree
    <3>3. pow[n - 1] = list(n - 1)[n - 1] /\ pow[n] = list(n)[n]
      BY <3>1
    <3> HIDE DEF list, pow
    <3> QED
      BY <2>2, <2>4, <3>2, <3>3
  <2> QED
    BY <2>3, <2>4
<1>3. pow = [n \in Nat |-> pow[n]]
  OBVIOUS
<1>4. pow = [n \in Nat |-> IF n = 0 THEN 1 ELSE 10 * pow[n - 1]]
  <2> HIDE DEF pow
  <2> QED
    BY <1>2, <1>3
<1>5. Pow10 = [n \in Nat |-> IF n = 0 THEN 1 ELSE 10 * Pow10[n - 1]]
  <2> HIDE DEF pow
  <2> QED
    BY <1>4 DEF Pow10
<1>6. Pow10[0] = 1
  BY <1>5
<1>7. ASSUME NEW n \in Nat PROVE Pow10[n + 1] = 10 * Pow10[n]
  <2>1. n + 1 \in Nat /\ n + 1 # 0 /\ (n + 1) - 1 = n
    OBVIOUS
  <2> QED
    BY <1>5, <2>1
<1> QED
  BY <1>6, <1>7

LEMMA PowersPositive ==
  \A n \in Nat : Pow10[n] \in Nat \ {0}
<1> DEFINE C == {n \in Nat : Pow10[n] \in Nat \ {0}}
<1>1. 0 \in C
  BY Powers
<1>2. ASSUME NEW n \in Nat, n \in C PROVE n + 1 \in C
  <2>1. Pow10[n] \in Nat \ {0} /\ Pow10[n + 1] = 10 * Pow10[n]
    BY <1>2, Powers
  <2> QED
    BY <2>1
<1> HIDE DEF C
<1>3. \A n \in Nat : n \in C
  BY <1>1, <1>2, AllNaturals
<1> QED
  BY <1>3 DEF C

LEMMA PowerOfSum ==
  ASSUME NEW a \in Nat, NEW b \in Nat
  PROVE  Pow10[a + b] = Pow10[a] * Pow10[b]
<1> DEFINE C == {n \in Nat : Pow10[a + n] = Pow10[a] * Pow10[n]}
<1>1. 0 \in C
  <2>1. a + 0 = a /\ Pow10[0] = 1 /\ Pow10[a] \in Nat
    BY Powers, PowersPositive
  <2> QED
    BY <2>1
<1>2. ASSUME NEW n \in Nat, n \in C PROVE n + 1 \in C
  <2>1. a + n \in Nat /\ a + (n + 1) = (a + n) + 1
    OBVIOUS
  <2>2. Pow10[a + (n + 1)] = 10 * Pow10[a + n] /\ Pow10[n + 1] = 10 * Pow10[n]
    BY <2>1, Powers
  <2>3. Pow10[a + n] = Pow10[a] * Pow10[n]
    BY <1>2
  <2>4. \A x, y \in Nat : 10 * (x * y) = x * (10 * y)
    OBVIOUS
  <2>5. Pow10[a] \in Nat /\ Pow10[n] \in Nat
    BY PowersPositive
  <2> QED
    BY <2>2, <2>3, <2>4, <2>5
<1> HIDE DEF C
<1>3. b \in C
  BY <1>1, <1>2, AllNaturals
<1> QED
  BY <1>3 DEF C

-----------------------------------------------------------------------------
(* What digits denote                                                       *)

LEMMA ValueByRecursion ==
  ASSUME NEW ds
  PROVE  Value(ds) = (CHOOSE read : IsReading(read, ds, Len(ds)))[Len(ds)]
  BY DEF Value, IsReading

LEMMA Reading ==
  ASSUME NEW ds \in Seq(0 .. 9)
  PROVE  \E read : /\ Value(ds) = read[Len(ds)]
                   /\ read[0] = 0
                   /\ \A i \in 1 .. Len(ds) : read[i] = 10 * read[i - 1] + ds[i]
                   /\ \A i \in 0 .. Len(ds) : read[i] \in Nat
<1> DEFINE r == CHOOSE read : IsReading(read, ds, Len(ds))
<1>1. Len(ds) \in Nat /\ \A i \in 1 .. Len(ds) : ds[i] \in 0 .. 9
  OBVIOUS
<1>2. IsReading(r, ds, Len(ds))
  BY <1>1, ReadingExists
<1>3. Value(ds) = r[Len(ds)]
  BY ValueByRecursion
<1> HIDE DEF r
<1>4. \A i \in 0 .. Len(ds) : r[i] = IF i = 0 THEN 0 ELSE 10 * r[i - 1] + ds[i]
  BY <1>2 DEF IsReading
<1>5. r[0] = 0
  BY <1>1, <1>4
<1>6. \A i \in 1 .. Len(ds) : r[i] = 10 * r[i - 1] + ds[i]
  BY <1>1, <1>4
<1> DEFINE C == {n \in Nat : n \in 0 .. Len(ds) => r[n] \in Nat}
<1>7. 0 \in C
  BY <1>5
<1>8. ASSUME NEW n \in Nat, n \in C PROVE n + 1 \in C
  <2>1. CASE n + 1 \in 0 .. Len(ds)
    <3>1. n \in 0 .. Len(ds) /\ n + 1 \in 1 .. Len(ds) /\ (n + 1) - 1 = n
      BY <1>1, <2>1
    <3>2. r[n + 1] = 10 * r[n] + ds[n + 1] /\ r[n] \in Nat /\ ds[n + 1] \in 0 .. 9
      BY <1>1, <1>6, <1>8, <3>1
    <3> QED
      BY <3>2
  <2> QED
    BY <2>1
<1>9. \A n \in Nat : n \in C
  <2> HIDE DEF C
  <2> QED
    BY <1>7, <1>8, AllNaturals
<1> QED
  BY <1>1, <1>3, <1>5, <1>6, <1>9

LEMMA ValueIsNatural ==
  ASSUME NEW ds \in Seq(0 .. 9)
  PROVE  Value(ds) \in Nat
<1>1. Len(ds) \in 0 .. Len(ds)
  OBVIOUS
<1> QED
  BY <1>1, Reading

\* Digits that end in zeros denote a multiple of that power of ten.
LEMMA TrailingZeros ==
  ASSUME NEW ds \in Seq(0 .. 9), NEW k \in 0 .. Len(ds),
         \A i \in 1 .. Len(ds) : i > k => ds[i] = 0
  PROVE  \E h \in Nat : Value(ds) = h * Pow10[Len(ds) - k]
<1>1. PICK read : /\ Value(ds) = read[Len(ds)]
                  /\ read[0] = 0
                  /\ \A i \in 1 .. Len(ds) : read[i] = 10 * read[i - 1] + ds[i]
                  /\ \A i \in 0 .. Len(ds) : read[i] \in Nat
  BY Reading
<1>2. Len(ds) \in Nat /\ k \in Nat /\ k <= Len(ds)
  OBVIOUS
<1> DEFINE C == {n \in Nat : k + n <= Len(ds) => read[k + n] = read[k] * Pow10[n]}
<1>3. 0 \in C
  <2>1. k + 0 = k /\ Pow10[0] = 1 /\ read[k] \in Nat
    BY <1>1, Powers
  <2> QED
    BY <2>1
<1>4. ASSUME NEW n \in Nat, n \in C PROVE n + 1 \in C
  <2>1. CASE k + (n + 1) <= Len(ds)
    <3>1. k + (n + 1) \in 1 .. Len(ds) /\ k + (n + 1) > k /\ (k + (n + 1)) - 1 = k + n
          /\ k + n <= Len(ds) /\ k + n \in 0 .. Len(ds)
      BY <1>2, <2>1
    <3>2. ds[k + (n + 1)] = 0
      BY <3>1
    <3>3. read[k + (n + 1)] = 10 * read[k + n] + ds[k + (n + 1)]
      BY <1>1, <3>1
    <3>4. read[k + n] = read[k] * Pow10[n]
      BY <1>4, <3>1
    <3>5. read[k] \in Nat /\ read[k + n] \in Nat /\ Pow10[n] \in Nat /\ Pow10[n + 1] = 10 * Pow10[n]
      BY <1>1, <3>1, Powers, PowersPositive
    <3>6. read[k + (n + 1)] = 10 * read[k + n]
      BY <3>2, <3>3, <3>5
    <3>7. \A x, y \in Nat : 10 * (x * y) = x * (10 * y)
      OBVIOUS
    <3> QED
      BY <3>4, <3>5, <3>6, <3>7
  <2> QED
    BY <2>1
<1>5. \A n \in Nat : n \in C
  <2> HIDE DEF C
  <2> QED
    BY <1>3, <1>4, AllNaturals
<1>6. Len(ds) - k \in Nat /\ k + (Len(ds) - k) = Len(ds)
  BY <1>2
<1>7. read[Len(ds)] = read[k] * Pow10[Len(ds) - k]
  BY <1>5, <1>6
<1> QED
  BY <1>1, <1>7

-----------------------------------------------------------------------------
(* Division that floors                                                     *)

LEMMA Cancel ==
  ASSUME NEW a \in Int, NEW b \in Int, NEW u \in Nat \ {0}
  PROVE  /\ a * u <= b * u => a <= b
         /\ a * u < b * u => a < b
<1>1. a >= b + 1 => (a - b) * u >= u
  <2>1. a >= b + 1 => a - b >= 1
    OBVIOUS
  <2>2. \A x \in Int : x >= 1 => x * u >= u
    <3> SUFFICES ASSUME NEW x \in Int, x >= 1 PROVE x * u >= u
      OBVIOUS
    <3>1. (x - 1) * u >= 0
      OBVIOUS
    <3>2. (x - 1) * u = x * u - u
      OBVIOUS
    <3> QED
      BY <3>1, <3>2
  <2> QED
    BY <2>1, <2>2
<1>2. (a - b) * u = a * u - b * u
  OBVIOUS
<1>3. a = b => a * u = b * u
  OBVIOUS
<1>4. a * u \in Int /\ b * u \in Int
  OBVIOUS
<1> QED
  BY <1>1, <1>2, <1>3, <1>4

LEMMA Division ==
  ASSUME NEW n \in Int, NEW d \in Nat \ {0}
  PROVE  /\ n \div d \in Int /\ n % d \in Nat /\ n % d < d
         /\ n = d * (n \div d) + (n % d)
  OBVIOUS

\* A time n cut to whole seconds of p * u, and the rest to units of u.
LEMMA CutToUnits ==
  ASSUME NEW n \in Int, NEW p \in Nat \ {0}, NEW u \in Nat \ {0}
  PROVE  LET s == n \div (p * u)
             f == (n % (p * u)) \div u
         IN  /\ s \in Int /\ f \in 0 .. p - 1
             /\ (s * p + f) * u <= n
             /\ n < (s * p + f + 1) * u
<1> DEFINE d == p * u
           s == n \div d
           r == n % d
           f == r \div u
           e == r % u
<1>1. d \in Nat \ {0}
  <2>1. p * u >= u
    <3>1. (p - 1) * u >= 0 /\ (p - 1) * u = p * u - u
      OBVIOUS
    <3> QED
      BY <3>1
  <2> QED
    BY <2>1
<1>2. s \in Int /\ r \in Nat /\ r < d /\ n = d * s + r
  <2> HIDE DEF d
  <2> QED
    BY <1>1, Division
<1>3. f \in Int /\ e \in Nat /\ e < u /\ r = u * f + e
  <2> HIDE DEF d
  <2> SUFFICES r \in Int
    BY Division
  <2> QED
    BY <1>2
<1> HIDE DEF s, r, f, e
<1>4. f >= 0
  <2>1. 0 * u < (f + 1) * u
    <3>1. (f + 1) * u = u * f + u
      BY <1>3
    <3>2. u * f \in Int
      BY <1>3
    <3> QED
      BY <1>2, <1>3, <3>1, <3>2
  <2>2. 0 < f + 1
    BY <1>3, <2>1, Cancel
  <2> QED
    BY <1>3, <2>2
<1>5. f < p
  <2>1. f * u < p * u
    <3>1. f * u = u * f /\ u * f \in Int
      BY <1>3
    <3> QED
      BY <1>2, <1>3, <3>1
  <2> QED
    BY <1>3, <2>1, Cancel
<1>6. d * s = (s * p) * u
  BY <1>2
<1>7. /\ (s * p + f) * u = (s * p) * u + u * f
      /\ (s * p + f + 1) * u = (s * p) * u + u * f + u
  BY <1>2, <1>3
<1>8. (s * p) * u \in Int /\ u * f \in Int
  BY <1>2, <1>3
<1>9. /\ (s * p + f) * u <= n
      /\ n < (s * p + f + 1) * u
  BY <1>2, <1>3, <1>6, <1>7, <1>8
<1>10. f \in 0 .. p - 1
  BY <1>3, <1>4, <1>5
<1> QED
  BY <1>2, <1>9, <1>10 DEF s, r, f

\* A multiple of the unit is not cut.
LEMMA NothingCut ==
  ASSUME NEW x \in Int, NEW u \in Nat \ {0}, NEW n \in Int, NEW k \in Int,
         x * u <= n, n < (x + 1) * u, n = k * u
  PROVE  x * u = n
<1>1. x <= k /\ k < x + 1
  <2>1. x * u <= k * u /\ k * u < (x + 1) * u
    OBVIOUS
  <2> QED
    BY <2>1, Cancel
<1> QED
  BY <1>1

-----------------------------------------------------------------------------
(* The specification                                                        *)

\* What the document shows of a time is what the last text says, at the
\* precision the file states.
ShowsTheText ==
  /\ stated \in Stated
  /\ Stamped => /\ text \in Texts /\ text.whole # None
                /\ shown = Shown(EpochNs(text), Digits(stated))

\* At every moment what is shown comes of the last text and of the precision
\* the file states (format_rfc3339 of epoch_ns_from_tshark).
THEOREM AlwaysShowsTheText == Spec => []ShowsTheText
<1>1. Init => ShowsTheText
  BY DEF Init, ShowsTheText, Stamped
<1>2. ShowsTheText /\ [Next]_vars => ShowsTheText'
  <2> SUFFICES ASSUME ShowsTheText, [Next]_vars PROVE ShowsTheText'
    OBVIOUS
  <2>1. ASSUME NEW t \in Texts, Reject(t) PROVE ShowsTheText'
    BY <2>1 DEF Reject, ShowsTheText, Stamped
  <2>2. ASSUME NEW t \in Texts, Stamp(t) PROVE ShowsTheText'
    BY <2>2 DEF Stamp, ShowsTheText
  <2>3. CASE UNCHANGED vars
    BY <2>3 DEF vars, ShowsTheText, Stamped
  <2> QED
    BY <2>1, <2>2, <2>3 DEF Next
<1> QED
  BY <1>1, <1>2, PTL DEF Spec

LEMMA DigitsInRange ==
  Digits(stated) \in 1 .. Nines
  BY TimeAssumption DEF Digits

\* A text no finer than a nanosecond means a whole number of nanoseconds, and
\* EpochNs is that number.
LEMMA EpochIsMeant ==
  ASSUME text \in Texts, text.whole # None, Len(text.fraction) <= Nines
  PROVE  /\ Meant \in Int /\ EpochNs(text) \in Int
         /\ EpochNs(text) = Meant * Pow10[Nines - Len(text.fraction)]
<1> DEFINE n == Len(text.fraction)
           v == Value(text.fraction)
           w == text.whole
           pn == Pow10[n]
           pr == Pow10[Nines - n]
<1>1. /\ text.negative \in BOOLEAN /\ w \in Nat /\ text.fraction \in Seq(0 .. 9)
      /\ n \in Nat /\ Nines \in Nat /\ Nines - n \in Nat /\ n + (Nines - n) = Nines
  BY TimeAssumption
<1>2. v \in Nat
  BY <1>1, ValueIsNatural
<1>3. pn \in Nat /\ pr \in Nat /\ Pow10[Nines] = pn * pr
  <2> HIDE DEF n
  <2> QED
    BY <1>1, PowersPositive, PowerOfSum
<1>4. Nanos(text.fraction) = v * pr
  <2>1. CASE n >= Nines
    <3>1. n = Nines /\ Nines - n = 0
      BY <1>1, <2>1
    <3>2. SubSeq(text.fraction, 1, Nines) = text.fraction
      BY <1>1, <3>1
    <3>3. pr = 1
      BY <3>1, Powers
    <3>4. Nanos(text.fraction) = v
      BY <2>1, <3>2 DEF Nanos
    <3> HIDE DEF v, pr
    <3> QED
      BY <1>2, <3>3, <3>4
  <2>2. CASE ~(n >= Nines)
    BY <2>2 DEF Nanos
  <2> QED
    BY <2>1, <2>2
<1>5. EpochNs(text) = IF text.negative THEN -(w * (pn * pr) + v * pr) ELSE w * (pn * pr) + v * pr
  BY <1>3, <1>4 DEF EpochNs, NsPerSecond
<1>6. Meant = (IF text.negative THEN -1 ELSE 1) * (w * pn + v)
  BY DEF Meant
<1> HIDE DEF n, v, w, pn, pr
<1>7. w * (pn * pr) + v * pr = (w * pn + v) * pr
  BY <1>1, <1>2, <1>3
<1>8. w * pn + v \in Nat
  BY <1>1, <1>2, <1>3
<1>9. \A x \in Nat, y \in Nat : -(x * y) = (-1 * x) * y /\ 1 * x = x /\ x * y \in Int /\ -1 * x \in Int
  OBVIOUS
<1>10. EpochNs(text) = Meant * pr /\ Meant \in Int /\ EpochNs(text) \in Int
  <2>1. CASE text.negative
    BY <1>3, <1>5, <1>6, <1>7, <1>8, <1>9, <2>1
  <2>2. CASE ~text.negative
    BY <1>3, <1>5, <1>6, <1>7, <1>8, <1>9, <2>2
  <2> QED
    BY <2>1, <2>2
<1> QED
  BY <1>10 DEF pr, n

\* What is shown, in units of its last digit, is the time cut to those units.
LEMMA SaidIsCut ==
  ASSUME ShowsTheText, Stamped, Len(text.fraction) <= Nines
  PROVE  LET u == Pow10[Nines - Digits(stated)]
         IN  /\ u \in Nat \ {0} /\ Said \in Int
             /\ shown.fraction \in 0 .. Pow10[Digits(stated)] - 1
             /\ Said * u <= EpochNs(text) /\ EpochNs(text) < (Said + 1) * u
<1> DEFINE d == Digits(stated)
           u == Pow10[Nines - d]
           p == Pow10[d]
           ns == EpochNs(text)
<1>1. d \in Nat /\ Nines - d \in Nat /\ d + (Nines - d) = Nines
  BY DigitsInRange, TimeAssumption
<1>2. u \in Nat \ {0} /\ p \in Nat \ {0} /\ NsPerSecond = p * u
  <2> HIDE DEF d
  <2> QED
    BY <1>1, PowersPositive, PowerOfSum DEF NsPerSecond
<1>3. ns \in Int
  BY EpochIsMeant DEF ShowsTheText
<1>4. shown.seconds = ns \div (p * u) /\ shown.fraction = (ns % (p * u)) \div u
  <2>1. shown = Shown(ns, d)
    BY DEF ShowsTheText
  <2> HIDE DEF ns, d
  <2> QED
    BY <1>2, <2>1 DEF Shown
<1>5. Said = shown.seconds * p + shown.fraction
  BY DEF Said
<1> HIDE DEF d, u, p, ns
<1>6. /\ shown.seconds \in Int /\ shown.fraction \in 0 .. p - 1
      /\ (shown.seconds * p + shown.fraction) * u <= ns
      /\ ns < (shown.seconds * p + shown.fraction + 1) * u
  BY <1>2, <1>3, <1>4, CutToUnits
<1>7. Said \in Int
  BY <1>2, <1>5, <1>6
<1> QED
  BY <1>2, <1>5, <1>6, <1>7 DEF d, u, p, ns

\* What the document shows is at most one unit of its last digit before what
\* tshark printed, before the epoch as after it, and its fraction is one.
THEOREM AlwaysShownJustBefore == Spec => []ShownJustBefore
<1>1. ShowsTheText => ShownJustBefore
  <2> SUFFICES ASSUME ShowsTheText, Stamped, Len(text.fraction) <= Nines
               PROVE  LET digits == Digits(stated)
                          meant == Meant * Pow10[Nines - Len(text.fraction)]
                          unit == Pow10[Nines - digits]
                      IN  /\ shown.fraction \in 0 .. (Pow10[digits] - 1)
                          /\ Said * unit <= meant /\ meant < (Said + 1) * unit
    BY DEF ShownJustBefore
  <2>1. EpochNs(text) = Meant * Pow10[Nines - Len(text.fraction)]
    BY EpochIsMeant DEF ShowsTheText
  <2> QED
    BY <2>1, SaidIsCut
<1> QED
  BY <1>1, AlwaysShowsTheText, PTL

\* The text of a clock no finer than the file states is shown in full, and any
\* text where the file states nothing.
THEOREM NothingEverLost == Spec => []NothingLost
<1>1. ShowsTheText => NothingLost
  <2> SUFFICES ASSUME ShowsTheText, Stamped, Len(text.fraction) <= Nines, Ticks
               PROVE  Said * Pow10[Nines - Digits(stated)] = Meant * Pow10[Nines - Len(text.fraction)]
    BY DEF NothingLost
  <2> DEFINE n == Len(text.fraction)
             d == Digits(stated)
             u == Pow10[Nines - d]
             pr == Pow10[Nines - n]
             sign == IF text.negative THEN -1 ELSE 1
  <2>1. /\ Meant \in Int /\ EpochNs(text) \in Int /\ EpochNs(text) = Meant * pr
    BY EpochIsMeant DEF ShowsTheText
  <2>2. /\ u \in Nat \ {0} /\ Said \in Int
        /\ Said * u <= EpochNs(text) /\ EpochNs(text) < (Said + 1) * u
    BY SaidIsCut
  <2>3. /\ text.whole \in Nat /\ text.fraction \in Seq(0 .. 9) /\ n \in Nat
        /\ Nines \in Nat /\ n <= Nines /\ d \in 1 .. Nines
    BY TimeAssumption, DigitsInRange DEF ShowsTheText
  <2>4. sign \in Int /\ Meant = sign * (text.whole * Pow10[n] + Value(text.fraction))
    BY DEF Meant
  <2>5. \E k \in Int : EpochNs(text) = k * u
    <3> HIDE DEF d, n, sign
    <3>1. CASE n <= d
      <4>1. Nines - n = (d - n) + (Nines - d) /\ d - n \in Nat /\ Nines - d \in Nat
        BY <2>3, <3>1
      <4>2. pr = Pow10[d - n] * u /\ Pow10[d - n] \in Nat
        BY <4>1, PowerOfSum, PowersPositive
      <4>3. Meant * pr = (Meant * Pow10[d - n]) * u /\ Meant * Pow10[d - n] \in Int
        <5>1. \A x \in Int, y \in Nat, z \in Nat : x * (y * z) = (x * y) * z /\ x * y \in Int
          OBVIOUS
        <5> QED
          BY <2>1, <2>2, <4>2, <5>1
      <4> QED
        BY <2>1, <4>3
    <3>2. CASE n > d
      <4>1. d # Nines
        BY <2>3, <3>2
      <4>2. d = stated /\ stated # None
        <5>1. d = stated
          BY <4>1 DEF d, Digits
        <5> QED
          BY <2>3, <5>1 DEF None
      <4>3. \A i \in 1 .. n : i > d => text.fraction[i] = 0
        BY <2>3, <4>2 DEF Ticks, n
      <4>4. d \in 0 .. n
        BY <2>3, <3>2
      <4>5. PICK h \in Nat : Value(text.fraction) = h * Pow10[n - d]
        BY <2>3, <4>3, <4>4, TrailingZeros DEF n
      <4>6. n - d \in Nat /\ d + (n - d) = n /\ Nines - n \in Nat /\ (n - d) + (Nines - n) = Nines - d
            /\ d \in Nat
        BY <2>3, <3>2
      <4> DEFINE q == Pow10[n - d]
                 pd == Pow10[d]
                 w == text.whole
      <4>7. Pow10[n] = pd * q /\ u = q * pr /\ q \in Nat /\ pd \in Nat /\ pr \in Nat
        <5>1. \A a, b \in Nat : Pow10[a + b] = Pow10[a] * Pow10[b]
          BY PowerOfSum
        <5>2. Pow10[n] = pd * q
          BY <4>6, <5>1
        <5>3. u = q * pr
          BY <4>6, <5>1
        <5> QED
          BY <4>6, <5>2, <5>3, PowersPositive
      <4>8. Meant = sign * (w * (pd * q) + h * q) /\ w \in Nat
        BY <2>3, <2>4, <4>5, <4>7
      <4> HIDE DEF q, pd, w, u, pr
      <4>9. (sign * (w * (pd * q) + h * q)) * pr = (sign * (w * pd + h)) * (q * pr)
            /\ sign * (w * pd + h) \in Int
        <5>1. w * (pd * q) + h * q = (w * pd + h) * q /\ w * pd + h \in Int
          BY <4>7, <4>8
        <5>2. \A a \in Int, b \in Int, c \in Nat, e \in Nat : (a * (b * c)) * e = (a * b) * (c * e) /\ a * b \in Int
          OBVIOUS
        <5> QED
          BY <2>4, <4>7, <5>1, <5>2
      <4> QED
        BY <2>1, <4>7, <4>8, <4>9
    <3> QED
      BY <2>3, <3>1, <3>2
  <2>6. PICK k \in Int : EpochNs(text) = k * u
    BY <2>5
  <2>7. Said * u = EpochNs(text)
    <3> HIDE DEF u
    <3> QED
      BY <2>1, <2>2, <2>6, NothingCut
  <2> QED
    BY <2>1, <2>7
<1> QED
  BY <1>1, AlwaysShowsTheText, PTL
=============================================================================
