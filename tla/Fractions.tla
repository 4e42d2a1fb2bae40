----------------------------- MODULE Fractions -----------------------------
(* Exact fractions <<numerator, denominator>>, in lowest terms with a       *)
(* positive denominator: the numbers of the canvas's arithmetic, which are  *)
(* doubles in the code; rounding is left out.                               *)
EXTENDS Integers

Gcd[n \in Nat] == [m \in Nat |-> IF n = 0 THEN m ELSE Gcd[m % n][n]]

Abs(n) == IF n < 0 THEN -n ELSE n

Lowest(n, d) ==
  IF d = 1 THEN <<n, 1>>
  ELSE LET g == Gcd[Abs(d)][Abs(n)]
       IN IF d < 0 THEN <<-n \div g, -d \div g>> ELSE <<n \div g, d \div g>>

Whole(n) == <<n, 1>>

a (+) b == Lowest(a[1] * b[2] + b[1] * a[2], a[2] * b[2])
a (-) b == Lowest(a[1] * b[2] - b[1] * a[2], a[2] * b[2])
a (.) b == Lowest(a[1] * b[1], a[2] * b[2])
a (/) b == Lowest(a[1] * b[2], a[2] * b[1])

a \preceq b == a[1] * b[2] <= b[1] * a[2]

Larger(a, b) == IF a \preceq b THEN b ELSE a
Smaller(a, b) == IF a \preceq b THEN a ELSE b
=============================================================================
