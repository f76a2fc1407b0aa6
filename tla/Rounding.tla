------------------------------ MODULE Rounding ------------------------------
(* The arithmetic of scores and shares: fractions over one denominator, and    *)
(* Python's round.                                                             *)
EXTENDS Integers

\* round(n / d): the nearest integer, a half to the even neighbour.
RoundDiv(n, d) ==
  LET q == n \div d
      twice == 2 * (n % d)
  IN  IF twice > d \/ (twice = d /\ q % 2 = 1) THEN q + 1 ELSE q

Less(a, b) == IF a > b THEN a - b ELSE 0

Larger(a, b) == IF a > b THEN a ELSE b

Smaller(a, b) == IF a < b THEN a ELSE b

\* max(0, min(100, n)).
Percent(n) == Larger(0, Smaller(100, n))

=============================================================================
