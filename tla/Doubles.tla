-------------------------------- MODULE Doubles --------------------------------
(***************************************************************************)
(* The doubles of the statistics: exact fractions, reduced, with a         *)
(* denominator that is never negative.  A zero denominator is what IEEE    *)
(* 754 makes of a division by zero: 1/0 and -1/0 are the infinities and    *)
(* 0/0 is NaN, which every sum it enters becomes and no comparison likes.  *)
(* Rounding is left out, and zero has no sign.                             *)
(***************************************************************************)
EXTENDS Integers

LOCAL Gcd[a, b \in Nat] == IF b = 0 THEN a ELSE Gcd[b, a % b]
LOCAL Size(n) == IF n < 0 THEN -n ELSE n

(* n divided by d *)
Over(n, d) ==
  LET g == IF n = 0 /\ d = 0 THEN 1 ELSE Gcd[Size(n), Size(d)]
      s == IF d < 0 THEN -1 ELSE 1
  IN [num |-> s * (n \div g), den |-> s * (d \div g)]

Double(n) == [num |-> n, den |-> 1]
NaN == [num |-> 0, den |-> 0]

Plus(p, q)      == Over(p.num * q.den + q.num * p.den, p.den * q.den)
Minus(p, q)     == Over(p.num * q.den - q.num * p.den, p.den * q.den)
Times(p, q)     == Over(p.num * q.num, p.den * q.den)
DividedBy(p, q) == Over(p.num * q.den, p.den * q.num)
Absolute(p)     == [p EXCEPT !.num = Size(p.num)]

(* p > q and p >= q; the first does not compare infinities of one sign. *)
Above(p, q)   == p.num * q.den > q.num * p.den
AtLeast(p, q) == Above(p, q) \/ (p = q /\ p # NaN)
=============================================================================
