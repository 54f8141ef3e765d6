----------------------------- MODULE FixedPoint -----------------------------
(***************************************************************************)
(* The arithmetic the models put in the place of floating point: integers   *)
(* in some unit, quotients rounded towards 0.                               *)
(***************************************************************************)
EXTENDS Integers

\* std::clamp
Clamp(v, lo, hi) == IF v < lo THEN lo ELSE IF hi < v THEN hi ELSE v

\* A quotient by n > 0 in the fixed-point unit.
Quotient(a, n) == IF a >= 0 THEN a \div n ELSE -((-a) \div n)

\* Python's round(a / n): the nearest integer, the even one of two.
Rounded(a, n) ==
    LET low == a \div n
        rest == 2 * (a - n * low)
    IN IF rest < n \/ (rest = n /\ low % 2 = 0) THEN low ELSE low + 1

\* A step of a first-order lag: part / whole of the way from v to the target.
Towards(v, target, part, whole) == v + Quotient(part * (target - v), whole)
=============================================================================
