----------------------------- MODULE Quantities -----------------------------
(* Signed quantities: positive is long, negative is short, zero is flat.   *)
EXTENDS Integers

Abs(n) == IF n < 0 THEN -n ELSE n

Smaller(m, n) == IF m < n THEN m ELSE n

(* The code's (m > 0) != (n > 0): on different sides, if neither is zero.  *)
Opposed(m, n) == (m > 0) # (n > 0)
=============================================================================
