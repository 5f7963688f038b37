------------------------------ MODULE Division ------------------------------
(* The integer helpers of utils/misc.py, for positive divisors.            *)
EXTENDS Integers

DivCeil(a, b) == (a + b - 1) \div b

\* What div_even accepts.  With replicate, a may also be smaller than b.
DividesEven(a, b, replicate) ==
    IF replicate /\ b > a THEN b % a = 0 ELSE a % b = 0

DivEven(a, b, replicate) == IF replicate /\ b > a THEN 1 ELSE a \div b
=============================================================================
