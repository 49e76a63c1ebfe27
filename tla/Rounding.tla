-------------------------------- MODULE Rounding -------------------------------
(***************************************************************************)
(* Decimal.quantize, of n/d to an integer, d > 0.                           *)
(***************************************************************************)
EXTENDS Integers

\* ROUND_HALF_UP: ties go away from zero.
HalfUp(n, d) == IF n >= 0 THEN (2 * n + d) \div (2 * d) ELSE -((d - 2 * n) \div (2 * d))

\* ROUND_HALF_EVEN, the rounding of a plain quantize.
HalfEven(n, d) ==
    LET below == n \div d
        rest  == 2 * (n % d)
    IN  IF rest < d \/ (rest = d /\ below % 2 = 0) THEN below ELSE below + 1

=============================================================================
