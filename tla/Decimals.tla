----------------------------- MODULE Decimals -----------------------------
(***************************************************************************)
(* LegacyDec, the fixed-point decimals of cosmossdk.io/math that shares,   *)
(* rewards and tallies are computed with: a decimal is held as a multiple  *)
(* of 1/Prec.  The library has Prec = 10^18; the operators are the ones    *)
(* the code calls, with the library's rounding.                            *)
(***************************************************************************)
EXTENDS Integers
CONSTANT Prec
ASSUME PrecAssumption == Prec \in Nat \ {0}

\* Division by Prec to the nearest integer, ties to even.
Chop(n) ==
  LET q == n \div Prec
      r == n % Prec
  IN IF 2 * r < Prec \/ (2 * r = Prec /\ q % 2 = 0) THEN q ELSE q + 1

Mul(x, y) == Chop(x * y)
MulTruncate(x, y) == (x * y) \div Prec
Quo(x, y) == Chop((x * Prec * Prec) \div y)
QuoTruncate(x, y) == ((x * Prec * Prec) \div y) \div Prec
TruncateInt(x) == x \div Prec
===========================================================================
