------------------------------ MODULE Decimals ------------------------------
(***************************************************************************)
(* Rounding to a number of decimals.  Amounts are integers that count the  *)
(* smallest unit that matters; a decimal place is the number of units its  *)
(* last digit stands for.                                                  *)
(***************************************************************************)
EXTENDS Integers

\* The integer nearest to n / d, halves away from zero: big.Rat.FloatString,
\* and how PostgreSQL brings a number to the scale of a NUMERIC(p, s) column.
Nearest(n, d) ==
  IF n >= 0 THEN (2 * n + d) \div (2 * d) ELSE -((d - 2 * n) \div (2 * d))

\* An amount brought to the decimal place `digit'.
RoundedTo(amount, digit) == digit * Nearest(amount, digit)

\* How far rounding moves an amount, at most.
Slack(digit) == digit \div 2

=============================================================================
