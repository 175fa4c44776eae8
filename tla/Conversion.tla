----------------------------- MODULE Conversion -----------------------------
(***************************************************************************)
(* PriceService.Convert: the rate of two prices as a decimal with a fixed  *)
(* number of places (decimal.Div rounds to 16), and the amount times that. *)
(* Rates and results are in units of the last place.                       *)
(***************************************************************************)
EXTENDS Integers

CONSTANT Unit   \* units in one: 10^16 in the code

ASSUME UnitConstant == Unit \in Nat \ {0}

\* decimal.Div of positive decimals: half is rounded up.  (Mutant: truncates.)
Div_Truncates(x, y) == (x * Unit) \div y

Div(x, y) == (2 * x * Unit + y) \div (2 * y)

\* A price of zero is an error.  (Mutant: only the divisor is looked at.)
Convertible_Divisor(from, to) == to # 0

Convertible(from, to) == from # 0 /\ to # 0

Convert(from, to, amount) ==
    IF Convertible(from, to)
    THEN [ok |-> TRUE, rate |-> Div(from, to), result |-> amount * Div(from, to)]
    ELSE [ok |-> FALSE, rate |-> 0, result |-> 0]
=============================================================================
