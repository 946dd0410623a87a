------------------------------ MODULE Rounding ------------------------------
(***************************************************************************)
(* round(x / y, digits): what cost.py and drift.py report is rounded to a  *)
(* last digit, in which the modules that use this count.                   *)
(***************************************************************************)
EXTENDS Integers

(* The integer nearest to x / y for a positive y; a half goes up, where    *)
(* the code's goes to the even digit.                                      *)
Nearest(x, y) == (2 * x + y) \div (2 * y)
=============================================================================
