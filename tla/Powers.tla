------------------------------- MODULE Powers -------------------------------
(* The laws of the powers of two, up to a largest exponent.  They hold of    *)
(* every exponent; the modules assume them of the widths they declare, for   *)
(* the prover knows a type for 2^n and nothing else.                         *)
EXTENDS Integers

PowersOfTwo(top) ==
  \A a \in 0 .. top : /\ 2^a \in Nat \ {0}
                      /\ \A b \in 0 .. top - a : 2^(a + b) = 2^a * 2^b
=============================================================================
