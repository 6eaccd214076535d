---------------------------- MODULE FloatFormat ----------------------------
(***************************************************************************)
(* One binary floating-point format: sign, ExpBits exponent bits, ManBits   *)
(* stored significand bits, as the bit patterns the golden model (bf16.py)  *)
(* computes with.  BF16, FP32 and FP64 are instances of this module with    *)
(* the same layout and different widths.                                    *)
(*                                                                          *)
(* A finite real is a pair (num, exp), standing for num * 2^exp, with its   *)
(* sign apart: everything stays an integer, as in bf16_fma.py.              *)
(***************************************************************************)
EXTENDS Integers

CONSTANTS ExpBits, ManBits,
          MaxBits   \* bound on the bits of an integer

Bias == 2^(ExpBits - 1) - 1
ExpOnes == 2^ExpBits - 1
SignMask == 2^(ExpBits + ManBits)
PosInf == ExpOnes * 2^ManBits
QNaN == PosInf + 2^(ManBits - 1)
Patterns == 0 .. 2 * SignMask - 1
\* The exponent of the last place of subnormals, and of the lowest binade.
MinExp == 1 - Bias - ManBits

Sign(u) == u \div SignMask
Magnitude(u) == u % SignMask
Field(u) == Magnitude(u) \div 2^ManBits
Mantissa(u) == u % 2^ManBits
WithSign(s, magnitude) == s * SignMask + magnitude
FlipSign(u) == WithSign(1 - Sign(u), Magnitude(u))

IsNaN(u) == Field(u) = ExpOnes /\ Mantissa(u) # 0
IsInf(u) == Field(u) = ExpOnes /\ Mantissa(u) = 0
IsZero(u) == Magnitude(u) = 0
IsSubnormal(u) == Field(u) = 0 /\ Mantissa(u) # 0
IsNormal(u) == Field(u) # 0 /\ Field(u) # ExpOnes

\* The value of a pattern; of infinity, the value its pattern would have in
\* an unbounded exponent range, which is the one IEEE 754 rounds against.
Significand(u) == IF Field(u) = 0 THEN Mantissa(u) ELSE 2^ManBits + Mantissa(u)
Exponent(u) == (IF Field(u) = 0 THEN 1 ELSE Field(u)) - Bias - ManBits

\* n1 * 2^e1 <= n2 * 2^e2, by aligning the two at the smaller exponent.
LeqAt(n1, e1, n2, e2) ==
  IF e1 >= e2 THEN n1 * 2^(e1 - e2) <= n2 ELSE n1 <= n2 * 2^(e2 - e1)
LessAt(n1, e1, n2, e2) == ~ LeqAt(n2, e2, n1, e1)

(***************************************************************************)
(* Round to nearest, ties to even, as a relation: the magnitude r is the    *)
(* rounding of num * 2^exp when the value lies between the two midpoints    *)
(* that surround r, and on a midpoint only if r is even.                    *)
(***************************************************************************)
RoundsTo(num, exp, r) ==
  /\ r <= PosInf
  /\ r # PosInf =>
       IF r % 2 = 0 THEN LeqAt(num, exp, 2 * Significand(r) + 1, Exponent(r) - 1)
                    ELSE LessAt(num, exp, 2 * Significand(r) + 1, Exponent(r) - 1)
  /\ r # 0 =>
       LET p == r - 1
       IN IF r % 2 = 0 THEN LeqAt(2 * Significand(p) + 1, Exponent(p) - 1, num, exp)
                       ELSE LessAt(2 * Significand(p) + 1, Exponent(p) - 1, num, exp)

(***************************************************************************)
(* The same as a function, for the IEEE arithmetic the Python runs on (the  *)
(* numpy operations on float32 and float64): round onto the grid of the     *)
(* value's binade, where a carry out of the significand moves to the next   *)
(* binade, and past the last one to infinity, by itself.                    *)
(***************************************************************************)
BitLength(n) == IF n = 0 THEN 0 ELSE CHOOSE k \in 1 .. MaxBits : 2^(k - 1) <= n /\ n < 2^k

RoundedQuotient(n, d) ==
  LET q == n \div d
      twice == 2 * (n % d)
  IN IF twice > d \/ (twice = d /\ q % 2 = 1) THEN q + 1 ELSE q

RoundMagnitude(num, exp) ==
  LET top == exp + BitLength(num) - 1 - ManBits
      grid == IF top > MinExp THEN top ELSE MinExp
      sig == IF exp >= grid THEN num * 2^(exp - grid)
             ELSE RoundedQuotient(num, 2^(grid - exp))
      magnitude == (grid - MinExp) * 2^ManBits + sig
  IN IF num = 0 THEN 0 ELSE IF magnitude > PosInf THEN PosInf ELSE magnitude

\* The sum of two finite reals: exact, as a sign and a pair.
SumOf(s1, n1, e1, s2, n2, e2) ==
  LET low == IF e1 < e2 THEN e1 ELSE e2
      total == (IF s1 = 1 THEN -n1 ELSE n1) * 2^(e1 - low)
               + (IF s2 = 1 THEN -n2 ELSE n2) * 2^(e2 - low)
  IN [sign |-> IF total < 0 THEN 1 ELSE 0,
      num |-> IF total < 0 THEN -total ELSE total, exp |-> low]

\* IEEE multiplication and addition of this format.
IeeeMul(a, b) ==
  LET s == (Sign(a) + Sign(b)) % 2
  IN IF IsNaN(a) \/ IsNaN(b) \/ (IsInf(a) /\ IsZero(b)) \/ (IsZero(a) /\ IsInf(b)) THEN QNaN
     ELSE IF IsInf(a) \/ IsInf(b) THEN WithSign(s, PosInf)
     ELSE WithSign(s, RoundMagnitude(Significand(a) * Significand(b), Exponent(a) + Exponent(b)))

IeeeAdd(a, b) ==
  IF IsNaN(a) \/ IsNaN(b) \/ (IsInf(a) /\ IsInf(b) /\ Sign(a) # Sign(b)) THEN QNaN
  ELSE IF IsInf(a) THEN a
  ELSE IF IsInf(b) THEN b
  ELSE LET t == SumOf(Sign(a), Significand(a), Exponent(a), Sign(b), Significand(b), Exponent(b))
       IN IF t.num = 0 THEN WithSign(IF Sign(a) = 1 /\ Sign(b) = 1 THEN 1 ELSE 0, 0)
          ELSE WithSign(t.sign, RoundMagnitude(t.num, t.exp))
=============================================================================
