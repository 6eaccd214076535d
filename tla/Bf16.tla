-------------------------------- MODULE Bf16 --------------------------------
(***************************************************************************)
(* The BF16 arithmetic of the golden model (model/bf16.py): patterns of a   *)
(* narrow format, every operation carried out in a wide one that has        *)
(* LowBits more significand bits and the same exponent field, and one       *)
(* rounding primitive that adds half a unit and truncates.                  *)
(*                                                                          *)
(* In the code ExpBits = 8, ManBits = 7 and LowBits = 16.  What makes the   *)
(* detour through the wide format safe is LowBits = 2 * (ManBits + 1): the  *)
(* relation, not the widths, is kept in the small instances.                *)
(***************************************************************************)
EXTENDS Powers

CONSTANTS ExpBits, ManBits, LowBits,
          MaxBits   \* bound on the bits of the integers a real is kept in

ASSUME WidthAssumption == /\ ExpBits \in Nat \ {0, 1}
                          /\ ManBits \in Nat \ {0}
                          /\ LowBits \in Nat \ {0}
\* Python's integers have no width: MaxBits is large enough for a product of two
\* wide significands, and for a sum aligned at the smallest exponent.
ASSUME BitsAssumption == /\ MaxBits \in Nat /\ PowersOfTwo(MaxBits)
                         /\ ExpBits + ManBits + LowBits <= MaxBits
                         /\ 2 * (ManBits + LowBits + 1) <= MaxBits
                         /\ 2^ExpBits + ManBits + LowBits <= MaxBits

\* What makes the detour safe: twice the significand and more fits in a wide one.
ASSUME DetourAssumption == ManBits >= 2 /\ LowBits >= 2 * (ManBits + 1)

N == INSTANCE FloatFormat
W == INSTANCE FloatFormat WITH ManBits <- ManBits + LowBits

\* BF16 is the upper part of FP32: widening appends zeros.
bf16_to_f32(u) == u * 2^LowBits

flushed(u) == IF N!IsSubnormal(u) THEN N!WithSign(N!Sign(u), 0) ELSE u

\* Mutant: half a unit is added whatever the retained place is.
round_f32_to_bf16_ties_away(w, flush) ==
  LET rounded == ((w + 2^(LowBits - 1)) \div 2^LowBits) % (2 * N!SignMask)
      out == IF W!IsNaN(w) THEN N!QNaN ELSE rounded
  IN IF flush THEN flushed(out) ELSE out

\* Half a unit of the retained last place less one, and one more when that
\* place is odd; a NaN is made canonical, since adding could carry it to Inf.
round_f32_to_bf16(w, flush) ==
  LET lsb == (w \div 2^LowBits) % 2
      rounded == ((w + 2^(LowBits - 1) - 1 + lsb) \div 2^LowBits) % (2 * N!SignMask)
      out == IF W!IsNaN(w) THEN N!QNaN ELSE rounded
  IN IF flush THEN flushed(out) ELSE out

f32_to_bf16(w) == round_f32_to_bf16(w, FALSE)

\* A finite FP64 value, rounded to FP32 by astype and then to BF16.
to_bf16(s, num, exp) == f32_to_bf16(W!WithSign(s, W!RoundMagnitude(num, exp)))

bf16_neg(u) == N!FlipSign(u)

bf16_mul(a, b, flush) ==
  round_f32_to_bf16(W!IeeeMul(bf16_to_f32(a), bf16_to_f32(b)), flush)
bf16_add(a, b, flush) ==
  round_f32_to_bf16(W!IeeeAdd(bf16_to_f32(a), bf16_to_f32(b)), flush)
bf16_sub(a, b, flush) ==
  round_f32_to_bf16(W!IeeeAdd(bf16_to_f32(a), W!FlipSign(bf16_to_f32(b))), flush)

(***************************************************************************)
(* The slow reference of the test suite: the truncated pattern and the next *)
(* one away from zero, the nearer of the two, and the even one on a tie.    *)
(* Above the largest finite pattern the next one stands for 2^(emax+1).     *)
(***************************************************************************)
round_reference_scalar(w) ==
  LET lo == w \div 2^LowBits
      hi == (lo + 1) % (2 * N!SignMask)
      \* distances in units of the last place of the wide value's binade
      gap == W!Significand(w) - N!Significand(lo) * 2^LowBits
      rest == 2^LowBits - gap
  IN IF W!IsNaN(w) THEN N!QNaN
     ELSE IF W!IsInf(w) \/ gap = 0 \/ gap < rest THEN lo
     ELSE IF rest < gap THEN hi
     ELSE IF lo % 2 = 0 THEN lo ELSE hi
=============================================================================
