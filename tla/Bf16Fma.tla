------------------------------ MODULE Bf16Fma ------------------------------
(***************************************************************************)
(* The golden model of the fused multiply-add (model/bf16_fma.py): an exact *)
(* integer path that rounds once, and a fast path that computes in FP64 and *)
(* narrows through FP32, used only for operands the code deems safe.        *)
(*                                                                          *)
(* Binades is the distance up to which product and addend count as close    *)
(* (20 in the code, which is 3 * (ManBits + 1) - 4); DoubleExp and          *)
(* DoubleMan are the widths of FP64 (11 and 52).                            *)
(***************************************************************************)
EXTENDS Bf16

CONSTANTS Binades, DoubleExp, DoubleMan

D == INSTANCE FloatFormat WITH ExpBits <- DoubleExp, ManBits <- DoubleMan

\* An exact sum of a product and an addend fits in MaxBits, as does the vector
\* the unit aligns them in; FP64 is fine enough for every such sum, and FP32 not
\* further from it than MaxBits nor finer than the smallest product.
ASSUME FmaAssumption == /\ DoubleExp \in Nat \ {0} /\ DoubleMan \in Nat \ {0}
                        /\ DoubleExp + DoubleMan <= MaxBits
                        /\ 3 * N!Bias + 2 * ManBits + 2 <= MaxBits
                        /\ 4 * N!Bias <= MaxBits /\ 3 * ManBits + 8 <= MaxBits
                        /\ D!MinExp <= 2 * N!MinExp
                        /\ W!MinExp - D!MinExp <= MaxBits
                        /\ LowBits <= N!Bias + ManBits

\* The sum of a product and an addend no further than Binades apart is exact in
\* FP64, and its narrowing to FP32 cannot make a tie of it.
ASSUME ShortcutAssumption == /\ Binades \in 1 .. LowBits + ManBits - 1
                             /\ Binades + 2 * (ManBits + 1) <= DoubleMan + 1
                             /\ N!Bias + Binades + ManBits + 1 <= D!Bias

SigBits == ManBits + 1

\* num * 2^exp onto the grid of 2^SUB_EXP, with the early exit far below it.
SubnormalGrid(sign, num, exp) ==
  LET shift == N!MinExp - exp
      sig == IF shift <= 0 THEN num * 2^(-shift)
             ELSE LET keep == num \div 2^shift
                      rem == num % 2^shift
                      half == 2^(shift - 1)
                  IN IF rem > half \/ (rem = half /\ keep % 2 = 1) THEN keep + 1 ELSE keep
  IN IF shift > N!BitLength(num) + 2 THEN N!WithSign(sign, 0)
     ELSE IF sig >= 2^ManBits THEN N!WithSign(sign, 2^ManBits)
     ELSE N!WithSign(sign, sig)

\* The significand kept of num, and the number of places dropped to get it: a
\* carry out of the significand drops one more.
Kept(num) ==
  LET shift == N!BitLength(num) - SigBits
      keep == num \div 2^shift
      rem == num % 2^shift
      half == 2^(shift - 1)
      up == IF rem > half \/ (rem = half /\ keep % 2 = 1) THEN keep + 1 ELSE keep
  IN IF shift <= 0 THEN [sig |-> num * 2^(-shift), shift |-> shift]
     ELSE IF up \div 2^SigBits = 1 THEN [sig |-> up \div 2, shift |-> shift + 1]
     ELSE [sig |-> up, shift |-> shift]

round_exact_to_bf16(sign, num, exp) ==
  LET biased == exp + N!BitLength(num) - 1 + N!Bias
      kept == Kept(num)
      e == exp + kept.shift + ManBits + N!Bias
  IN IF num = 0 THEN N!WithSign(sign, 0)
     ELSE IF biased <= 0 THEN SubnormalGrid(sign, num, exp)
     ELSE IF e >= N!ExpOnes THEN N!WithSign(sign, N!PosInf)
     ELSE IF e <= 0 THEN SubnormalGrid(sign, num, exp)
     ELSE N!WithSign(sign, e * 2^ManBits + (kept.sig % 2^ManBits))

\* The exact a*b + c, or a*b - c: the sign of c is inverted whatever it is.
ExactSum(a, b, c, sub) ==
  N!SumOf((N!Sign(a) + N!Sign(b)) % 2, N!Significand(a) * N!Significand(b),
          N!Exponent(a) + N!Exponent(b),
          (N!Sign(c) + sub) % 2, N!Significand(c), N!Exponent(c))

bf16_fma_exact(a, b, c, sub) ==
  LET csign == (N!Sign(c) + sub) % 2
      psign == (N!Sign(a) + N!Sign(b)) % 2
      infProduct == N!IsInf(a) \/ N!IsInf(b)
      total == ExactSum(a, b, c, sub)
      bothZero == /\ N!Significand(a) * N!Significand(b) = 0
                  /\ N!Significand(c) = 0
  IN IF N!IsNaN(a) \/ N!IsNaN(b) \/ N!IsNaN(c) THEN N!QNaN
     ELSE IF (N!IsInf(a) /\ N!IsZero(b)) \/ (N!IsInf(b) /\ N!IsZero(a)) THEN N!QNaN
     ELSE IF infProduct /\ N!IsInf(c) /\ csign # psign THEN N!QNaN
     ELSE IF infProduct THEN N!WithSign(psign, N!PosInf)
     ELSE IF N!IsInf(c) THEN N!WithSign(csign, N!PosInf)
     ELSE IF bothZero THEN N!WithSign(psign * csign, 0)
     ELSE IF total.num = 0 THEN N!WithSign(0, 0)
     ELSE round_exact_to_bf16(total.sign, total.num, total.exp)

\* The exponent of the leading bit of a normal number, to estimate the risk.
exp_of(u) == IF N!Field(u) = 0 THEN 1 - N!Bias - ManBits ELSE N!Field(u) - N!Bias

\* Mutant: FP64 is trusted for normal numbers at any distance.
riskySpecialsOnly(a, b, c) == ~ (N!IsNormal(a) /\ N!IsNormal(b) /\ N!IsNormal(c))

risky(a, b, c) ==
  LET distance == exp_of(a) + exp_of(b) - exp_of(c)
  IN \/ ~ (N!IsNormal(a) /\ N!IsNormal(b) /\ N!IsNormal(c))
     \/ distance > Binades
     \/ distance < -Binades

\* af * bf + cf in FP64, where the product of two normals is exact; the sum is
\* one FP64 rounding, and an exact zero is +0.
double_path(a, b, c, sub) ==
  LET total == ExactSum(a, b, c, sub)
      d == D!RoundMagnitude(total.num, total.exp)
  IN to_bf16(total.sign, D!Significand(d), D!Exponent(d))

bf16_fma(a, b, c, sub) ==
  IF risky(a, b, c) THEN bf16_fma_exact(a, b, c, sub) ELSE double_path(a, b, c, sub)
=============================================================================
