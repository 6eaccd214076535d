------------------------------ MODULE FpnewFma ------------------------------
(***************************************************************************)
(* The arithmetic of the BF16 units in hardware: rope_bf16_unit.sv drives   *)
(* fpnew_fma.sv, whose datapath for round-to-nearest-even is modelled here  *)
(* bit by bit: addend aligned against the product in a vector of 3p+4 bits, *)
(* the bits shifted out kept as one sticky bit, subtraction by complement,  *)
(* leading-zero count, two normalisation shifts, round and sticky bits.     *)
(* p = ManBits + 1 (PRECISION_BITS).                                        *)
(***************************************************************************)
EXTENDS FloatFormat

P == ManBits + 1
\* The low w bits of a vector, and a bit as a number.
Lower(n, w) == n % 2^w
Bool(b) == IF b THEN 1 ELSE 0

\* Biased exponents; a subnormal operand counts as exponent 1.
Biased(u) == Field(u) + Bool(IsSubnormal(u))
ExponentAddend(c) == Field(c) + Bool(~ IsNormal(c))
ExponentProduct(a, b) ==
  IF IsZero(a) \/ IsZero(b) THEN 2 - Bias ELSE Biased(a) + Biased(b) - Bias
ExponentDifference(a, b, c) == ExponentAddend(c) - ExponentProduct(a, b)

AddendShift(difference) ==
  IF difference <= -2 * P - 1 THEN 3 * P + 4
  ELSE IF difference <= P + 2 THEN P + 3 - difference
  ELSE 0

EffectiveSubtraction(a, b, c) == (Sign(a) + Sign(b) + Sign(c)) % 2 = 1

\* The 3p+4-bit addition: its magnitude, its sign and the addend's sticky bit.
Adder(a, b, c) ==
  LET shifted == (Significand(c) * 2^(3 * P + 4))
                   \div 2^AddendShift(ExponentDifference(a, b, c))
      addend == shifted \div 2^P
      sticky == shifted % 2^P # 0
      product == Significand(a) * Significand(b) * 4
      subtract == EffectiveSubtraction(a, b, c)
      tentative == (Sign(a) + Sign(b)) % 2
      raw == IF subtract
             THEN product + (2^(3 * P + 4) - 1 - addend) + Bool(~ sticky)
             ELSE product + addend
      carry == raw \div 2^(3 * P + 4)
  IN [sum |-> Lower(IF subtract /\ carry = 0 THEN -raw ELSE raw, 3 * P + 4),
      sign |-> IF subtract THEN Bool(carry = tentative) ELSE tentative,
      sticky |-> sticky]

\* Leading zeros of the lower 2p+3 bits of the sum, and whether all are zero.
LowerSum(sum) == Lower(sum, 2 * P + 3)
LeadingZeros(sum) == 2 * P + 3 - BitLength(LowerSum(sum))

\* The first normalisation: by the leading zeros where the product decides the
\* position or the operands may cancel, else the addend's shift undone.
Normalize(difference, product, subtract, addend, sum) ==
  LET zeros == LeadingZeros(sum)
  IN IF difference <= 0 \/ (subtract /\ difference <= 2)
     THEN IF product - zeros + 1 >= 0 /\ LowerSum(sum) # 0
          THEN [shift |-> P + 2 + zeros, exp |-> product - zeros + 1]
          ELSE [shift |-> P + 2 + product, exp |-> 0]
     ELSE [shift |-> AddendShift(difference),
           exp |-> IF difference > 0 THEN addend ELSE product]

\* The second, by one place either way, on the 3p+5-bit vector.
SmallNormalize(shifted, exp) ==
  IF shifted \div 2^(3 * P + 4) = 1 THEN [sum |-> shifted \div 2, exp |-> exp + 1]
  ELSE IF (shifted \div 2^(3 * P + 3)) % 2 = 1
       THEN [sum |-> shifted, exp |-> exp]
  ELSE IF exp > 1 THEN [sum |-> Lower(shifted * 2, 3 * P + 5), exp |-> exp - 1]
  ELSE [sum |-> shifted, exp |-> 0]

\* fpnew_rounding, in round-to-nearest-even.
RoundUp(magnitude, round, sticky) == round /\ (sticky \/ magnitude % 2 = 1)

\* The result: an exact zero is positive when the operands cancel.
Rounded(sum, exp, below, sign, subtract) ==
  LET final == sum \div 2^(2 * P + 3)
      overflow == exp >= ExpOnes
      magnitude == IF overflow THEN PosInf - 1
                   ELSE exp * 2^ManBits + ((final \div 2) % 2^ManBits)
      round == overflow \/ final % 2 = 1
      sticky == overflow \/ sum % 2^(2 * P + 3) # 0 \/ below
      zero == magnitude = 0 /\ ~ round /\ ~ sticky
  IN WithSign(IF zero /\ subtract THEN 0 ELSE sign,
                magnitude + Bool(RoundUp(magnitude, round, sticky)))

Finite(a, b, c) ==
  LET add == Adder(a, b, c)
      subtract == EffectiveSubtraction(a, b, c)
      first == Normalize(ExponentDifference(a, b, c), ExponentProduct(a, b), subtract,
                         ExponentAddend(c), add.sum)
      norm == SmallNormalize(Lower(add.sum * 2^first.shift, 3 * P + 5), first.exp)
  IN Rounded(norm.sum, norm.exp, add.sticky, add.sign, subtract)

Fmadd(a, b, c) ==
  LET psign == (Sign(a) + Sign(b)) % 2
  IN IF (IsInf(a) /\ IsZero(b)) \/ (IsZero(a) /\ IsInf(b)) THEN QNaN
     ELSE IF IsNaN(a) \/ IsNaN(b) \/ IsNaN(c) THEN QNaN
     ELSE IF IsInf(a) \/ IsInf(b)
          THEN IF IsInf(c) /\ EffectiveSubtraction(a, b, c) THEN QNaN
               ELSE WithSign(psign, PosInf)
     ELSE IF IsInf(c) THEN c
     ELSE Finite(a, b, c)

\* The operations of rope_bf16_unit: operands and op_mod as the unit sets them.
Modified(c, mod) == WithSign((Sign(c) + mod) % 2, Magnitude(c))
One == Bias * 2^ManBits

UnitMul(a, b) == Fmadd(a, b, WithSign(1, 0))
\* Mutant: the addends in slots 0 and 1, as for a product.
UnitAddFirstSlots(a, b, mod) == Fmadd(One, b, Modified(0, mod))
UnitAdd(a, b, mod) == Fmadd(One, a, Modified(b, mod))
UnitFma(a, b, c, mod) == Fmadd(a, b, Modified(c, mod))
=============================================================================
