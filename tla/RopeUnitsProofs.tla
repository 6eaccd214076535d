-------------------------- MODULE RopeUnitsProofs --------------------------
(***************************************************************************)
(* The BF16 units round once, as the golden model does.                    *)
(*                                                                         *)
(* Every value met is a whole number of one small unit, below which no     *)
(* product of two patterns has a bit; two patterns that round the same     *)
(* number of units are the same.  The aligned addition of fpnew_fma and    *)
(* the integer model give the nearest pattern to the exact value; so does  *)
(* rounding to FP32 or FP64 first, since no value that is nearer than half *)
(* a place of the wide format to a midpoint of two BF16 patterns is a sum  *)
(* or product of such patterns unless it is that midpoint.                 *)
(***************************************************************************)
EXTENDS RopeModelProofs

(* The narrow format with the units, the wide one and the double one, with   *)
(* what is proved of every format.                                           *)
NT == INSTANCE FloatProofs
WT == INSTANCE FloatProofs WITH ManBits <- ManBits + LowBits
DT == INSTANCE FloatProofs WITH ExpBits <- DoubleExp, ManBits <- DoubleMan

(* The unit that sums and products are counted in.                           *)
Unit == NT!Fine

-----------------------------------------------------------------------------
(* The formats.                                                              *)

LEMMA FormatsAre ==
  /\ NT!Room /\ NT!Format /\ WT!Format /\ DT!Format
  /\ MaxBits \in Nat /\ ManBits \in Nat /\ ManBits >= 2 /\ LowBits \in Nat
  /\ LowBits >= 2 * ManBits + 2
<1>1. /\ ExpBits \in Nat \ {0, 1} /\ ManBits \in Nat /\ ManBits >= 2 /\ LowBits \in Nat \ {0}
      /\ MaxBits \in Nat /\ PowersOfTwo(MaxBits) /\ LowBits >= 2 * ManBits + 2
      /\ ExpBits + ManBits + LowBits <= MaxBits
  BY WidthAssumption, BitsAssumption, DetourAssumption
<1>2. NT!PowersOfTwo(MaxBits) /\ WT!PowersOfTwo(MaxBits) /\ DT!PowersOfTwo(MaxBits)
  BY <1>1 DEF PowersOfTwo, NT!PowersOfTwo, WT!PowersOfTwo, DT!PowersOfTwo
<1>3. NT!Format
  <2>1. ExpBits + ManBits <= MaxBits
    BY <1>1
  <2>2. QED
    BY <1>1, <1>2, <2>1 DEF NT!Format
<1>4. WT!Format
  <2>1. ExpBits + (ManBits + LowBits) <= MaxBits /\ ManBits + LowBits \in Nat \ {0}
    BY <1>1
  <2>2. QED
    BY <1>1, <1>2, <2>1 DEF WT!Format
<1>5. DT!Format
  <2>1. DoubleExp \in Nat \ {0, 1}
    <3>1. DoubleExp \in Nat \ {0} /\ N!Bias + Binades + ManBits + 1 <= D!Bias
      BY FmaAssumption, ShortcutAssumption
    <3>2. CASE DoubleExp = 1
      <4>1. D!Bias = 2^0 - 1
        BY <3>2 DEF D!Bias
      <4>2. 2^0 = 1
        OBVIOUS
      <4>3. N!Bias \in Nat /\ Binades \in Nat
        <5>1. ExpBits - 1 \in 0 .. MaxBits
          BY <1>1
        <5>2. 2^(ExpBits - 1) \in Nat \ {0}
          BY <1>1, <5>1 DEF PowersOfTwo
        <5>3. QED
          BY <5>2, ShortcutAssumption DEF N!Bias
      <4>4. QED
        BY <1>1, <3>1, <4>1, <4>2, <4>3
    <3>3. QED
      BY <3>1, <3>2
  <2>2. QED
    BY <1>1, <1>2, <2>1, FmaAssumption DEF DT!Format
<1>6. NT!Room
  <2>1. N!Bias = NT!Bias
    BY DEF N!Bias, NT!Bias
  <2>2. QED
    BY <1>3, <2>1, FmaAssumption DEF NT!Room
<1>7. QED
  BY <1>1, <1>3, <1>4, <1>5, <1>6

(* The two ways to name a format's parts.                                    *)
LEMMA NarrowNames ==
  /\ NT!PosInf = N!PosInf /\ NT!SignMask = N!SignMask /\ NT!MinExp = N!MinExp /\ NT!Bias = N!Bias
  /\ NT!ExpOnes = N!ExpOnes /\ NT!Patterns = N!Patterns /\ NT!Fields = Fields
  /\ NT!Mantissas = Mantissas /\ NT!QNaN = N!QNaN
BY DEF NT!PosInf, N!PosInf, NT!SignMask, N!SignMask, NT!MinExp, N!MinExp, NT!Bias, N!Bias,
       NT!ExpOnes, N!ExpOnes, NT!Patterns, N!Patterns, NT!Fields, Fields, NT!Mantissas, Mantissas,
       NT!QNaN, N!QNaN

LEMMA NarrowPartNames ==
  ASSUME NEW u
  PROVE  /\ NT!Significand(u) = N!Significand(u) /\ NT!Exponent(u) = N!Exponent(u)
         /\ NT!Sign(u) = N!Sign(u) /\ NT!Magnitude(u) = N!Magnitude(u) /\ NT!Field(u) = N!Field(u)
BY DEF NT!Significand, N!Significand, NT!Exponent, N!Exponent, NT!Sign, N!Sign,
       NT!Magnitude, N!Magnitude, NT!Field, N!Field, NT!Mantissa, N!Mantissa, NT!SignMask, N!SignMask,
       NT!Bias, N!Bias

LEMMA NarrowRoundNames ==
  ASSUME NEW num, NEW ex, NEW r
  PROVE  /\ NT!RoundMagnitude(num, ex) = N!RoundMagnitude(num, ex)
         /\ NT!RoundsTo(num, ex, r) <=> N!RoundsTo(num, ex, r)
         /\ NT!BitLength(num) = N!BitLength(num)
<1>1. NT!RoundMagnitude(num, ex) = N!RoundMagnitude(num, ex)
  BY DEF NT!RoundMagnitude, N!RoundMagnitude, NT!BitLength, N!BitLength, NT!RoundedQuotient,
         N!RoundedQuotient, NT!MinExp, N!MinExp, NT!Bias, N!Bias, NT!PosInf, N!PosInf,
         NT!ExpOnes, N!ExpOnes
<1>2. NT!RoundsTo(num, ex, r) <=> N!RoundsTo(num, ex, r)
  BY DEF NT!RoundsTo, N!RoundsTo, NT!LeqAt, N!LeqAt, NT!LessAt, N!LessAt, NT!PosInf, N!PosInf,
         NT!ExpOnes, N!ExpOnes, NT!Significand, N!Significand, NT!Exponent, N!Exponent,
         NT!Magnitude, N!Magnitude, NT!Field, N!Field, NT!Mantissa, N!Mantissa, NT!SignMask, N!SignMask,
         NT!Bias, N!Bias
<1>3. NT!BitLength(num) = N!BitLength(num)
  BY DEF NT!BitLength, N!BitLength
<1>4. QED
  BY <1>1, <1>2, <1>3

LEMMA WideNames ==
  /\ WT!PosInf = W!PosInf /\ WT!MinExp = W!MinExp /\ WT!Mantissas = WideMantissas
  /\ WT!Fields = Fields /\ WT!SignMask = W!SignMask /\ WT!Bias = W!Bias
BY DEF WT!PosInf, W!PosInf, WT!MinExp, W!MinExp, WT!Mantissas, WideMantissas, WT!Fields, Fields,
       WT!SignMask, W!SignMask, WT!Bias, W!Bias, WT!ExpOnes, W!ExpOnes

LEMMA WidePartNames ==
  ASSUME NEW u
  PROVE  WT!Significand(u) = W!Significand(u) /\ WT!Exponent(u) = W!Exponent(u)
BY DEF WT!Significand, W!Significand, WT!Exponent, W!Exponent, WT!Magnitude, W!Magnitude,
       WT!Field, W!Field, WT!Mantissa, W!Mantissa, WT!SignMask, W!SignMask, WT!Bias, W!Bias

LEMMA WideRoundNames ==
  ASSUME NEW num, NEW ex
  PROVE  WT!RoundMagnitude(num, ex) = W!RoundMagnitude(num, ex) /\ WT!BitLength(num) = W!BitLength(num)
<1>1. WT!RoundMagnitude(num, ex) = W!RoundMagnitude(num, ex)
  BY DEF WT!RoundMagnitude, W!RoundMagnitude, WT!BitLength, W!BitLength, WT!RoundedQuotient,
         W!RoundedQuotient, WT!MinExp, W!MinExp, WT!Bias, W!Bias, WT!PosInf, W!PosInf,
         WT!ExpOnes, W!ExpOnes
<1>2. WT!BitLength(num) = W!BitLength(num)
  BY DEF WT!BitLength, W!BitLength
<1>3. QED
  BY <1>1, <1>2

LEMMA DoubleNames ==
  ASSUME NEW num, NEW ex
  PROVE  /\ DT!RoundMagnitude(num, ex) = D!RoundMagnitude(num, ex)
         /\ DT!Significand(num) = D!Significand(num) /\ DT!Exponent(num) = D!Exponent(num)
         /\ DT!MinExp = D!MinExp /\ DT!BitLength(num) = N!BitLength(num) /\ DT!Bias = D!Bias
<1>1. DT!RoundMagnitude(num, ex) = D!RoundMagnitude(num, ex)
  BY DEF DT!RoundMagnitude, D!RoundMagnitude, DT!BitLength, D!BitLength, DT!RoundedQuotient,
         D!RoundedQuotient, DT!MinExp, D!MinExp, DT!Bias, D!Bias, DT!PosInf, D!PosInf,
         DT!ExpOnes, D!ExpOnes
<1>2. DT!Significand(num) = D!Significand(num) /\ DT!Exponent(num) = D!Exponent(num)
  BY DEF DT!Significand, D!Significand, DT!Exponent, D!Exponent, DT!Magnitude, D!Magnitude,
         DT!Field, D!Field, DT!Mantissa, D!Mantissa, DT!SignMask, D!SignMask, DT!Bias, D!Bias
<1>3. DT!MinExp = D!MinExp /\ DT!BitLength(num) = N!BitLength(num) /\ DT!Bias = D!Bias
  BY DEF DT!MinExp, D!MinExp, DT!BitLength, N!BitLength, DT!Bias, D!Bias
<1>4. QED
  BY <1>1, <1>2, <1>3

(* The datapath of a unit, part by part.                                     *)
LEMMA DatapathNames ==
  ASSUME NEW a, NEW b, NEW c
  PROVE  /\ H!ExponentDifference(a, b, c) = NT!ExponentDifference(a, b, c)
         /\ H!ExponentProduct(a, b) = NT!ExponentProduct(a, b)
         /\ H!ExponentAddend(c) = NT!ExponentAddend(c)
         /\ H!EffectiveSubtraction(a, b, c) = NT!EffectiveSubtraction(a, b, c)
         /\ H!AddendShift(a) = NT!AddendShift(a)
         /\ H!Significand(c) = NT!Significand(c) /\ H!Sign(c) = NT!Sign(c)
         /\ H!Lower(a, b) = NT!Lower(a, b) /\ H!Bool(a) = NT!Bool(a) /\ H!P = NT!P
         /\ H!BitLength(a) = NT!BitLength(a) /\ H!WithSign(a, b) = NT!WithSign(a, b)
<1>1. /\ H!Bias = NT!Bias /\ H!ExpOnes = NT!ExpOnes /\ H!SignMask = NT!SignMask
  BY DEF H!Bias, NT!Bias, H!ExpOnes, NT!ExpOnes, H!SignMask, NT!SignMask
<1>2. \A u : H!Sign(u) = NT!Sign(u) /\ H!Magnitude(u) = NT!Magnitude(u) /\ H!Mantissa(u) = NT!Mantissa(u)
  BY <1>1 DEF H!Sign, NT!Sign, H!Magnitude, NT!Magnitude, H!Mantissa, NT!Mantissa
<1>3. \A u : H!Field(u) = NT!Field(u)
  BY <1>2 DEF H!Field, NT!Field
<1>4. \A u : /\ H!IsZero(u) = NT!IsZero(u) /\ H!IsSubnormal(u) = NT!IsSubnormal(u)
             /\ H!IsNormal(u) = NT!IsNormal(u)
  BY <1>1, <1>2, <1>3 DEF H!IsZero, NT!IsZero, H!IsSubnormal, NT!IsSubnormal, H!IsNormal, NT!IsNormal
<1>5. \A u : H!Bool(u) = NT!Bool(u) /\ H!Significand(u) = NT!Significand(u)
  BY <1>2, <1>3 DEF H!Bool, NT!Bool, H!Significand, NT!Significand
<1>6. \A u : H!Biased(u) = NT!Biased(u) /\ H!ExponentAddend(u) = NT!ExponentAddend(u)
  BY <1>3, <1>4, <1>5 DEF H!Biased, NT!Biased, H!ExponentAddend, NT!ExponentAddend
<1>7. H!ExponentProduct(a, b) = NT!ExponentProduct(a, b)
  BY <1>1, <1>4, <1>6 DEF H!ExponentProduct, NT!ExponentProduct
<1>8. H!ExponentDifference(a, b, c) = NT!ExponentDifference(a, b, c)
  BY <1>6, <1>7 DEF H!ExponentDifference, NT!ExponentDifference
<1>9. H!EffectiveSubtraction(a, b, c) = NT!EffectiveSubtraction(a, b, c)
  BY <1>2 DEF H!EffectiveSubtraction, NT!EffectiveSubtraction
<1>10. /\ H!AddendShift(a) = NT!AddendShift(a) /\ H!Lower(a, b) = NT!Lower(a, b) /\ H!P = NT!P
       /\ H!BitLength(a) = NT!BitLength(a) /\ H!WithSign(a, b) = NT!WithSign(a, b)
  BY <1>1 DEF H!AddendShift, NT!AddendShift, H!Lower, NT!Lower, H!P, NT!P,
              H!BitLength, NT!BitLength, H!WithSign, NT!WithSign
<1>11. QED
  BY <1>2, <1>5, <1>6, <1>7, <1>8, <1>9, <1>10

LEMMA NormalizeNames ==
  ASSUME NEW d, NEW xp, NEW sub, NEW xc, NEW sum, NEW x, NEW below, NEW sign
  PROVE  /\ H!Normalize(d, xp, sub, xc, sum) = NT!Normalize(d, xp, sub, xc, sum)
         /\ H!SmallNormalize(sum, x) = NT!SmallNormalize(sum, x)
         /\ H!Rounded(sum, x, below, sign, sub) = NT!Rounded(sum, x, below, sign, sub)
<1>1. H!P = NT!P /\ H!LowerSum(sum) = NT!LowerSum(sum) /\ H!LeadingZeros(sum) = NT!LeadingZeros(sum)
  BY DEF H!P, NT!P, H!LowerSum, NT!LowerSum, H!Lower, NT!Lower, H!LeadingZeros, NT!LeadingZeros,
         H!BitLength, NT!BitLength
<1>2. H!AddendShift(d) = NT!AddendShift(d)
  BY DatapathNames
<1>3. H!Normalize(d, xp, sub, xc, sum) = NT!Normalize(d, xp, sub, xc, sum)
  BY <1>1, <1>2 DEF H!Normalize, NT!Normalize
<1>4. H!SmallNormalize(sum, x) = NT!SmallNormalize(sum, x)
  BY DEF H!SmallNormalize, NT!SmallNormalize, H!Lower, NT!Lower, H!P, NT!P
<1>5. H!Rounded(sum, x, below, sign, sub) = NT!Rounded(sum, x, below, sign, sub)
  BY DEF H!Rounded, NT!Rounded, H!RoundUp, NT!RoundUp, H!Bool, NT!Bool, H!P, NT!P,
         H!WithSign, NT!WithSign, H!SignMask, NT!SignMask, H!ExpOnes, NT!ExpOnes,
         H!PosInf, NT!PosInf
<1>6. QED
  BY <1>3, <1>4, <1>5

LEMMA AdderNames == ASSUME NEW a, NEW b, NEW c PROVE H!Adder(a, b, c) = NT!Adder(a, b, c)
<1>1. /\ H!ExponentDifference(a, b, c) = NT!ExponentDifference(a, b, c)
      /\ H!EffectiveSubtraction(a, b, c) = NT!EffectiveSubtraction(a, b, c)
      /\ H!Significand(a) = NT!Significand(a) /\ H!Significand(b) = NT!Significand(b)
      /\ H!Significand(c) = NT!Significand(c)
      /\ H!Sign(a) = NT!Sign(a) /\ H!Sign(b) = NT!Sign(b) /\ H!P = NT!P
  BY DatapathNames
<1>2. H!AddendShift(NT!ExponentDifference(a, b, c)) = NT!AddendShift(NT!ExponentDifference(a, b, c))
  BY DatapathNames
<1>3. \A u, v : H!Lower(u, v) = NT!Lower(u, v) /\ H!Bool(u) = NT!Bool(u)
  BY DatapathNames
<1>4. QED
  BY <1>1, <1>2, <1>3 DEF H!Adder, NT!Adder

LEMMA UnitNames ==
  ASSUME NEW a, NEW b, NEW c, NEW mod
  PROVE  /\ H!UnitMul(a, b) = NT!UnitMul(a, b) /\ H!UnitAdd(a, b, mod) = NT!UnitAdd(a, b, mod)
         /\ H!UnitFma(a, b, c, mod) = NT!UnitFma(a, b, c, mod)
<1>1. ASSUME NEW x, NEW y, NEW z PROVE H!Finite(x, y, z) = NT!Finite(x, y, z)
  <2>1. /\ H!Adder(x, y, z) = NT!Adder(x, y, z)
        /\ H!EffectiveSubtraction(x, y, z) = NT!EffectiveSubtraction(x, y, z)
        /\ H!ExponentDifference(x, y, z) = NT!ExponentDifference(x, y, z)
        /\ H!ExponentProduct(x, y) = NT!ExponentProduct(x, y)
        /\ H!ExponentAddend(z) = NT!ExponentAddend(z) /\ H!P = NT!P
    BY AdderNames, DatapathNames
  <2>2. PICK add, d, xp, sub, xc : /\ add = NT!Adder(x, y, z) /\ d = NT!ExponentDifference(x, y, z)
                                   /\ sub = NT!EffectiveSubtraction(x, y, z)
                                   /\ xp = NT!ExponentProduct(x, y) /\ xc = NT!ExponentAddend(z)
    OBVIOUS
  <2>3. PICK first : first = NT!Normalize(d, xp, sub, xc, add.sum) /\ first = H!Normalize(d, xp, sub, xc, add.sum)
    BY NormalizeNames
  <2>4. PICK low : low = NT!Lower(add.sum * 2^first.shift, 3 * NT!P + 5)
                   /\ low = H!Lower(add.sum * 2^first.shift, 3 * NT!P + 5)
    BY DatapathNames
  <2>5. PICK norm : norm = NT!SmallNormalize(low, first.exp) /\ norm = H!SmallNormalize(low, first.exp)
    BY NormalizeNames
  <2>6. H!Rounded(norm.sum, norm.exp, add.sticky, add.sign, sub)
          = NT!Rounded(norm.sum, norm.exp, add.sticky, add.sign, sub)
    BY NormalizeNames
  <2>7. H!Finite(x, y, z) = H!Rounded(norm.sum, norm.exp, add.sticky, add.sign, sub)
    BY <2>1, <2>2, <2>3, <2>4, <2>5, Zenon DEF H!Finite
  <2>8. NT!Finite(x, y, z) = NT!Rounded(norm.sum, norm.exp, add.sticky, add.sign, sub)
    BY <2>2, <2>3, <2>4, <2>5, Zenon DEF NT!Finite
  <2>9. QED
    BY <2>6, <2>7, <2>8
<1>2. ASSUME NEW x, NEW y, NEW z PROVE H!Fmadd(x, y, z) = NT!Fmadd(x, y, z)
  <2>1. ASSUME NEW u
        PROVE  H!IsNaN(u) = NT!IsNaN(u) /\ H!IsInf(u) = NT!IsInf(u) /\ H!IsZero(u) = NT!IsZero(u)
    BY DEF H!IsNaN, NT!IsNaN, H!IsInf, NT!IsInf, H!IsZero, NT!IsZero, H!Field, NT!Field,
           H!Magnitude, NT!Magnitude, H!Mantissa, NT!Mantissa, H!SignMask, NT!SignMask,
           H!ExpOnes, NT!ExpOnes
  <2>2. H!QNaN = NT!QNaN /\ H!PosInf = NT!PosInf
    BY DEF H!QNaN, NT!QNaN, H!PosInf, NT!PosInf, H!ExpOnes, NT!ExpOnes
  <2>3. /\ H!EffectiveSubtraction(x, y, z) = NT!EffectiveSubtraction(x, y, z)
        /\ H!Sign(x) = NT!Sign(x) /\ H!Sign(y) = NT!Sign(y)
        /\ \A s : H!WithSign(s, NT!PosInf) = NT!WithSign(s, NT!PosInf)
    BY DatapathNames
  <2>4. QED
    BY <1>1, <2>1, <2>2, <2>3 DEF H!Fmadd, NT!Fmadd
<1>3. /\ H!WithSign(1, 0) = NT!WithSign(1, 0) /\ H!One = NT!One
      /\ \A u : H!Modified(u, mod) = NT!Modified(u, mod)
  BY DEF H!WithSign, NT!WithSign, H!SignMask, NT!SignMask, H!One, NT!One, H!Bias, NT!Bias,
         H!Modified, NT!Modified, H!Sign, NT!Sign, H!Magnitude, NT!Magnitude
<1>4. QED
  BY <1>2, <1>3 DEF H!UnitMul, NT!UnitMul, H!UnitAdd, NT!UnitAdd, H!UnitFma, NT!UnitFma

-----------------------------------------------------------------------------
(* A unit for both formats.                                                  *)

LEMMA UnitFits ==
  /\ Unit \in Int /\ Unit = 2 * N!MinExp - 2 /\ N!MinExp \in Int /\ N!MinExp = 1 - N!Bias - ManBits
  /\ W!MinExp = N!MinExp - LowBits /\ N!Bias \in Nat /\ N!Bias >= 1 /\ Fields = 2 * (N!Bias + 1)
  /\ LowBits <= N!Bias + ManBits /\ 3 * N!Bias + 2 * ManBits + 2 <= MaxBits
  /\ NT!Base(Unit) /\ WT!Base(Unit)
<1>1. /\ NT!Room /\ MaxBits \in Nat /\ ManBits \in Nat /\ LowBits \in Nat /\ LowBits >= 1
      /\ ManBits >= 2
  BY FormatsAre
<1>2. /\ NT!Base(NT!Fine) /\ NT!Fine \in Int /\ NT!MinExp \in Int /\ NT!Bias \in Nat
      /\ NT!MinExp = 1 - NT!Bias - ManBits /\ NT!Fine = 2 * NT!MinExp - 2
      /\ NT!Fields = 2 * (NT!Bias + 1) /\ NT!Bias >= 1
  BY <1>1, NT!FineBase
<1>3. /\ NT!Base(Unit) /\ Unit \in Int /\ N!MinExp \in Int /\ N!Bias \in Nat
      /\ N!MinExp = 1 - N!Bias - ManBits /\ Unit = 2 * N!MinExp - 2
      /\ Fields = 2 * (N!Bias + 1) /\ N!Bias >= 1
  BY <1>2, NarrowNames DEF Unit
<1>4. W!MinExp = N!MinExp - LowBits
  <2>1. W!Bias = N!Bias /\ W!MinExp = 1 - W!Bias - (ManBits + LowBits)
    BY DEF W!Bias, N!Bias, W!MinExp
  <2>2. QED
    BY <1>1, <1>3, <2>1
<1>5. LowBits <= N!Bias + ManBits /\ 3 * N!Bias + 2 * ManBits + 2 <= MaxBits
  BY FmaAssumption
<1>6. WT!Base(Unit)
  <2>1. Unit <= W!MinExp - 1 /\ W!MinExp + Fields - Unit <= MaxBits
    BY <1>1, <1>3, <1>4, <1>5
  <2>2. WT!MinExp = W!MinExp /\ WT!Fields = Fields
    BY WideNames
  <2>3. QED
    BY <1>3, <2>1, <2>2 DEF WT!Base
<1>7. QED
  BY <1>3, <1>4, <1>5, <1>6

(* The powers of two up to MaxBits.                                          *)
LEMMA UnitPowers ==
  ASSUME NEW a \in Nat, NEW b \in Nat, a + b <= MaxBits
  PROVE  2^(a + b) = 2^a * 2^b /\ 2^a \in Nat \ {0} /\ 2^b \in Nat \ {0} /\ 2^(a + b) \in Nat \ {0}
BY PowersAdd

(* Half a wide place below the midpoint above a narrow magnitude.            *)
Fence(m) == 2^(N!Exponent(m) - LowBits - 1 - Unit)

(* A narrow magnitude in units: its half place is Lows fences.               *)
LEMMA FenceIs ==
  ASSUME NEW m \in 0 .. N!PosInf - 1
  PROVE  /\ m \in N!Patterns /\ Fence(m) \in Nat \ {0}
         /\ N!Significand(m) \in Nat /\ N!Exponent(m) \in Int /\ N!Exponent(m) >= N!MinExp
         /\ N!Exponent(m) <= N!MinExp + Fields - 2
         /\ N!Exponent(m) - LowBits - 1 - Unit \in 0 .. MaxBits
         /\ 2^(N!Exponent(m) - 1 - Unit) = Lows * Fence(m)
         /\ NT!HalfPlace(m, Unit) = Lows * Fence(m)
         /\ NT!Mid(m, Unit) = (2 * N!Significand(m) + 1) * (Lows * Fence(m))
         /\ NT!Mid(m, Unit) \in Nat
<1>1. /\ MaxBits \in Nat /\ ManBits \in Nat /\ LowBits \in Nat /\ LowBits >= 1 /\ NT!Format
  BY FormatsAre
<1>2. /\ Unit \in Int /\ Unit = 2 * N!MinExp - 2 /\ N!MinExp \in Int /\ N!MinExp = 1 - N!Bias - ManBits
      /\ N!Bias \in Nat /\ LowBits <= N!Bias + ManBits /\ NT!Base(Unit)
  BY UnitFits
<1>3. m \in 0 .. NT!PosInf /\ m \in N!Patterns
  <2>1. N!PosInf \in Nat /\ N!PosInf \in 0 .. N!SignMask - 1 /\ N!SignMask \in Nat
    BY NarrowInfinity, Sizes
  <2>2. QED
    BY <2>1, NarrowNames DEF N!Patterns
<1>4. PICK s \in Nat, e \in Int : s = N!Significand(m) /\ e = N!Exponent(m)
                                  /\ s = NT!Significand(m) /\ e = NT!Exponent(m)
  <2>1. N!Significand(m) = NT!Significand(m) /\ N!Exponent(m) = NT!Exponent(m)
    BY NarrowPartNames
  <2>2. NT!Significand(m) \in Nat /\ NT!Exponent(m) \in Int
    BY <1>1, <1>2, <1>3, NT!MagnitudeValue
  <2>3. QED
    BY <2>1, <2>2
<1>5. /\ e \in NT!MinExp .. NT!MinExp + NT!Fields - 2
      /\ e - 1 - Unit \in 0 .. MaxBits /\ NT!HalfPlace(m, Unit) \in Nat \ {0}
      /\ NT!Mid(m, Unit) \in Nat
  BY <1>1, <1>2, <1>3, <1>4, NT!MagnitudeValue
<1>6. e >= N!MinExp /\ e <= N!MinExp + Fields - 2 /\ Fields \in Nat
  BY <1>5, NarrowNames, Sizes
<1>7. e - LowBits - 1 - Unit \in Nat /\ e - LowBits - 1 - Unit <= MaxBits
  BY <1>1, <1>2, <1>5, <1>6
<1>8. PICK d \in Nat : d = e - LowBits - 1 - Unit /\ LowBits + d = e - 1 - Unit /\ LowBits + d <= MaxBits
  BY <1>1, <1>2, <1>5, <1>7
<1>9. 2^(LowBits + d) = 2^LowBits * 2^d /\ 2^d \in Nat \ {0}
  BY <1>1, <1>8, UnitPowers
<1>10. Fence(m) = 2^d /\ 2^(e - 1 - Unit) = Lows * Fence(m)
  BY <1>4, <1>8, <1>9 DEF Fence, Lows
<1>11. NT!HalfPlace(m, Unit) = Lows * Fence(m) /\ NT!Mid(m, Unit) = (2 * s + 1) * (Lows * Fence(m))
  BY <1>4, <1>10 DEF NT!HalfPlace, NT!Mid
<1>12. QED
  BY <1>3, <1>4, <1>5, <1>6, <1>7, <1>8, <1>9, <1>10, <1>11

(* The midpoint above a narrow magnitude is a wide value, and the midpoints  *)
(* around that one a fence away.                                             *)
LEMMA MidpointWide ==
  ASSUME NEW m \in 0 .. N!PosInf - 1, NEW j, j = m * Lows + 2^(LowBits - 1)
  PROVE  /\ j \in 1 .. W!PosInf - 1
         /\ WT!Val(j, Unit) = NT!Mid(m, Unit)
         /\ WT!Mid(j, Unit) = NT!Mid(m, Unit) + Fence(m)
         /\ WT!Mid(j - 1, Unit) = NT!Mid(m, Unit) - Fence(m)
<1>1. PICK half \in Nat \ {0} : half = 2^(LowBits - 1) /\ Lows = 2 * half
  BY Sizes
<1>2. PICK f \in Nat \ {0}, s \in Nat, e \in Int :
        /\ f = Fence(m) /\ s = N!Significand(m) /\ e = N!Exponent(m)
        /\ NT!Mid(m, Unit) = (2 * s + 1) * (Lows * f)
        /\ m \in N!Patterns /\ e - LowBits - 1 - Unit \in 0 .. MaxBits
        /\ f = 2^(e - LowBits - 1 - Unit)
  BY FenceIs DEF Fence
<1>3. /\ LowBits \in Nat /\ MaxBits \in Nat /\ Unit \in Int /\ W!PosInf \in Nat /\ N!PosInf \in Nat
      /\ W!PosInf = N!PosInf * Lows
  <2>1. W!PosInf = N!PosInf * Lows
    <3>1. /\ Fields \in Nat /\ Fields >= 4 /\ Mantissas \in Nat /\ Lows \in Nat
          /\ N!PosInf = (Fields - 1) * Mantissas /\ WideMantissas = Mantissas * Lows
          /\ W!PosInf = (Fields - 1) * WideMantissas
      BY Sizes
    <3>2. QED
      BY <3>1
  <2>2. QED
    BY <2>1, FormatsAre, UnitFits, WideInfinity, NarrowInfinity
<1>4. j \in 1 .. W!PosInf - 1
  <2>1. m * Lows <= (N!PosInf - 1) * Lows /\ m * Lows \in Nat
    BY <1>1, <1>3
  <2>2. (N!PosInf - 1) * Lows = W!PosInf - Lows
    BY <1>1, <1>3
  <2>3. QED
    BY <1>1, <1>3, <2>1, <2>2
<1>5. /\ W!Significand(j) = (Lows * s) + half /\ W!Exponent(j) = e - LowBits
  <2>1. PICK w : w = bf16_to_f32(m) + half
    OBVIOUS
  <2>2. w = (m * Lows) + half /\ W!Significand(w) = (Lows * s) + half /\ W!Exponent(w) = e - LowBits
    BY <1>1, <1>2, <2>1, Widened
  <2>3. QED
    BY <1>1, <2>2
<1>6. /\ W!Significand(j - 1) = (Lows * s) + (half - 1) /\ W!Exponent(j - 1) = e - LowBits
  <2>1. PICK w : w = bf16_to_f32(m) + (half - 1)
    OBVIOUS
  <2>2. w = (m * Lows) + (half - 1) /\ W!Significand(w) = (Lows * s) + (half - 1) /\ W!Exponent(w) = e - LowBits
    BY <1>1, <1>2, <2>1, Widened
  <2>3. m * Lows \in Int
    BY <1>1
  <2>4. j - 1 = w
    BY <1>1, <2>2, <2>3
  <2>5. QED
    BY <2>2, <2>4
<1>7. 2^(e - LowBits - Unit) = 2 * f /\ (e - LowBits) - 1 - Unit = e - LowBits - 1 - Unit
  <2>1. WT!HalfPlace(j, Unit) = f /\ 2^(WT!Exponent(j) - Unit) = 2 * WT!HalfPlace(j, Unit)
    <3>1. j \in 0 .. WT!PosInf /\ WT!Format /\ WT!Base(Unit)
      BY <1>3, <1>4, WideNames, FormatsAre, UnitFits
    <3>2. 2^(WT!Exponent(j) - Unit) = 2 * WT!HalfPlace(j, Unit)
      BY <3>1, WT!MagnitudeValue
    <3>3. WT!Exponent(j) = e - LowBits
      BY <1>5, WidePartNames
    <3>4. (e - LowBits) - 1 - Unit = e - LowBits - 1 - Unit
      BY <1>2, <1>3
    <3>5. QED
      BY <1>2, <3>2, <3>3, <3>4 DEF WT!HalfPlace
  <2>2. WT!Exponent(j) = e - LowBits
    BY <1>5, WidePartNames
  <2>3. QED
    BY <1>2, <1>3, <2>1, <2>2
<1>8. /\ WT!Val(j, Unit) = ((Lows * s) + half) * (2 * f)
      /\ WT!Mid(j, Unit) = (2 * ((Lows * s) + half) + 1) * f
      /\ WT!Mid(j - 1, Unit) = (2 * ((Lows * s) + (half - 1)) + 1) * f
  <2>1. /\ WT!Significand(j) = (Lows * s) + half /\ WT!Exponent(j) = e - LowBits
        /\ WT!Significand(j - 1) = (Lows * s) + (half - 1) /\ WT!Exponent(j - 1) = e - LowBits
    BY <1>5, <1>6, WidePartNames
  <2>2. QED
    BY <1>2, <1>7, <2>1 DEF WT!Val, WT!Mid
<1>9. PICK x \in Nat : x = Lows * s
  BY <1>1
<1>10. (2 * s + 1) * (Lows * f) = (2 * x + 2 * half) * f
  <2>1. (2 * s + 1) * Lows = 2 * x + Lows
    BY <1>1, <1>9
  <2>2. (2 * s + 1) * (Lows * f) = ((2 * s + 1) * Lows) * f
    BY <1>1
  <2>3. QED
    BY <1>1, <2>1, <2>2
<1>11. /\ (x + half) * (2 * f) = (2 * x + 2 * half) * f
       /\ (2 * (x + half) + 1) * f = (2 * x + 2 * half) * f + f
       /\ (2 * (x + (half - 1)) + 1) * f = (2 * x + 2 * half) * f - f
  <2>1. PICK y \in Nat : y = x + half
    OBVIOUS
  <2>2. 2 * x + 2 * half = 2 * y /\ 2 * (x + (half - 1)) + 1 = 2 * y - 1
    BY <2>1
  <2>3. y * (2 * f) = (2 * y) * f /\ (2 * y + 1) * f = (2 * y) * f + f /\ (2 * y - 1) * f = (2 * y) * f - f
    OBVIOUS
  <2>4. QED
    BY <2>1, <2>2, <2>3
<1>12. QED
  BY <1>2, <1>4, <1>8, <1>9, <1>10, <1>11

(* What a wide magnitude is narrowed to is nearest to its value.             *)
LEMMA NarrowIsNearest ==
  ASSUME NEW q \in 0 .. W!PosInf
  PROVE  NT!Nearest(WT!Val(q, Unit), Unit, Narrow(q))
<1>1. /\ NT!Format /\ WT!Format /\ NT!Base(Unit) /\ WT!Base(Unit) /\ Unit \in Int /\ MaxBits \in Nat
      /\ ManBits \in Nat /\ LowBits \in Nat
  BY FormatsAre, UnitFits
<1>2. /\ Lows \in Nat \ {0} /\ N!PosInf \in Nat /\ W!PosInf = N!PosInf * Lows
  <2>1. /\ Fields \in Nat /\ Fields >= 4 /\ Mantissas \in Nat /\ Lows \in Nat \ {0}
        /\ N!PosInf = (Fields - 1) * Mantissas /\ WideMantissas = Mantissas * Lows
        /\ W!PosInf = (Fields - 1) * WideMantissas
    BY Sizes
  <2>2. QED
    BY <2>1, NarrowInfinity
<1>3. PICK u \in Nat, low \in 0 .. Lows - 1 : u = q \div Lows /\ low = q % Lows /\ q = (Lows * u) + low
  <2>1. q \in Int /\ q \in Nat
    BY <1>2
  <2>2. q = (Lows * (q \div Lows)) + (q % Lows) /\ q % Lows \in 0 .. Lows - 1
    BY <1>2, <2>1, Division
  <2>3. q \div Lows \in Nat
    BY <1>2, <2>1, Quotient
  <2>4. QED
    BY <2>2, <2>3
<1>4. CASE u < N!PosInf
  <2>1. u \in N!Patterns /\ N!Magnitude(u) = u /\ N!Field(u) # N!ExpOnes
    <3>1. u \in 0 .. N!SignMask - 1 /\ N!SignMask \in Nat \ {0}
      BY <1>2, <1>4, NarrowInfinity, Sizes
    <3>2. u \in N!Patterns /\ N!Magnitude(u) = u
      BY <3>1, NarrowSigned DEF N!WithSign, N!Patterns, N!Magnitude
    <3>3. QED
      BY <1>2, <1>4, <3>2, LastField
  <2>2. PICK w : w = bf16_to_f32(u) + low
    OBVIOUS
  <2>3. w = q
    <3>1. w = (u * Lows) + low
      BY <2>1, <2>2, Widened
    <3>2. QED
      BY <1>2, <1>3, <3>1
  <2>4. Narrow(q) \in 0 .. N!PosInf /\ N!RoundsTo(W!Significand(q), W!Exponent(q), Narrow(q))
    <3>1. Narrow(q) = u + (IF RoundsUp(u, low) THEN 1 ELSE 0)
      BY <1>3 DEF Narrow
    <3>2. QED
      BY <2>1, <2>2, <2>3, <3>1, NearestMagnitude
  <2>5. q \in 0 .. WT!PosInf
    BY WideNames
  <2>6. /\ WT!Significand(q) \in Nat /\ WT!Exponent(q) \in Int /\ WT!Exponent(q) - Unit \in 0 .. MaxBits
    BY <1>1, <2>5, WT!MagnitudeValue
  <2>7. PICK num \in Nat, ex \in Int : /\ num = W!Significand(q) /\ ex = W!Exponent(q) /\ ex - Unit \in 0 .. MaxBits
                                       /\ WT!Val(q, Unit) = num * 2^(ex - Unit)
    BY <2>6, WidePartNames DEF WT!Val
  <2>8. NT!RoundsTo(num, ex, Narrow(q)) /\ Narrow(q) \in 0 .. NT!PosInf
    BY <2>4, <2>7, NarrowRoundNames, NarrowNames
  <2>9. NT!Nearest(NT!At(num, ex, Unit), Unit, Narrow(q))
    BY <1>1, <2>7, <2>8, NT!NearestRounds
  <2>10. QED
    BY <2>7, <2>9 DEF NT!At
<1>5. CASE u >= N!PosInf
  <2>1. u = N!PosInf /\ low = 0
    <3>1. q <= Lows * N!PosInf
      BY <1>2
    <3>2. ASSUME u >= N!PosInf + 1 PROVE FALSE
      <4>1. Lows * u >= Lows * (N!PosInf + 1)
        BY <1>2, <3>2
      <4>2. Lows * (N!PosInf + 1) = Lows * N!PosInf + Lows /\ Lows * N!PosInf \in Int /\ Lows * u \in Int
        BY <1>2
      <4>3. QED
        BY <1>2, <1>3, <3>1, <4>1, <4>2
    <3>3. u = N!PosInf
      BY <1>2, <1>5, <3>2
    <3>4. PICK y \in Int : y = Lows * N!PosInf
      BY <1>2
    <3>5. q = y + low
      BY <1>3, <3>3, <3>4
    <3>6. QED
      BY <3>1, <3>3, <3>4, <3>5
  <2>2. Narrow(q) = N!PosInf
    <3>1. 2^(LowBits - 1) \in Nat \ {0}
      BY Sizes
    <3>2. ~ RoundsUp(u, low)
      BY <2>1, <3>1 DEF RoundsUp
    <3>3. QED
      BY <1>2, <1>3, <2>1, <3>2 DEF Narrow
  <2>3. q = W!PosInf /\ q = WT!PosInf
    BY <1>2, <1>3, <2>1, WideNames
  <2>4. WT!Val(q, Unit) = NT!Val(NT!PosInf, Unit)
    <3>1. WT!Val(q, Unit) = WideMantissas * 2^(W!MinExp + Fields - 2 - Unit)
      BY <1>1, <2>3, WT!OverflowValue, WideNames
    <3>2. NT!Val(NT!PosInf, Unit) = Mantissas * 2^(N!MinExp + Fields - 2 - Unit)
      BY <1>1, NT!OverflowValue, NarrowNames
    <3>3. PICK d \in Nat : /\ d = W!MinExp + Fields - 2 - Unit /\ LowBits + d = N!MinExp + Fields - 2 - Unit
                           /\ LowBits + d <= MaxBits
      <4>1. /\ Unit = 2 * N!MinExp - 2 /\ N!MinExp = 1 - N!Bias - ManBits /\ N!MinExp \in Int
            /\ W!MinExp = N!MinExp - LowBits /\ N!Bias \in Nat /\ N!Bias >= 1 /\ Fields = 2 * (N!Bias + 1)
            /\ LowBits <= N!Bias + ManBits /\ 3 * N!Bias + 2 * ManBits + 2 <= MaxBits
        BY UnitFits
      <4>2. QED
        BY <1>1, <4>1
    <3>4. 2^(LowBits + d) = Lows * 2^d /\ 2^d \in Nat
      BY <1>1, <3>3, UnitPowers DEF Lows
    <3>5. WideMantissas = Mantissas * Lows /\ Mantissas \in Nat
      BY Sizes
    <3>6. (Mantissas * Lows) * 2^d = Mantissas * (Lows * 2^d)
      BY <1>2, <3>4, <3>5
    <3>7. QED
      BY <3>1, <3>2, <3>3, <3>4, <3>5, <3>6
  <2>5. NT!PosInf \in 0 .. NT!PosInf /\ NT!PosInf = N!PosInf
    BY <1>2, NarrowNames
  <2>6. PICK v \in Nat : v = NT!Val(NT!PosInf, Unit)
    BY <1>1, <2>5, NT!MagnitudeValue
  <2>7. NT!Nearest(v, Unit, NT!PosInf)
    BY <1>1, <2>6, NT!NearestOverflow
  <2>8. QED
    BY <2>2, <2>4, <2>5, <2>6, <2>7
<1>6. QED
  BY <1>2, <1>3, <1>4, <1>5

-----------------------------------------------------------------------------
(* Rounding twice.                                                           *)

(* On the midpoint above m, or further from it than the fence.               *)
Clear(v, m) == \/ v = NT!Mid(m, Unit)
               \/ v > NT!Mid(m, Unit) + Fence(m)
               \/ v + Fence(m) < NT!Mid(m, Unit)

(* A value that is clear of every midpoint is not moved to one, nor across   *)
(* one, by rounding it to the wide format.                                   *)
LEMMA RoundedTwice ==
  ASSUME NEW v \in Nat, NEW q, WT!Nearest(v, Unit, q),
         \A m \in 0 .. N!PosInf - 1 : Clear(v, m)
  PROVE  NT!Nearest(v, Unit, Narrow(q)) /\ q \in 0 .. W!PosInf
<1>1. /\ NT!Format /\ WT!Format /\ NT!Base(Unit) /\ WT!Base(Unit)
      /\ N!PosInf \in Nat /\ W!PosInf \in Nat /\ NT!PosInf = N!PosInf /\ WT!PosInf = W!PosInf
  BY FormatsAre, UnitFits, NarrowInfinity, WideInfinity, NarrowNames, WideNames
<1>2. /\ q \in 0 .. W!PosInf
      /\ q # W!PosInf => v <= WT!Mid(q, Unit) /\ (q % 2 = 1 => v < WT!Mid(q, Unit))
      /\ q # 0 => WT!Mid(q - 1, Unit) <= v /\ (q % 2 = 1 => WT!Mid(q - 1, Unit) < v)
  BY <1>1 DEF WT!Nearest
<1>3. PICK n \in 0 .. N!PosInf : n = Narrow(q)
  <2>1. 0 \in 0 .. 1
    OBVIOUS
  <2>2. QED
    BY <1>2, <2>1, Narrowed
<1>4. NT!Nearest(WT!Val(q, Unit), Unit, n)
  BY <1>2, <1>3, NarrowIsNearest
<1>5. PICK x \in Nat : x = WT!Val(q, Unit)
  BY <1>1, <1>2, WT!MagnitudeValue
<1>6. /\ n # N!PosInf => x <= NT!Mid(n, Unit) /\ (n % 2 = 1 => x < NT!Mid(n, Unit))
      /\ n # 0 => NT!Mid(n - 1, Unit) <= x /\ (n % 2 = 1 => NT!Mid(n - 1, Unit) < x)
  BY <1>1, <1>4, <1>5 DEF NT!Nearest
\* The value and what it is rounded to are on the same side of a midpoint.
<1>7. ASSUME NEW m \in 0 .. N!PosInf - 1
      PROVE  /\ NT!Mid(m, Unit) \in Nat
             /\ v > NT!Mid(m, Unit) => x > NT!Mid(m, Unit)
             /\ v < NT!Mid(m, Unit) => x < NT!Mid(m, Unit)
             /\ v = NT!Mid(m, Unit) => x = NT!Mid(m, Unit)
  <2>1. PICK j \in 1 .. W!PosInf - 1 :
          /\ WT!Val(j, Unit) = NT!Mid(m, Unit)
          /\ WT!Mid(j, Unit) = NT!Mid(m, Unit) + Fence(m)
          /\ WT!Mid(j - 1, Unit) = NT!Mid(m, Unit) - Fence(m)
    <3>1. PICK j : j = m * Lows + 2^(LowBits - 1)
      OBVIOUS
    <3>2. QED
      BY <3>1, MidpointWide
  <2>2. PICK c \in Nat, f \in Nat \ {0} : c = NT!Mid(m, Unit) /\ f = Fence(m)
    BY FenceIs
  <2>3. v = c \/ v > c + f \/ v + f < c
    BY <2>2 DEF Clear
  <2>4. /\ j \in 0 .. WT!PosInf /\ j - 1 \in 0 .. WT!PosInf /\ q \in 0 .. WT!PosInf /\ j < W!PosInf
        /\ j \in Nat /\ q \in Nat /\ WT!PosInf \in Nat
    BY <1>1, <1>2
  \* A wide magnitude beyond the midpoint's has its value beyond, and the lower
  \* midpoint of its value is beyond the one of the midpoint's.
  <2>5. /\ q > j => c < x /\ WT!Mid(j, Unit) <= WT!Mid(q - 1, Unit)
        /\ q < j => x < c /\ WT!Mid(q, Unit) <= WT!Mid(j - 1, Unit)
        /\ q = j => x = c
    <3>1. CASE q > j
      <4>1. /\ WT!Mid(j, Unit) < WT!Val(q, Unit) /\ WT!Mid(j, Unit) <= WT!Mid(q - 1, Unit)
        BY <1>1, <2>4, <3>1, WT!MidsGrow
      <4>2. QED
        BY <1>5, <2>1, <2>2, <2>4, <3>1, <4>1
    <3>2. CASE q < j
      <4>1. WT!Mid(q, Unit) < WT!Val(j, Unit) /\ WT!Mid(q, Unit) <= WT!Mid(j - 1, Unit)
        BY <1>1, <2>4, <3>2, WT!MidsGrow
      <4>2. WT!Val(q, Unit) <= WT!Val(j, Unit)
        BY <1>1, <2>4, <3>2, WT!ValuesGrow
      <4>3. q \in 0 .. WT!PosInf - 1
        BY <1>1, <2>4, <3>2
      <4>4. WT!Val(q, Unit) < WT!Mid(q, Unit) /\ WT!Mid(q, Unit) \in Nat
        BY <1>1, <2>4, <4>3, WT!NextValue, WT!MagnitudeValue
      <4>5. QED
        BY <1>5, <2>1, <2>2, <2>4, <3>2, <4>1, <4>4
    <3>3. CASE q = j
      BY <1>5, <2>1, <2>2, <3>3
    <3>4. QED
      BY <1>2, <3>1, <3>2, <3>3
  <2>6. ASSUME v > c PROVE x > c
    <3>1. v > c + f
      BY <2>2, <2>3, <2>6
    <3>2. ~ (q <= j)
      <4>1. SUFFICES ASSUME q <= j PROVE FALSE
        OBVIOUS
      <4>2. v <= WT!Mid(q, Unit) /\ WT!Mid(q, Unit) \in Int
        BY <1>1, <1>2, <2>4, <4>1, WT!MagnitudeValue
      <4>3. CASE q = j
        BY <2>1, <2>2, <3>1, <4>2, <4>3
      <4>4. CASE q < j
        BY <2>1, <2>2, <2>5, <3>1, <4>2, <4>4
      <4>5. QED
        BY <1>2, <4>1, <4>3, <4>4
    <3>3. QED
      BY <1>2, <2>5, <3>2
  <2>7. ASSUME v < c PROVE x < c
    <3>1. v + f < c
      BY <2>2, <2>3, <2>7
    <3>2. ~ (q >= j)
      <4>1. SUFFICES ASSUME q >= j PROVE FALSE
        OBVIOUS
      <4>2. q # 0 /\ q - 1 \in 0 .. WT!PosInf
        BY <1>1, <1>2, <4>1
      <4>3. WT!Mid(q - 1, Unit) <= v /\ WT!Mid(q - 1, Unit) \in Int
        BY <1>1, <1>2, <4>2, WT!MagnitudeValue
      <4>4. CASE q = j
        BY <2>1, <2>2, <3>1, <4>3, <4>4
      <4>5. CASE q > j
        BY <2>1, <2>2, <2>5, <3>1, <4>3, <4>5
      <4>6. QED
        BY <1>2, <4>1, <4>4, <4>5
    <3>3. QED
      BY <1>2, <2>5, <3>2
  <2>8. ASSUME v = c PROVE x = c
    <3>1. ~ (q > j)
      <4>1. SUFFICES ASSUME q > j PROVE FALSE
        OBVIOUS
      <4>2. q # 0 /\ q - 1 \in 0 .. WT!PosInf
        BY <1>1, <1>2, <4>1
      <4>3. WT!Mid(q - 1, Unit) <= v /\ WT!Mid(q - 1, Unit) \in Int
        BY <1>1, <1>2, <4>2, WT!MagnitudeValue
      <4>4. QED
        BY <2>1, <2>2, <2>5, <2>8, <4>1, <4>3
    <3>2. ~ (q < j)
      <4>1. SUFFICES ASSUME q < j PROVE FALSE
        OBVIOUS
      <4>2. v <= WT!Mid(q, Unit) /\ WT!Mid(q, Unit) \in Int
        BY <1>1, <1>2, <2>4, <4>1, WT!MagnitudeValue
      <4>3. QED
        BY <2>1, <2>2, <2>5, <2>8, <4>1, <4>2
    <3>3. QED
      BY <1>2, <2>5, <3>1, <3>2
  <2>9. QED
    BY <2>2, <2>6, <2>7, <2>8
<1>8. n # N!PosInf => v <= NT!Mid(n, Unit) /\ (n % 2 = 1 => v < NT!Mid(n, Unit))
  <2>1. SUFFICES ASSUME n # N!PosInf PROVE v <= NT!Mid(n, Unit) /\ (n % 2 = 1 => v < NT!Mid(n, Unit))
    OBVIOUS
  <2>2. n \in 0 .. N!PosInf - 1
    BY <1>1, <2>1
  <2>3. PICK c \in Nat : c = NT!Mid(n, Unit) /\ (v > c => x > c) /\ (v < c => x < c) /\ (v = c => x = c)
    BY <1>7, <2>2
  <2>4. x <= c /\ (n % 2 = 1 => x < c)
    BY <1>6, <2>1, <2>3
  <2>5. QED
    BY <2>3, <2>4
<1>9. n # 0 => NT!Mid(n - 1, Unit) <= v /\ (n % 2 = 1 => NT!Mid(n - 1, Unit) < v)
  <2>1. SUFFICES ASSUME n # 0 PROVE NT!Mid(n - 1, Unit) <= v /\ (n % 2 = 1 => NT!Mid(n - 1, Unit) < v)
    OBVIOUS
  <2>2. n - 1 \in 0 .. N!PosInf - 1
    BY <1>1, <2>1
  <2>3. PICK c \in Nat : c = NT!Mid(n - 1, Unit) /\ (v > c => x > c) /\ (v < c => x < c) /\ (v = c => x = c)
    BY <1>7, <2>2
  <2>4. c <= x /\ (n % 2 = 1 => c < x)
    BY <1>6, <2>1, <2>3
  <2>5. QED
    BY <2>3, <2>4
<1>10. NT!Nearest(v, Unit, n)
  BY <1>1, <1>8, <1>9 DEF NT!Nearest
<1>11. QED
  BY <1>2, <1>3, <1>10

(* The distances from a midpoint, in fences: a multiple of twice the fence   *)
(* that is not on it is further than one; a value is no midpoint's           *)
(* neighbour when it is nearer to a narrow value.                            *)
LEMMA WholePlaces ==
  ASSUME NEW v \in Nat, NEW m \in 0 .. N!PosInf - 1, NEW x \in Nat, v = x * (2 * Fence(m))
  PROVE  Clear(v, m)
<1>1. PICK f \in Nat \ {0}, s \in Nat, half \in Nat \ {0} :
        /\ f = Fence(m) /\ s = N!Significand(m) /\ half = 2^(LowBits - 1) /\ Lows = 2 * half
        /\ NT!Mid(m, Unit) = (2 * s + 1) * (Lows * f)
  BY FenceIs, Sizes
<1>2. PICK c \in Nat : c = (2 * s + 1) * half
  OBVIOUS
<1>3. NT!Mid(m, Unit) = c * (2 * f)
  <2>1. (2 * s + 1) * ((2 * half) * f) = ((2 * s + 1) * half) * (2 * f)
    BY <1>1
  <2>2. QED
    BY <1>1, <1>2, <2>1
<1>4. PICK g \in Nat \ {0} : g = 2 * f /\ f < g
  BY <1>1
<1>5. PICK y \in Nat : y = c * g /\ NT!Mid(m, Unit) = y
  BY <1>3, <1>4
<1>6. v = x * g
  BY <1>1, <1>4
<1>7. (c + 1) * g = y + g /\ (c - 1) * g = y - g
  BY <1>5
<1>8. CASE x = c
  BY <1>5, <1>6, <1>8 DEF Clear
<1>9. CASE x >= c + 1
  <2>1. c + 1 \in Int /\ x \in Int
    OBVIOUS
  <2>2. (c + 1) * g <= x * g
    BY <1>9, <2>1, NT!Cancel
  <2>3. v > y + f
    BY <1>1, <1>4, <1>6, <1>7, <2>2
  <2>4. QED
    BY <1>1, <1>5, <2>3 DEF Clear
<1>10. CASE x <= c - 1
  <2>1. c - 1 \in Int /\ x \in Int
    OBVIOUS
  <2>2. x * g <= (c - 1) * g
    BY <1>10, <2>1, NT!Cancel
  <2>3. v + f < y
    BY <1>1, <1>4, <1>6, <1>7, <2>2
  <2>4. QED
    BY <1>1, <1>5, <2>3 DEF Clear
<1>11. QED
  BY <1>2, <1>8, <1>9, <1>10

LEMMA NearValue ==
  ASSUME NEW v \in Nat, NEW m \in 0 .. N!PosInf - 1, NEW n \in 0 .. N!PosInf,
         NEW z \in Nat, z = NT!Val(n, Unit), NEW y \in Nat,
         v <= z + y, z <= v + y, y + Fence(m) < Lows * Fence(m)
  PROVE  Clear(v, m)
<1>1. PICK f \in Nat \ {0}, h \in Nat, c \in Nat :
        /\ f = Fence(m) /\ h = Lows * f /\ h = NT!HalfPlace(m, Unit) /\ c = NT!Mid(m, Unit)
  <2>1. /\ Fence(m) \in Nat \ {0} /\ NT!HalfPlace(m, Unit) = Lows * Fence(m) /\ NT!Mid(m, Unit) \in Nat
    BY FenceIs
  <2>2. Lows \in Nat
    BY Sizes
  <2>3. PICK f \in Nat \ {0}, low \in Nat : f = Fence(m) /\ low = Lows
    BY <2>1, <2>2
  <2>4. low * f \in Nat
    OBVIOUS
  <2>5. QED
    BY <2>1, <2>3, <2>4
<1>2. /\ NT!Format /\ NT!Base(Unit) /\ m \in 0 .. NT!PosInf /\ n \in 0 .. NT!PosInf
      /\ m \in 0 .. NT!PosInf - 1 /\ m + 1 \in 0 .. NT!PosInf
      /\ NT!PosInf \in Nat
  BY FormatsAre, UnitFits, NarrowInfinity, NarrowNames
<1>3. z <= c - h \/ z >= c + h
  <2>1. c = NT!Val(m, Unit) + h /\ NT!Val(m, Unit) \in Nat
    BY <1>1, <1>2, NT!MagnitudeValue
  <2>2. NT!Val(m + 1, Unit) = NT!Val(m, Unit) + 2 * h
    BY <1>1, <1>2, NT!NextValue
  <2>3. CASE n <= m
    <3>1. NT!Val(n, Unit) <= NT!Val(m, Unit)
      BY <1>2, <2>3, NT!ValuesGrow
    <3>2. QED
      BY <1>1, <2>1, <3>1
  <2>4. CASE n > m
    <3>1. m + 1 <= n
      BY <2>4
    <3>2. NT!Val(m + 1, Unit) <= NT!Val(n, Unit)
      BY <1>2, <3>1, NT!ValuesGrow
    <3>3. QED
      BY <1>1, <2>1, <2>2, <3>2
  <2>5. QED
    BY <1>2, <2>3, <2>4
<1>4. y + f < h
  BY <1>1
<1>5. v > c + f \/ v + f < c
  BY <1>1, <1>3, <1>4
<1>6. QED
  BY <1>1, <1>5 DEF Clear

-----------------------------------------------------------------------------
(* The values of products and sums are clear of the midpoints.               *)

(* The sizes of a significand, and of the low bits against it.               *)
LEMMA LowsExceed ==
  /\ Mantissas \in Nat /\ Mantissas >= 4 /\ Lows \in Nat \ {0}
  /\ (2 * Mantissas) * (2 * Mantissas) <= Lows /\ 2 * Mantissas < Lows
<1>1. /\ ManBits \in Nat /\ ManBits >= 2 /\ LowBits \in Nat /\ LowBits >= 2 * ManBits + 2
      /\ MaxBits \in Nat /\ LowBits <= MaxBits
  BY FormatsAre, BitsAssumption, WidthAssumption
<1>2. PICK a \in Nat : a = 2^ManBits /\ a = Mantissas /\ 2^(ManBits + 1) = 2 * a /\ a >= 4
  <2>0. ManBits + 1 <= MaxBits /\ 1 \in Nat /\ 2 \in Nat
    BY <1>1
  <2>1. 2^(ManBits + 1) = 2^ManBits * 2^1 /\ 2^ManBits \in Nat
    BY <1>1, <2>0, UnitPowers
  <2>2. 2^1 = 2
    OBVIOUS
  <2>3. PICK d \in Nat : d = ManBits - 2 /\ 2 + d = ManBits
    BY <1>1
  <2>4. 2^(2 + d) = 2^2 * 2^d /\ 2^d \in Nat \ {0}
    <3>1. 2 + d <= MaxBits
      BY <1>1, <2>3
    <3>2. QED
      BY <2>0, <2>3, <3>1, UnitPowers
  <2>5. 2^(1 + 1) = 2^1 * 2^1
    BY <1>1, UnitPowers
  <2>6. 1 + 1 = 2
    OBVIOUS
  <2>7. 2^2 = 4
    BY <2>2, <2>5, <2>6
  <2>8. 2^ManBits >= 4
    BY <2>3, <2>4, <2>7
  <2>9. QED
    BY <2>1, <2>2, <2>8 DEF Mantissas
<1>3. 2^((ManBits + 1) + (ManBits + 1)) = (2 * a) * (2 * a)
  <2>1. ManBits + 1 \in Nat /\ (ManBits + 1) + (ManBits + 1) <= MaxBits
    BY <1>1
  <2>2. 2^((ManBits + 1) + (ManBits + 1)) = 2^(ManBits + 1) * 2^(ManBits + 1)
    BY <2>1, UnitPowers
  <2>3. QED
    BY <1>2, <2>2
<1>4. 2^((ManBits + 1) + (ManBits + 1)) <= 2^LowBits /\ 2^LowBits \in Nat \ {0}
  <2>1. (ManBits + 1) + (ManBits + 1) \in 0 .. MaxBits /\ LowBits \in 0 .. MaxBits
        /\ (ManBits + 1) + (ManBits + 1) <= LowBits
    BY <1>1
  <2>2. QED
    BY <2>1, FormatsAre, NT!PowersGrow
<1>5. (2 * a) * (2 * a) >= 8 * (2 * a) /\ 8 * (2 * a) > 2 * a
  BY <1>2
<1>6. PICK b \in Nat : b = (2 * a) * (2 * a)
  OBVIOUS
<1>7. b <= Lows /\ Lows \in Nat \ {0}
  BY <1>3, <1>4, <1>6 DEF Lows
<1>8. QED
  BY <1>2, <1>5, <1>6, <1>7

(* A value whose last place is a wide one of the midpoint's binade.          *)
LEMMA OnPlaces ==
  ASSUME NEW m \in 0 .. N!PosInf - 1, NEW num \in Nat, NEW ex \in Int,
         ex - Unit \in 0 .. MaxBits, ex >= N!Exponent(m) - LowBits
  PROVE  \E x \in Nat : num * 2^(ex - Unit) = x * (2 * Fence(m))
<1>1. MaxBits \in Nat /\ LowBits \in Nat /\ Unit \in Int
  BY FormatsAre, UnitFits
<1>2. PICK e \in Int : e = N!Exponent(m) /\ e - LowBits - 1 - Unit \in 0 .. MaxBits
  BY FenceIs
<1>3. PICK d \in Nat, f \in Nat : d = ex - e + LowBits /\ f = e - LowBits - 1 - Unit /\ (d + 1) + f = ex - Unit
  BY <1>1, <1>2
<1>4. 2^((d + 1) + f) = 2^(d + 1) * 2^f /\ 2^f \in Nat
  <2>1. d + 1 \in Nat /\ f \in Nat /\ (d + 1) + f <= MaxBits
    BY <1>1, <1>3
  <2>2. QED
    BY <2>1, UnitPowers
<1>5. 2^(d + 1) = 2^d * 2^1 /\ 2^d \in Nat
  <2>1. d \in Nat /\ 1 \in Nat /\ d + 1 <= MaxBits
    BY <1>1, <1>3
  <2>2. QED
    BY <2>1, UnitPowers
<1>6. 2^1 = 2
  OBVIOUS
<1>7. PICK a \in Nat, b \in Nat : a = 2^d /\ b = 2^f /\ b = Fence(m) /\ 2^(ex - Unit) = (a * 2) * b
  BY <1>2, <1>3, <1>4, <1>5, <1>6 DEF Fence
<1>8. num * ((a * 2) * b) = (num * a) * (2 * b) /\ num * a \in Nat
  OBVIOUS
<1>9. QED
  BY <1>7, <1>8

(* One whose last place is below the fence.                                  *)
LEMMA BelowFence ==
  ASSUME NEW m \in 0 .. N!PosInf - 1, NEW num \in Nat, NEW ex \in Int,
         ex - Unit \in 0 .. MaxBits, ex < N!Exponent(m) - LowBits
  PROVE  num * 2^(ex - Unit) <= num * Fence(m) /\ num * 2^(ex - Unit) \in Nat
<1>1. MaxBits \in Nat /\ LowBits \in Nat /\ Unit \in Int
  BY FormatsAre, UnitFits
<1>2. PICK e \in Int : e = N!Exponent(m) /\ e - LowBits - 1 - Unit \in 0 .. MaxBits
  BY FenceIs
<1>3. PICK a \in 0 .. MaxBits, b \in 0 .. MaxBits : a = ex - Unit /\ b = e - LowBits - 1 - Unit /\ a <= b
  <2>1. ex < e - LowBits
    BY <1>2
  <2>2. ex - Unit <= e - LowBits - 1 - Unit
    BY <1>1, <1>2, <2>1
  <2>3. QED
    BY <1>2, <2>2
<1>4. 2^a <= 2^b /\ 2^a \in Nat /\ 2^b \in Nat
  BY <1>3, FormatsAre, NT!PowersGrow
<1>5. PICK x \in Nat, y \in Nat : x = 2^(ex - Unit) /\ y = Fence(m) /\ x <= y
  BY <1>2, <1>3, <1>4 DEF Fence
<1>6. num * x <= num * y /\ num * x \in Nat
  BY <1>5
<1>7. QED
  BY <1>5, <1>6

(* Fewer fences than Lows, and one more, are below half a place.             *)
LEMMA FewFences ==
  ASSUME NEW m \in 0 .. N!PosInf - 1, NEW i \in Nat, i + 1 < Lows, NEW y \in Nat, y <= i * Fence(m)
  PROVE  y + Fence(m) < Lows * Fence(m)
<1>1. PICK f \in Nat \ {0}, l \in Nat : f = Fence(m) /\ l = Lows
  BY FenceIs, LowsExceed
<1>2. i + 1 \in Int /\ l \in Int
  OBVIOUS
<1>3. (i + 1) * f < l * f
  BY <1>1, <1>2, NT!Cancel
<1>4. (i + 1) * f = i * f + f /\ i * f \in Nat /\ l * f \in Nat
  OBVIOUS
<1>5. QED
  BY <1>1, <1>3, <1>4

(* The product of two significands.                                          *)
LEMMA ProductSmall ==
  ASSUME NEW sa \in 0 .. 2 * Mantissas - 1, NEW sb \in 0 .. 2 * Mantissas - 1
  PROVE  sa * sb \in Nat /\ sa * sb + 1 < Lows
<1>1. PICK a \in Nat, b \in Nat : a = 2 * Mantissas /\ b = a * a /\ a >= 8 /\ b <= Lows /\ Lows \in Nat
  <2>1. PICK a \in Nat : a = 2 * Mantissas /\ a >= 8 /\ a * a <= Lows /\ Lows \in Nat
    BY LowsExceed
  <2>2. a * a \in Nat
    OBVIOUS
  <2>3. QED
    BY <2>1, <2>2
<1>2. sa * sb <= (a - 1) * (a - 1) /\ sa * sb \in Nat
  <2>1. sa \in Nat /\ sb \in Nat /\ sa <= a - 1 /\ sb <= a - 1 /\ a - 1 \in Nat
    BY <1>1
  <2>2. sa * sb <= (a - 1) * sb /\ sa * sb \in Nat
    BY <2>1
  <2>3. (a - 1) * sb <= (a - 1) * (a - 1)
    BY <2>1
  <2>4. PICK x \in Nat, y \in Nat, z \in Nat : x = sa * sb /\ y = (a - 1) * sb /\ z = (a - 1) * (a - 1)
    BY <2>1
  <2>5. QED
    BY <2>2, <2>3, <2>4
<1>3. (a - 1) * (a - 1) = b - 2 * a + 1
  BY <1>1
<1>4. PICK x \in Nat : x = sa * sb
  BY <1>2
<1>5. QED
  BY <1>1, <1>2, <1>3, <1>4

(* The value of zero.                                                        *)
LEMMA ZeroValue == NT!Val(0, Unit) = 0 /\ 0 \in 0 .. N!PosInf
<1>1. /\ 0 \in N!Patterns /\ 0 \in 0 .. NT!PosInf /\ 0 \in 0 .. N!PosInf
      /\ NT!Format /\ NT!Base(Unit)
  BY FormatsAre, UnitFits, NarrowInfinity, NarrowNames, Sizes DEF N!Patterns
<1>2. N!Field(0) = 0 /\ N!Mantissa(0) = 0
  <2>1. Mantissas \in Nat \ {0} /\ N!SignMask \in Nat \ {0}
    BY Sizes
  <2>2. N!Magnitude(0) = 0 /\ N!Mantissa(0) = 0
    BY <2>1 DEF N!Magnitude, N!Mantissa, Mantissas
  <2>3. 0 \div Mantissas = 0
    BY <2>1
  <2>4. QED
    BY <2>2, <2>3 DEF N!Field, Mantissas
<1>3. NT!Significand(0) = 0
  BY <1>2, NarrowPartNames DEF N!Significand
<1>4. 2^(NT!Exponent(0) - Unit) \in Nat
  <2>1. NT!HalfPlace(0, Unit) \in Nat \ {0} /\ 2^(NT!Exponent(0) - Unit) = 2 * NT!HalfPlace(0, Unit)
    BY <1>1, NT!MagnitudeValue
  <2>2. QED
    BY <2>1
<1>5. QED
  BY <1>1, <1>3, <1>4 DEF NT!Val

(* The product of two narrow significands.                                   *)
LEMMA ProductClear ==
  ASSUME NEW sa \in 0 .. 2 * Mantissas - 1, NEW sb \in 0 .. 2 * Mantissas - 1, NEW ex \in Int,
         ex - Unit \in 0 .. MaxBits, NEW v, v = (sa * sb) * 2^(ex - Unit),
         NEW m \in 0 .. N!PosInf - 1
  PROVE  Clear(v, m)
<1>1. PICK n \in Nat : n = sa * sb /\ n + 1 < Lows
  BY ProductSmall
<1>2. PICK e \in Int : e = N!Exponent(m)
  BY FenceIs
<1>3. LowBits \in Nat
  BY FormatsAre
<1>4. CASE ex >= e - LowBits
  <2>1. PICK x \in Nat : n * 2^(ex - Unit) = x * (2 * Fence(m))
    BY <1>1, <1>2, <1>4, OnPlaces
  <2>2. Fence(m) \in Nat
    BY FenceIs
  <2>3. v = x * (2 * Fence(m)) /\ v \in Nat
    BY <1>1, <2>1, <2>2
  <2>4. QED
    BY <2>3, WholePlaces
<1>5. CASE ex < e - LowBits
  <2>1. n * 2^(ex - Unit) <= n * Fence(m) /\ n * 2^(ex - Unit) \in Nat
    BY <1>1, <1>2, <1>5, BelowFence
  <2>2. v \in Nat /\ v <= n * Fence(m)
    BY <1>1, <2>1
  <2>3. v + Fence(m) < Lows * Fence(m)
    BY <1>1, <2>2, FewFences
  <2>4. PICK z \in Nat : z = NT!Val(0, Unit) /\ v <= z + v /\ z <= v + v
    BY <2>2, ZeroValue
  <2>5. QED
    BY <2>2, <2>3, <2>4, ZeroValue, NearValue
<1>6. QED
  BY <1>2, <1>3, <1>4, <1>5

(* A sum or a difference of two reals.                                       *)
Combined(v, p, y) == v = p + y \/ (p >= y /\ v = p - y) \/ (y >= p /\ v = y - p)

LEMMA BothOnPlaces ==
  ASSUME NEW m \in 0 .. N!PosInf - 1, NEW p \in Nat, NEW y \in Nat, NEW v, Combined(v, p, y),
         NEW x1 \in Nat, NEW x2 \in Nat, p = x1 * (2 * Fence(m)), y = x2 * (2 * Fence(m))
  PROVE  Clear(v, m)
<1>1. PICK g \in Nat \ {0} : g = 2 * Fence(m)
  BY FenceIs
<1>2. p = x1 * g /\ y = x2 * g
  BY <1>1
<1>3. /\ (x1 + x2) * g = p + y /\ (x1 - x2) * g = p - y /\ (x2 - x1) * g = y - p
  BY <1>2
<1>4. /\ p >= y => x1 >= x2
      /\ y >= p => x2 >= x1
  <2>1. x1 \in Int /\ x2 \in Int
    OBVIOUS
  <2>2. (x1 * g <= x2 * g <=> x1 <= x2) /\ (x2 * g <= x1 * g <=> x2 <= x1)
    BY <2>1, NT!Cancel
  <2>3. QED
    BY <1>2, <2>2
<1>5. PICK x \in Nat : v = x * g
  <2>1. CASE v = p + y
    <3>1. x1 + x2 \in Nat
      OBVIOUS
    <3>2. QED
      BY <1>3, <2>1, <3>1
  <2>2. CASE p >= y /\ v = p - y
    <3>1. x1 - x2 \in Nat
      BY <1>4, <2>2
    <3>2. QED
      BY <1>3, <2>2, <3>1
  <2>3. CASE y >= p /\ v = y - p
    <3>1. x2 - x1 \in Nat
      BY <1>4, <2>3
    <3>2. QED
      BY <1>3, <2>3, <3>1
  <2>4. QED
    BY <2>1, <2>2, <2>3 DEF Combined
<1>6. v \in Nat
  BY <1>5
<1>7. QED
  BY <1>1, <1>5, <1>6, WholePlaces

(* A narrow value, and less than half a wide place of few fences.            *)
LEMMA ValueAndFences ==
  ASSUME NEW m \in 0 .. N!PosInf - 1, NEW n \in 0 .. N!PosInf, NEW z \in Nat, z = NT!Val(n, Unit),
         NEW i \in Nat, i + 1 < Lows, NEW y \in Nat, y <= i * Fence(m),
         NEW v, Combined(v, z, y)
  PROVE  Clear(v, m)
<1>1. v \in Nat /\ v <= z + y /\ z <= v + y
  BY DEF Combined
<1>2. y + Fence(m) < Lows * Fence(m)
  BY FewFences
<1>3. QED
  BY <1>1, <1>2, NearValue

LEMMA CombinedSwaps ==
  ASSUME NEW p \in Nat, NEW y \in Nat, NEW v, Combined(v, p, y) PROVE Combined(v, y, p)
BY DEF Combined

(* The magnitude of a pattern that is not infinite, in units.                *)
LEMMA MagnitudeInUnits ==
  ASSUME NEW n \in 0 .. N!PosInf
  PROVE  /\ N!Significand(n) \in 0 .. 2 * Mantissas - 1 /\ N!Significand(n) \in Nat
         /\ N!Exponent(n) \in Int /\ N!Exponent(n) - Unit \in 0 .. MaxBits
         /\ N!Exponent(n) >= N!MinExp
         /\ NT!Val(n, Unit) = N!Significand(n) * 2^(N!Exponent(n) - Unit)
         /\ NT!Val(n, Unit) \in Nat
<1>1. n \in 0 .. NT!PosInf /\ NT!Format /\ NT!Base(Unit)
  BY FormatsAre, UnitFits, NarrowNames
<1>2. /\ NT!Significand(n) \in 0 .. 2 * NT!Mantissas - 1 /\ NT!Significand(n) \in Nat
      /\ NT!Exponent(n) \in NT!MinExp .. NT!MinExp + NT!Fields - 2 /\ NT!Exponent(n) \in Int
      /\ NT!Exponent(n) - Unit \in 0 .. MaxBits /\ NT!Val(n, Unit) \in Nat
  BY <1>1, NT!MagnitudeValue
<1>3. NT!MinExp \in Int /\ NT!Fields \in Nat
  BY NarrowNames, UnitFits, Sizes
<1>4. NT!Exponent(n) >= NT!MinExp
  BY <1>2, <1>3
<1>5. QED
  BY <1>2, <1>4, NarrowNames, NarrowPartNames DEF NT!Val

(* The sum of two narrow values.                                             *)
LEMMA SumClear ==
  ASSUME NEW i \in 0 .. N!PosInf, NEW j \in 0 .. N!PosInf, NEW v,
         Combined(v, NT!Val(i, Unit), NT!Val(j, Unit)), NEW m \in 0 .. N!PosInf - 1
  PROVE  Clear(v, m)
<1>1. PICK e \in Int : e = N!Exponent(m)
  BY FenceIs
<1>2. PICK p \in Nat, y \in Nat : p = NT!Val(i, Unit) /\ y = NT!Val(j, Unit) /\ Combined(v, p, y)
  BY MagnitudeInUnits
<1>3. LowBits \in Nat /\ Mantissas \in Nat /\ 2 * Mantissas < Lows /\ Lows \in Nat
  BY FormatsAre, LowsExceed
<1>4. PICK si \in 0 .. 2 * Mantissas - 1, ei \in Int : si \in Nat /\ p = si * 2^(ei - Unit) /\ ei - Unit \in 0 .. MaxBits
  BY <1>2, MagnitudeInUnits
<1>5. PICK sj \in 0 .. 2 * Mantissas - 1, ej \in Int : sj \in Nat /\ y = sj * 2^(ej - Unit) /\ ej - Unit \in 0 .. MaxBits
  BY <1>2, MagnitudeInUnits
<1>6. CASE ei >= e - LowBits /\ ej >= e - LowBits
  <2>1. PICK x1 \in Nat : p = x1 * (2 * Fence(m))
    BY <1>1, <1>4, <1>6, OnPlaces
  <2>2. PICK x2 \in Nat : y = x2 * (2 * Fence(m))
    BY <1>1, <1>5, <1>6, OnPlaces
  <2>3. QED
    BY <1>2, <2>1, <2>2, BothOnPlaces
<1>7. CASE ei < e - LowBits
  <2>1. p <= si * Fence(m)
    BY <1>1, <1>4, <1>7, BelowFence
  <2>2. si + 1 < Lows /\ Combined(v, y, p)
    BY <1>2, <1>3, <1>4, CombinedSwaps
  <2>3. QED
    BY <1>2, <1>4, <2>1, <2>2, ValueAndFences
<1>8. CASE ej < e - LowBits
  <2>1. y <= sj * Fence(m)
    BY <1>1, <1>5, <1>8, BelowFence
  <2>2. sj + 1 < Lows
    BY <1>3, <1>5
  <2>3. QED
    BY <1>2, <1>5, <2>1, <2>2, ValueAndFences
<1>9. QED
  BY <1>1, <1>3, <1>4, <1>5, <1>6, <1>7, <1>8

(* Past the lowest binade a significand has its leading bit.                 *)
LEMMA LeadingOne ==
  ASSUME NEW m \in 0 .. N!PosInf - 1, N!Exponent(m) > N!MinExp
  PROVE  N!Significand(m) >= Mantissas
<1>1. m \in N!Patterns /\ N!Magnitude(m) = m
  <2>1. m \in 0 .. N!SignMask - 1 /\ N!SignMask \in Nat \ {0}
    BY NarrowInfinity, Sizes
  <2>2. QED
    BY <2>1 DEF N!Patterns, N!Magnitude
<1>2. N!Field(m) # N!ExpOnes
  BY <1>1, NarrowInfinity, LastField
<1>3. NT!Exponent(m) > NT!MinExp => NT!Significand(m) >= NT!Mantissas
  <2>1. m \in NT!Patterns /\ NT!Field(m) # NT!ExpOnes
    BY <1>1, <1>2, NarrowNames, NarrowPartNames
  <2>2. QED
    BY <2>1, FormatsAre, NT!Operand
<1>4. QED
  BY <1>3, NarrowNames, NarrowPartNames

(* A product at the midpoint or a place of its own away from it, and an      *)
(* addend below that place but above the fence.                              *)
LEMMA PlacesApart ==
  ASSUME NEW v, NEW m \in 0 .. N!PosInf - 1, NEW x \in Nat, NEW c \in Nat, NEW t \in Nat,
         NT!Mid(m, Unit) = c * t, NEW y \in Nat, Combined(v, x * t, y),
         y + Fence(m) < t, y > Fence(m)
  PROVE  Clear(v, m)
<1>1. PICK p \in Nat, q \in Nat, f \in Nat :
        /\ p = x * t /\ q = c * t /\ f = Fence(m) /\ q = NT!Mid(m, Unit)
  <2>1. x * t \in Nat /\ c * t \in Nat
    OBVIOUS
  <2>2. Fence(m) \in Nat
    BY FenceIs
  <2>3. QED
    BY <2>1, <2>2
<1>2. CASE x = c
  <2>1. p = q
    BY <1>1, <1>2
  <2>2. CASE c = 0
    BY <1>1, <1>2, <2>1, <2>2 DEF Combined, Clear
  <2>3. CASE c >= 1
    <3>1. c * t >= 1 * t
      BY <2>3
    <3>2. q >= t
      BY <1>1, <3>1
    <3>3. QED
      BY <1>1, <2>1, <3>2 DEF Combined, Clear
  <2>4. QED
    BY <2>2, <2>3
<1>3. CASE x >= c + 1
  <2>1. x * t >= (c + 1) * t /\ (c + 1) * t = q + t
    BY <1>1, <1>3
  <2>2. p >= q + t
    BY <1>1, <2>1
  <2>3. QED
    BY <1>1, <2>2 DEF Combined, Clear
<1>4. CASE x <= c - 1
  <2>1. x * t <= (c - 1) * t /\ (c - 1) * t = q - t
    BY <1>1, <1>4
  <2>2. p <= q - t
    BY <1>1, <2>1
  <2>3. QED
    BY <1>1, <2>2 DEF Combined, Clear
<1>5. QED
  BY <1>2, <1>3, <1>4

(* The places of a binade, in fences: one of the product's last digits, and  *)
(* the smallest addend that is not too far below the product.                *)
LEMMA PlacesOf ==
  ASSUME NEW m \in 0 .. N!PosInf - 1, NEW e, e = N!Exponent(m), NEW a, a = 2 * Mantissas
  PROVE  /\ e - ManBits - 2 - Unit \in 0 .. MaxBits
         /\ \E g \in Nat \ {0} : /\ g = 2^(e - ManBits - 2 - Unit)
                                 /\ 2 * g = 2^(e - ManBits - 1 - Unit)
                                 /\ Lows * Fence(m) = a * g
                                 /\ a * Fence(m) <= g
<1>1. /\ ManBits \in Nat /\ ManBits >= 2 /\ LowBits \in Nat /\ LowBits >= 2 * ManBits + 2
      /\ MaxBits \in Nat /\ Unit \in Int /\ e \in Int /\ e - LowBits - 1 - Unit \in 0 .. MaxBits
      /\ 2^(e - 1 - Unit) = Lows * Fence(m)
      /\ e - 1 - Unit \in 0 .. MaxBits
  <2>1. /\ ManBits \in Nat /\ ManBits >= 2 /\ LowBits \in Nat /\ LowBits >= 2 * ManBits + 2
        /\ MaxBits \in Nat /\ Unit \in Int
    BY FormatsAre, UnitFits
  <2>2. /\ e \in Int /\ e - LowBits - 1 - Unit \in 0 .. MaxBits /\ 2^(e - 1 - Unit) = Lows * Fence(m)
    BY FenceIs
  <2>3. e - Unit \in 0 .. MaxBits
    <3>1. m \in 0 .. N!PosInf
      BY NarrowInfinity
    <3>2. QED
      BY <3>1, MagnitudeInUnits
  <2>4. QED
    BY <2>1, <2>2, <2>3
<1>2. PICK d \in Nat, f \in Nat : /\ d = e - ManBits - 2 - Unit /\ f = e - LowBits - 1 - Unit
                                  /\ (ManBits + 1) + d = e - 1 - Unit /\ 1 + d = e - ManBits - 1 - Unit
                                  /\ d <= MaxBits /\ 1 + d <= MaxBits /\ (ManBits + 1) + d <= MaxBits
                                  /\ (ManBits + 1) + f <= d
  BY <1>1
<1>3. 2^((ManBits + 1) + d) = 2^(ManBits + 1) * 2^d /\ 2^d \in Nat \ {0}
  <2>1. ManBits + 1 \in Nat
    BY <1>1
  <2>2. QED
    BY <1>2, <2>1, UnitPowers
<1>4. 2^(1 + d) = 2^1 * 2^d
  <2>1. 1 \in Nat
    OBVIOUS
  <2>2. QED
    BY <1>2, <2>1, UnitPowers
<1>5. 2^1 = 2
  OBVIOUS
<1>6. 2^(ManBits + 1) = a
  <2>1. 1 \in Nat /\ ManBits + 1 <= MaxBits
    BY <1>1, <1>2
  <2>2. 2^(ManBits + 1) = 2^ManBits * 2^1 /\ 2^ManBits \in Nat
    BY <1>1, <2>1, UnitPowers
  <2>3. QED
    BY <1>5, <2>2 DEF Mantissas
<1>7. 2^((ManBits + 1) + f) = a * 2^f /\ 2^((ManBits + 1) + f) <= 2^d
  <2>1. ManBits + 1 \in Nat /\ (ManBits + 1) + f <= MaxBits
    BY <1>1, <1>2
  <2>2. 2^((ManBits + 1) + f) = 2^(ManBits + 1) * 2^f
    BY <1>2, <2>1, UnitPowers
  <2>3. (ManBits + 1) + f \in 0 .. MaxBits /\ d \in 0 .. MaxBits
    BY <1>2, <2>1
  <2>4. QED
    BY <1>2, <1>6, <2>2, <2>3, FormatsAre, NT!PowersGrow
<1>8. Fence(m) = 2^f
  BY <1>2 DEF Fence
<1>9. PICK g \in Nat \ {0} : g = 2^d
  BY <1>3
<1>10. g = 2^(e - ManBits - 2 - Unit) /\ 2 * g = 2^(e - ManBits - 1 - Unit)
  BY <1>2, <1>4, <1>5, <1>9
<1>11. Lows * Fence(m) = a * g
  BY <1>1, <1>2, <1>3, <1>6, <1>9
<1>12. a * Fence(m) <= g
  BY <1>7, <1>8, <1>9
<1>13. e - ManBits - 2 - Unit \in 0 .. MaxBits
  BY <1>1, <1>2
<1>14. QED
  BY <1>9, <1>10, <1>11, <1>12, <1>13

(* The sum of a product and an addend that the FP64 path takes.              *)
Fused(sa, sb, ep, i, v) ==
  /\ sa \in 0 .. 2 * Mantissas - 1 /\ sb \in 0 .. 2 * Mantissas - 1
  /\ ep \in Int /\ ep - Unit \in 0 .. MaxBits
  /\ i \in 0 .. N!PosInf /\ N!Significand(i) >= Mantissas
  /\ ep - N!Exponent(i) + ManBits <= Binades
  /\ Combined(v, (sa * sb) * 2^(ep - Unit), NT!Val(i, Unit))

LEMMA FusedClear ==
  ASSUME NEW sa, NEW sb, NEW ep, NEW i, NEW v, Fused(sa, sb, ep, i, v), NEW m \in 0 .. N!PosInf - 1
  PROVE  Clear(v, m)
<1>1. /\ sa \in 0 .. 2 * Mantissas - 1 /\ sb \in 0 .. 2 * Mantissas - 1
      /\ ep \in Int /\ ep - Unit \in 0 .. MaxBits /\ i \in 0 .. N!PosInf
      /\ N!Significand(i) >= Mantissas /\ ep - N!Exponent(i) + ManBits <= Binades
      /\ Combined(v, (sa * sb) * 2^(ep - Unit), NT!Val(i, Unit))
  BY DEF Fused
<1>2. PICK e \in Int, f \in Nat \ {0} : e = N!Exponent(m) /\ f = Fence(m) /\ e - LowBits - 1 - Unit \in 0 .. MaxBits
                                        /\ f = 2^(e - LowBits - 1 - Unit)
  BY FenceIs DEF Fence
<1>3. PICK a \in Nat, low \in Nat : a = 2 * Mantissas /\ low = Lows /\ a < low /\ a >= 8 /\ Mantissas \in Nat
  BY LowsExceed
<1>4. /\ LowBits \in Nat /\ ManBits \in Nat /\ MaxBits \in Nat /\ Unit \in Int /\ ManBits >= 2
      /\ Binades \in Nat /\ Binades <= LowBits + ManBits - 1
  BY FormatsAre, UnitFits, ShortcutAssumption
<1>5. PICK n \in Nat, p \in Nat : n = sa * sb /\ n + 1 < low /\ p = n * 2^(ep - Unit)
  <2>1. sa * sb \in Nat /\ sa * sb + 1 < Lows
    BY <1>1, ProductSmall
  <2>2. ep - Unit \in Nat /\ ep - Unit <= MaxBits /\ 0 \in Nat /\ (ep - Unit) + 0 <= MaxBits
    BY <1>1, <1>4
  <2>3. 2^(ep - Unit) \in Nat
    BY <2>2, UnitPowers
  <2>4. PICK n \in Nat, x \in Nat : n = sa * sb /\ x = 2^(ep - Unit)
    BY <2>1, <2>3
  <2>5. n * x \in Nat
    OBVIOUS
  <2>6. QED
    BY <1>3, <2>1, <2>4, <2>5
<1>6. PICK sc \in 0 .. 2 * Mantissas - 1, ec \in Int, y \in Nat :
        /\ sc = N!Significand(i) /\ ec = N!Exponent(i) /\ sc \in Nat /\ ec - Unit \in 0 .. MaxBits
        /\ ec >= N!MinExp /\ y = NT!Val(i, Unit) /\ y = sc * 2^(ec - Unit)
  BY <1>1, MagnitudeInUnits
<1>7. Combined(v, p, y) /\ sc >= Mantissas /\ ep - ec + ManBits <= Binades
  BY <1>1, <1>5, <1>6
<1>8. CASE ep >= e - LowBits /\ ec >= e - LowBits
  <2>1. PICK x1 \in Nat : p = x1 * (2 * Fence(m))
    BY <1>1, <1>2, <1>5, <1>8, OnPlaces
  <2>2. PICK x2 \in Nat : y = x2 * (2 * Fence(m))
    <3>1. ec >= N!Exponent(m) - LowBits
      BY <1>2, <1>8
    <3>2. PICK x2 \in Nat : sc * 2^(ec - Unit) = x2 * (2 * Fence(m))
      BY <1>6, <3>1, OnPlaces
    <3>3. QED
      BY <1>6, <3>2
  <2>3. QED
    BY <1>7, <2>1, <2>2, BothOnPlaces
<1>9. CASE ep < e - LowBits
  <2>1. p <= n * Fence(m)
    BY <1>1, <1>2, <1>5, <1>9, BelowFence
  <2>2. n + 1 < Lows /\ Combined(v, y, p)
    BY <1>3, <1>5, <1>7, CombinedSwaps
  <2>3. QED
    BY <1>1, <1>5, <1>6, <2>1, <2>2, ValueAndFences
<1>10. CASE ep >= e - LowBits /\ ec < e - LowBits
  <2>1. y <= sc * f
    BY <1>2, <1>6, <1>10, BelowFence
  <2>2. y + f <= a * f /\ a * f \in Nat
    <3>1. sc + 1 <= a
      BY <1>3, <1>6
    <3>2. (sc + 1) * f <= a * f /\ (sc + 1) * f = sc * f + f /\ a * f \in Nat /\ sc * f \in Nat
      BY <3>1
    <3>3. QED
      BY <2>1, <3>2
  <2>3. PICK s \in Nat : s = N!Significand(m) /\ s >= Mantissas /\ NT!Mid(m, Unit) = (2 * s + 1) * (Lows * f)
    <3>1. e > N!MinExp
      BY <1>4, <1>6, <1>10, UnitFits
    <3>2. N!Significand(m) >= Mantissas
      BY <1>2, <3>1, LeadingOne
    <3>3. QED
      BY <1>2, <3>2, FenceIs
  <2>4. PICK g \in Nat \ {0} : /\ g = 2^(e - ManBits - 2 - Unit) /\ 2 * g = 2^(e - ManBits - 1 - Unit)
                               /\ Lows * f = a * g /\ a * f <= g /\ e - ManBits - 2 - Unit \in 0 .. MaxBits
    BY <1>2, <1>3, PlacesOf
  <2>5. CASE ep < e - ManBits - 1
    <3>1. PICK x \in Nat : x = 2^(ep - Unit) /\ x <= g
      <4>1. ep - Unit \in 0 .. MaxBits /\ e - ManBits - 2 - Unit \in 0 .. MaxBits
            /\ ep - Unit <= e - ManBits - 2 - Unit
        BY <1>1, <1>2, <1>4, <2>4, <2>5
      <4>2. QED
        BY <2>4, <4>1, FormatsAre, NT!PowersGrow
    <3>2. p <= (a * a) * g
      <4>1. n <= a * a /\ a * a \in Nat
        <5>1. sa \in Nat /\ sb \in Nat /\ sa <= a /\ sb <= a
          BY <1>1, <1>3
        <5>2. sa * sb <= a * sb /\ a * sb <= a * a /\ sa * sb \in Nat /\ a * sb \in Nat /\ a * a \in Nat
          BY <5>1
        <5>3. QED
          BY <1>5, <5>2
      <4>2. PICK b \in Nat : b = a * a
        BY <4>1
      <4>3. n * x <= b * x /\ b * x <= b * g
        BY <3>1, <4>1, <4>2
      <4>4. n * x \in Nat /\ b * x \in Nat /\ b * g \in Nat /\ p = n * x
        BY <1>5, <3>1
      <4>5. QED
        BY <4>2, <4>3, <4>4
    <3>3. PICK h \in Nat : h = a * g
      OBVIOUS
    <3>4. (a * a) * g = a * h /\ a * h \in Nat
      BY <3>3
    <3>5. (2 * s + 1) * h >= (a + 1) * h /\ (a + 1) * h = a * h + h
      <4>1. 2 * s + 1 >= a + 1
        BY <1>3, <2>3
      <4>2. QED
        BY <4>1
    <3>6. y + f < h
      <4>1. g < a * g
        BY <1>3
      <4>2. QED
        BY <2>2, <2>4, <3>3, <4>1
    <3>7. PICK mid \in Nat : mid = (2 * s + 1) * h /\ mid = NT!Mid(m, Unit)
      BY <2>3, <2>4, <3>3
    <3>8. v \in Nat /\ v <= p + y
      BY <1>7 DEF Combined
    <3>9. p <= a * h
      BY <3>2, <3>4
    <3>10. v + f < mid
      BY <3>4, <3>5, <3>6, <3>7, <3>8, <3>9
    <3>11. QED
      BY <1>2, <3>7, <3>10 DEF Clear
  <2>6. CASE ep >= e - ManBits - 1
    <3>1. PICK x \in Nat : p = x * (2 * g)
      <4>1. PICK d \in Nat, b \in Nat : d = ep - (e - ManBits - 1) /\ b = e - ManBits - 1 - Unit /\ d + b = ep - Unit
                                        /\ d + b <= MaxBits
        BY <1>1, <1>2, <1>4, <2>4, <2>6
      <4>2. 2^(d + b) = 2^d * 2^b /\ 2^d \in Nat
        BY <4>1, UnitPowers
      <4>3. PICK w \in Nat : w = 2^d /\ 2^(ep - Unit) = w * (2 * g)
        BY <2>4, <4>1, <4>2
      <4>4. n * (w * (2 * g)) = (n * w) * (2 * g) /\ n * w \in Nat
        OBVIOUS
      <4>5. QED
        BY <1>5, <4>3, <4>4
    <3>2. NT!Mid(m, Unit) = ((2 * s + 1) * Mantissas) * (2 * g) /\ (2 * s + 1) * Mantissas \in Nat
      <4>1. PICK b \in Nat : b = Mantissas /\ a = 2 * b
        BY <1>3
      <4>2. (2 * s + 1) * ((2 * b) * g) = ((2 * s + 1) * b) * (2 * g)
        OBVIOUS
      <4>3. QED
        BY <2>3, <2>4, <4>1, <4>2
    <3>3. y + f < 2 * g
      BY <2>2, <2>4
    <3>4. y > f
      <4>1. PICK d \in Nat, b \in Nat : d = ec - Unit /\ b = e - LowBits - 1 - Unit /\ b + 1 <= ManBits + d
                                        /\ ManBits + d <= MaxBits /\ b + 1 <= MaxBits
        <5>1. ec >= e - LowBits - ManBits
          BY <1>1, <1>2, <1>4, <1>7, <2>6
        <5>2. ManBits + (ec - Unit) <= MaxBits
          BY <1>2, <1>4, <1>10, <2>4, FormatsAre
        <5>3. QED
          BY <1>2, <1>4, <1>6, <5>1, <5>2
      <4>2. 2^(ManBits + d) = Mantissas * 2^d /\ 2^d \in Nat \ {0}
        BY <1>4, <4>1, UnitPowers DEF Mantissas
      <4>3. 2^b < 2^(ManBits + d) /\ 2^b \in Nat /\ 2^(ManBits + d) \in Nat
        <5>1. b \in 0 .. MaxBits /\ ManBits + d \in 0 .. MaxBits /\ b < ManBits + d
          BY <1>4, <4>1
        <5>2. 2 * 2^b <= 2^(ManBits + d) /\ 2^b \in Nat \ {0} /\ 2^(ManBits + d) \in Nat \ {0}
          BY <5>1, FormatsAre, NT!PowersGrow
        <5>3. QED
          BY <5>2
      <4>4. PICK z \in Nat, w \in Nat : z = 2^d /\ w = Mantissas
        BY <1>3, <4>2
      <4>5. w * z <= sc * z
        BY <1>6, <1>7, <4>4
      <4>6. y = sc * z /\ f = 2^b /\ f < w * z /\ w * z \in Nat
        BY <1>2, <1>6, <4>1, <4>2, <4>3, <4>4
      <4>7. QED
        BY <4>5, <4>6
    <3>5. Combined(v, x * (2 * g), y)
      BY <1>7, <3>1
    <3>6. PICK t \in Nat, c \in Nat : t = 2 * g /\ c = (2 * s + 1) * Mantissas
      BY <3>2
    <3>7. NT!Mid(m, Unit) = c * t /\ Combined(v, x * t, y) /\ y + Fence(m) < t /\ y > Fence(m)
      BY <1>2, <3>2, <3>3, <3>4, <3>5, <3>6
    <3>8. QED
      BY <3>7, PlacesApart
  <2>7. QED
    BY <1>2, <1>4, <2>5, <2>6, <1>1
<1>11. QED
  BY <1>1, <1>2, <1>4, <1>6, <1>8, <1>9, <1>10

-----------------------------------------------------------------------------
(* The integer model rounds onto the binade's grid.                          *)

(* The remainder against half the divisor, or twice the remainder against it. *)
LEMMA RoundedHalves ==
  ASSUME NEW num \in Nat, NEW d \in Nat, d >= 1, d <= MaxBits
  PROVE  /\ (IF num % 2^d > 2^(d - 1) \/ (num % 2^d = 2^(d - 1) /\ (num \div 2^d) % 2 = 1)
             THEN num \div 2^d + 1 ELSE num \div 2^d) = NT!RoundedQuotient(num, 2^d)
         /\ num \div 2^d \in Nat /\ NT!RoundedQuotient(num, 2^d) \in Nat
         /\ NT!RoundedQuotient(num, 2^d) \in {num \div 2^d, num \div 2^d + 1}
         /\ num < 2^(d - 1) => NT!RoundedQuotient(num, 2^d) = 0
<1>1. PICK w \in Nat \ {0}, half \in Nat \ {0} : w = 2^d /\ half = 2^(d - 1) /\ w = 2 * half
  BY FormatsAre, NT!PowerHalved
<1>2. PICK q \in Nat, rem \in 0 .. w - 1 : q = num \div w /\ rem = num % w /\ num = (w * q) + rem
  <2>1. /\ num \div w \in Nat /\ (num % w) \in 0 .. w - 1 /\ num = (w * (num \div w)) + (num % w)
    BY NT!QuotientRounds
  <2>2. QED
    BY <2>1
<1>3. NT!RoundedQuotient(num, w) = IF 2 * rem > w \/ (2 * rem = w /\ q % 2 = 1) THEN q + 1 ELSE q
  BY <1>2 DEF NT!RoundedQuotient
<1>4. (2 * rem > w <=> rem > half) /\ (2 * rem = w <=> rem = half)
  BY <1>1, <1>2
<1>5. ASSUME num < half PROVE NT!RoundedQuotient(num, w) = 0
  <2>1. q = 0
    <3>1. SUFFICES ASSUME q >= 1 PROVE FALSE
      BY <1>2
    <3>2. w * q >= w * 1
      BY <3>1
    <3>3. QED
      BY <1>1, <1>2, <1>5, <3>2
  <2>2. num = rem
    BY <1>2, <2>1
  <2>3. QED
    BY <1>3, <1>4, <1>5, <2>1, <2>2
<1>6. PICK r \in Nat : r = NT!RoundedQuotient(num, w) /\ r \in {q, q + 1}
  BY <1>3
<1>7. r = IF num % w > half \/ (num % w = half /\ (num \div w) % 2 = 1) THEN num \div w + 1 ELSE num \div w
  BY <1>2, <1>3, <1>4, <1>6
<1>8. num < half => r = 0
  BY <1>5, <1>6
<1>9. QED
  BY <1>1, <1>2, <1>6, <1>7, <1>8, Zenon

(* The leading bit, and the exponent of the last place that is kept.         *)
LEMMA LeadingPlace ==
  ASSUME NEW num \in 1 .. 2^MaxBits - 1
  PROVE  /\ N!BitLength(num) \in 1 .. MaxBits /\ N!BitLength(num) = NT!BitLength(num)
         /\ num \in Nat /\ num # 0
         /\ 2^(N!BitLength(num) - 1) <= num /\ num < 2^N!BitLength(num)
<1>1. MaxBits \in Nat /\ 2^MaxBits \in Nat
  <2>1. MaxBits \in Nat /\ MaxBits \in 0 .. MaxBits
    BY FormatsAre
  <2>2. QED
    BY <2>1, FormatsAre, NT!PowersGrow
<1>2. num \in Nat /\ num # 0
  BY <1>1
<1>3. /\ NT!BitLength(num) \in 1 .. MaxBits
      /\ 2^(NT!BitLength(num) - 1) <= num /\ num < 2^NT!BitLength(num)
  BY FormatsAre, NT!Bits
<1>4. QED
  BY <1>2, <1>3, NarrowRoundNames

(* Below the lowest binade: onto the subnormals' grid.                       *)
LEMMA GridIsRounded ==
  ASSUME NEW num \in 1 .. 2^MaxBits - 1, NEW ex \in Int, ex >= 2 * N!MinExp,
         ex + N!BitLength(num) - 1 - ManBits < N!MinExp, NEW s
  PROVE  SubnormalGrid(s, num, ex) = N!WithSign(s, NT!RoundMagnitude(num, ex))
<1>1. PICK bits \in 1 .. MaxBits : bits = N!BitLength(num) /\ bits = NT!BitLength(num) /\ num # 0
                                   /\ num \in Nat /\ num < 2^bits
  BY LeadingPlace
<1>2. /\ N!MinExp \in Int /\ ManBits \in Nat /\ MaxBits \in Nat /\ -N!MinExp <= MaxBits
      /\ ManBits <= MaxBits /\ N!MinExp = NT!MinExp
  <2>1. N!MinExp = 1 - N!Bias - ManBits /\ N!Bias \in Nat /\ 3 * N!Bias + 2 * ManBits + 2 <= MaxBits
        /\ N!MinExp \in Int
    BY UnitFits
  <2>2. ManBits \in Nat /\ MaxBits \in Nat
    BY FormatsAre
  <2>3. QED
    BY <2>1, <2>2, NarrowNames
<1>3. PICK mant \in Nat, inf \in Nat : mant = 2^ManBits /\ mant = NT!Mantissas /\ inf = NT!PosInf /\ mant <= inf /\ mant >= 1
  <2>1. /\ Mantissas \in Nat /\ Mantissas >= 4 /\ Fields \in Nat /\ Fields >= 4
        /\ N!PosInf = (Fields - 1) * Mantissas /\ N!PosInf \in Nat
    BY LowsExceed, Sizes, NarrowInfinity
  <2>2. (Fields - 1) * Mantissas >= 1 * Mantissas
    BY <2>1
  <2>3. QED
    BY <2>1, <2>2, NarrowNames DEF Mantissas
<1>4. NT!Grid(num, ex) = N!MinExp
  BY <1>1, <1>2 DEF NT!Grid
<1>5. PICK shift \in Int : shift = N!MinExp - ex /\ bits <= shift + ManBits
  BY <1>1, <1>2
<1>6. PICK sig : sig = IF ex >= N!MinExp THEN num * 2^(ex - N!MinExp) ELSE NT!RoundedQuotient(num, 2^(N!MinExp - ex))
  OBVIOUS
\* The early exit far below the grid, and the value on it.
<1>7. sig \in 0 .. mant /\ (shift > bits + 2 => sig = 0)
      /\ sig = IF shift <= 0 THEN num * 2^(-shift)
               ELSE LET keep == num \div 2^shift
                        rem == num % 2^shift
                        half == 2^(shift - 1)
                    IN IF rem > half \/ (rem = half /\ keep % 2 = 1) THEN keep + 1 ELSE keep
  <2>1. CASE shift <= 0
    <3>1. ex >= N!MinExp /\ ex - N!MinExp = -shift /\ -shift \in Nat
      BY <1>2, <1>5, <2>1
    <3>2. sig = num * 2^(-shift)
      BY <1>6, <3>1
    <3>3. PICK d \in Nat : d = -shift /\ bits + d <= ManBits /\ bits + d <= MaxBits
      BY <1>2, <1>5, <3>1
    <3>4. 2^(bits + d) = 2^bits * 2^d /\ 2^d \in Nat \ {0} /\ 2^bits \in Nat \ {0}
      BY <1>1, <3>3, UnitPowers
    <3>5. 2^(bits + d) <= mant
      <4>1. bits + d \in 0 .. MaxBits /\ ManBits \in 0 .. MaxBits
        BY <1>2, <3>3
      <4>2. QED
        BY <1>3, <3>3, <4>1, FormatsAre, NT!PowersGrow
    <3>6. PICK x \in Nat \ {0}, y \in Nat \ {0} : x = 2^d /\ y = 2^bits /\ num <= y /\ y * x <= mant
      <4>1. PICK x \in Nat \ {0}, y \in Nat \ {0} : x = 2^d /\ y = 2^bits
        BY <3>4
      <4>2. y * x <= mant
        BY <3>4, <3>5, <4>1
      <4>3. num <= y
        BY <1>1, <4>1
      <4>4. QED
        BY <4>1, <4>2, <4>3
    <3>7. num * x <= y * x /\ num * x \in Nat /\ y * x \in Nat
      BY <1>1, <3>6
    <3>8. sig \in 0 .. mant
      BY <3>2, <3>3, <3>6, <3>7
    <3>9. QED
      BY <1>1, <2>1, <3>2, <3>8
  <2>2. CASE shift >= 1
    <3>1. ~ (ex >= N!MinExp) /\ shift \in Nat /\ shift <= MaxBits
      BY <1>2, <1>5, <2>2
    <3>2. sig = NT!RoundedQuotient(num, 2^shift)
      BY <1>5, <1>6, <3>1
    <3>3. /\ num \div 2^shift \in Nat /\ sig \in {num \div 2^shift, num \div 2^shift + 1} /\ sig \in Nat
          /\ num < 2^(shift - 1) => sig = 0
          /\ sig = (IF num % 2^shift > 2^(shift - 1) \/ (num % 2^shift = 2^(shift - 1) /\ (num \div 2^shift) % 2 = 1)
                    THEN num \div 2^shift + 1 ELSE num \div 2^shift)
      BY <1>1, <2>2, <3>1, <3>2, RoundedHalves
    <3>4. ASSUME shift > bits + 2 PROVE sig = 0
      <4>1. bits \in 0 .. MaxBits /\ shift - 1 \in 0 .. MaxBits /\ bits <= shift - 1
        BY <1>1, <1>2, <3>1, <3>4
      <4>2. 2^bits <= 2^(shift - 1) /\ 2^bits \in Nat /\ 2^(shift - 1) \in Nat
        BY <4>1, FormatsAre, NT!PowersGrow
      <4>3. QED
        BY <1>1, <3>3, <4>2
    <3>5. sig <= mant
      <4>1. CASE shift + ManBits <= MaxBits
        <5>1. 2^(shift + ManBits) = 2^shift * mant /\ 2^shift \in Nat \ {0}
          BY <1>2, <1>3, <3>1, <4>1, UnitPowers
        <5>2. 2^bits <= 2^(shift + ManBits) /\ 2^bits \in Nat /\ 2^(shift + ManBits) \in Nat
          <6>1. bits \in 0 .. MaxBits /\ shift + ManBits \in 0 .. MaxBits /\ bits <= shift + ManBits
            BY <1>1, <1>2, <1>5, <3>1, <4>1
          <6>2. QED
            BY <6>1, FormatsAre, NT!PowersGrow
        <5>3. PICK w \in Nat \ {0} : w = 2^shift
          BY <5>1
        <5>4. num \in 0 .. (w * mant) - 1
          BY <1>1, <5>1, <5>2, <5>3
        <5>5. num \div w \in 0 .. mant - 1
          BY <5>3, <5>4, NT!QuotientBelow
        <5>6. QED
          BY <3>3, <5>3, <5>5
      <4>2. CASE shift + ManBits > MaxBits
        \* Far below: bits are at most MaxBits, and the quotient is smaller still.
        <5>1. PICK d \in Nat : d = MaxBits - shift /\ shift + d = MaxBits /\ d <= ManBits
          BY <1>2, <3>1, <4>2
        <5>2. 2^(shift + d) = 2^shift * 2^d /\ 2^shift \in Nat \ {0} /\ 2^d \in Nat \ {0}
          <6>1. shift + d <= MaxBits
            BY <1>2, <5>1
          <6>2. QED
            BY <3>1, <6>1, UnitPowers
        <5>3. 2^d <= mant
          <6>1. d \in 0 .. MaxBits /\ ManBits \in 0 .. MaxBits
            BY <1>2, <5>1
          <6>2. QED
            BY <1>3, <5>1, <6>1, FormatsAre, NT!PowersGrow
        <5>4. PICK w \in Nat \ {0}, z \in Nat \ {0} : w = 2^shift /\ z = 2^d /\ 2^MaxBits = w * z
          BY <5>1, <5>2
        <5>5. num \in 0 .. (w * z) - 1
          BY <1>1, <5>4
        <5>6. num \div w \in 0 .. z - 1
          BY <5>4, <5>5, NT!QuotientBelow
        <5>7. QED
          BY <3>3, <5>3, <5>4, <5>6
      <4>3. QED
        BY <1>2, <4>1, <4>2, <3>1
    <3>6. QED
      BY <2>2, <3>3, <3>4, <3>5
  <2>3. QED
    BY <2>1, <2>2
<1>8. NT!RoundMagnitude(num, ex) = sig
  <2>1. PICK m : m = (N!MinExp - NT!MinExp) * NT!Mantissas + sig
    OBVIOUS
  <2>2. m = sig
    <3>1. N!MinExp - NT!MinExp = 0 /\ NT!Mantissas \in Nat
      BY <1>2, <1>3
    <3>2. 0 * NT!Mantissas = 0
      BY <3>1
    <3>3. QED
      BY <1>7, <2>1, <3>1, <3>2
  <2>3. NT!RoundMagnitude(num, ex) = IF m > NT!PosInf THEN NT!PosInf ELSE m
    BY <1>1, <1>4, <1>6, <2>1, NT!RoundMagnitudeIs
  <2>4. sig \in Nat /\ sig <= inf
    BY <1>3, <1>7
  <2>5. QED
    BY <1>3, <2>2, <2>3, <2>4
<1>9. SubnormalGrid(s, num, ex) = N!WithSign(s, sig)
  <2>1. SubnormalGrid(s, num, ex) =
          IF shift > bits + 2 THEN N!WithSign(s, 0)
          ELSE IF sig >= mant THEN N!WithSign(s, mant) ELSE N!WithSign(s, sig)
    BY <1>1, <1>3, <1>5, <1>7, Zenon DEF SubnormalGrid
  <2>2. sig >= mant => sig = mant
    BY <1>3, <1>7
  <2>3. QED
    BY <1>7, <2>1, <2>2, Zenon
<1>10. QED
  BY <1>8, <1>9

(* The significand that is kept, before a carry.                             *)
LEMMA KeptBits ==
  ASSUME NEW num \in 1 .. 2^MaxBits - 1, NEW shift, shift = N!BitLength(num) - SigBits,
         NEW sig, sig = IF shift <= 0 THEN num * 2^(-shift) ELSE NT!RoundedQuotient(num, 2^shift)
  PROVE  /\ shift \in Int /\ sig \in Mantissas .. 2 * Mantissas
         /\ Kept(num) = IF sig = 2 * Mantissas THEN [sig |-> Mantissas, shift |-> shift + 1]
                                               ELSE [sig |-> sig, shift |-> shift]
<1>1. PICK bits \in 1 .. MaxBits : /\ bits = N!BitLength(num) /\ num # 0 /\ num \in Nat
                                   /\ num < 2^bits /\ 2^(bits - 1) <= num
  BY LeadingPlace
<1>2. ManBits \in Nat /\ MaxBits \in Nat /\ ManBits + 1 <= MaxBits /\ SigBits = ManBits + 1
  BY FormatsAre, BitsAssumption, WidthAssumption DEF SigBits
<1>3. PICK a \in Nat : a = Mantissas /\ a = 2^ManBits /\ a >= 4 /\ 2^SigBits = 2 * a
  <2>1. 2^(ManBits + 1) = 2^ManBits * 2^1
    <3>1. 1 \in Nat
      OBVIOUS
    <3>2. QED
      BY <1>2, <3>1, UnitPowers
  <2>2. 2^1 = 2
    OBVIOUS
  <2>3. QED
    BY <1>2, <2>1, <2>2, LowsExceed DEF Mantissas
<1>4. shift \in Int /\ shift = bits - (ManBits + 1) /\ shift <= MaxBits
  BY <1>1, <1>2
<1>5. CASE shift <= 0
  <2>1. PICK d \in Nat : d = -shift /\ bits + d = ManBits + 1 /\ (bits - 1) + d = ManBits /\ bits - 1 \in Nat
    BY <1>1, <1>2, <1>4, <1>5
  <2>2. 2^(bits + d) = 2^bits * 2^d /\ 2^d \in Nat \ {0} /\ 2^bits \in Nat
    BY <1>1, <1>2, <2>1, UnitPowers
  <2>3. 2^((bits - 1) + d) = 2^(bits - 1) * 2^d /\ 2^(bits - 1) \in Nat
    BY <1>2, <2>1, UnitPowers
  <2>4. PICK x \in Nat \ {0}, y \in Nat, z \in Nat : x = 2^d /\ y = 2^bits /\ z = 2^(bits - 1)
    BY <2>2, <2>3
  <2>5. y * x = 2 * a /\ z * x = a
    BY <1>2, <1>3, <2>1, <2>2, <2>3, <2>4
  <2>6. num + 1 <= y /\ z <= num
    BY <1>1, <2>4
  <2>7. (num + 1) * x <= y * x /\ z * x <= num * x /\ (num + 1) * x = num * x + x /\ num * x \in Nat
    BY <1>1, <2>4, <2>6
  <2>8. sig = num * x
    BY <1>5, <2>1, <2>4
  <2>9. sig \in a .. 2 * a - 1 /\ sig # 2 * a
    BY <2>4, <2>5, <2>7, <2>8
  <2>10. Kept(num) = [sig |-> num * 2^(-shift), shift |-> shift]
    BY <1>5, Zenon DEF Kept
  <2>11. QED
    BY <1>3, <1>4, <2>1, <2>4, <2>8, <2>9, <2>10
<1>6. CASE shift >= 1
  <2>1. shift \in Nat /\ ~ (shift <= 0) /\ shift <= MaxBits
    BY <1>4, <1>6
  <2>2. PICK up \in Nat : up = NT!RoundedQuotient(num, 2^shift) /\ up \in {num \div 2^shift, num \div 2^shift + 1}
                          /\ up = (IF num % 2^shift > 2^(shift - 1) \/ (num % 2^shift = 2^(shift - 1) /\ (num \div 2^shift) % 2 = 1)
                                   THEN num \div 2^shift + 1 ELSE num \div 2^shift)
    BY <1>1, <1>6, <2>1, RoundedHalves
  <2>3. PICK w \in Nat \ {0} : w = 2^shift /\ 2^bits = (2 * a) * w /\ 2^(bits - 1) = a * w
    <3>1. (ManBits + 1) + shift = bits /\ ManBits + shift = bits - 1 /\ ManBits + 1 \in Nat
      BY <1>1, <1>2, <1>4
    <3>2. 2^((ManBits + 1) + shift) = 2^(ManBits + 1) * 2^shift /\ 2^shift \in Nat \ {0}
      <4>1. (ManBits + 1) + shift <= MaxBits /\ ManBits + 1 \in Nat /\ shift \in Nat
        BY <1>1, <1>2, <2>1, <3>1
      <4>2. QED
        BY <4>1, UnitPowers
    <3>3. ManBits + shift <= MaxBits
      BY <1>1, <1>2, <3>1
    <3>4. 2^(ManBits + shift) = 2^ManBits * 2^shift
      BY <1>2, <2>1, <3>3, UnitPowers
    <3>5. QED
      BY <1>2, <1>3, <3>1, <3>2, <3>4
  <2>4. PICK q \in 0 .. 2 * a - 1 : q = num \div w /\ q >= a
    <3>1. num \in 0 .. (w * (2 * a)) - 1
      <4>1. w * (2 * a) = (2 * a) * w
        OBVIOUS
      <4>2. QED
        BY <1>1, <2>3, <4>1
    <3>2. 2 * a \in Nat
      OBVIOUS
    <3>3. num \div w \in 0 .. 2 * a - 1 /\ (num % w) \in 0 .. w - 1 /\ num = (w * (num \div w)) + (num % w)
      BY <3>1, <3>2, NT!QuotientBelow
    <3>4. PICK q \in 0 .. 2 * a - 1, rem \in 0 .. w - 1 : q = num \div w /\ num = (w * q) + rem
      BY <3>3
    <3>5. ~ (q <= a - 1)
      <4>1. SUFFICES ASSUME q <= a - 1 PROVE FALSE
        OBVIOUS
      <4>2. w * q <= w * (a - 1) /\ w * (a - 1) = a * w - w
        BY <4>1
      <4>3. num < a * w
        BY <3>4, <4>2
      <4>4. QED
        BY <1>1, <2>3, <4>3
    <3>6. QED
      BY <3>4, <3>5
  <2>5. up \in a .. 2 * a
    BY <2>2, <2>3, <2>4
  <2>6. up \div 2^SigBits = 1 <=> up = 2 * a
    <3>1. PICK z \in Nat \ {0} : z = 2 * a
      BY <1>3
    <3>2. CASE up = z
      <4>1. up = (z * 1) + 0 /\ 0 \in 0 .. z - 1 /\ up \in Int /\ 1 \in Int
        BY <3>1, <3>2
      <4>2. up \div z = 1
        BY <4>1, NT!DivisionUnique
      <4>3. QED
        BY <1>3, <3>1, <3>2, <4>2
    <3>3. CASE up # z
      <4>1. up = (z * 0) + up /\ up \in 0 .. z - 1 /\ up \in Int /\ 0 \in Int
        BY <2>5, <3>1, <3>3
      <4>2. up \div z = 0
        BY <4>1, NT!DivisionUnique
      <4>3. QED
        BY <1>3, <3>1, <3>3, <4>2
    <3>4. QED
      BY <3>2, <3>3
  <2>7. Kept(num) = IF up \div 2^SigBits = 1 THEN [sig |-> up \div 2, shift |-> shift + 1]
                                             ELSE [sig |-> up, shift |-> shift]
    BY <2>1, <2>2, Zenon DEF Kept
  <2>8. up = 2 * a => up \div 2 = a
    BY <2>5
  <2>9. sig = up
    BY <2>1, <2>2
  <2>10. QED
    BY <1>3, <1>4, <2>5, <2>6, <2>7, <2>8, <2>9
<1>7. QED
  BY <1>4, <1>5, <1>6

(* In a binade of normal numbers, and past the last one.                     *)
LEMMA KeptIsRounded ==
  ASSUME NEW num \in 1 .. 2^MaxBits - 1, NEW ex \in Int,
         ex + N!BitLength(num) - 1 - ManBits >= N!MinExp, NEW s
  PROVE  round_exact_to_bf16(s, num, ex) = N!WithSign(s, NT!RoundMagnitude(num, ex))
<1>1. PICK bits \in 1 .. MaxBits : /\ bits = N!BitLength(num) /\ bits = NT!BitLength(num) /\ num # 0
  BY LeadingPlace
<1>2. /\ ManBits \in Nat /\ MaxBits \in Nat /\ N!MinExp \in Int /\ N!Bias \in Nat
      /\ N!MinExp = 1 - N!Bias - ManBits /\ N!MinExp = NT!MinExp /\ NT!MinExp \in Int
  BY FormatsAre, UnitFits, NarrowNames
<1>3. PICK a \in Nat, fields \in Nat, inf \in Nat :
        /\ a = Mantissas /\ a = NT!Mantissas /\ a = 2^ManBits /\ a >= 4 /\ fields = Fields
        /\ inf = (fields - 1) * a /\ inf = NT!PosInf /\ inf = N!PosInf /\ N!ExpOnes = fields - 1
  BY LowsExceed, Sizes, NarrowInfinity, NarrowNames DEF Mantissas
<1>4. PICK shift \in Int : shift = N!BitLength(num) - SigBits /\ shift = bits - (ManBits + 1)
  BY <1>1, <1>2 DEF SigBits
<1>5. PICK sig : sig = IF shift <= 0 THEN num * 2^(-shift) ELSE NT!RoundedQuotient(num, 2^shift)
  OBVIOUS
<1>6. /\ sig \in a .. 2 * a
      /\ Kept(num) = IF sig = 2 * a THEN [sig |-> a, shift |-> shift + 1]
                                    ELSE [sig |-> sig, shift |-> shift]
  BY <1>3, <1>4, <1>5, KeptBits
<1>7. PICK g \in Int, f \in Nat : g = ex + shift /\ f = g - N!MinExp /\ g >= N!MinExp
                                  /\ g + ManBits + N!Bias = f + 1 /\ g = (ex + bits) - 1 - ManBits
  <2>1. PICK x \in Int : x = ex + shift /\ x = (ex + bits) - 1 - ManBits
    <3>1. bits \in Int /\ ManBits \in Int /\ shift = bits - (ManBits + 1)
      <4>1. MaxBits \in Nat /\ ManBits \in Nat
        BY <1>2
      <4>2. bits \in Int
        BY <4>1
      <4>3. QED
        BY <1>4, <4>1, <4>2
    <3>2. ex + shift = (ex + bits) - 1 - ManBits /\ ex + shift \in Int
      BY <3>1
    <3>3. QED
      BY <3>2
  <2>2. x >= N!MinExp
    BY <1>1, <1>2, <2>1
  <2>3. PICK y \in Nat : y = x - N!MinExp
    BY <1>2, <2>2
  <2>4. x + ManBits + N!Bias = y + 1
    BY <1>2, <2>3
  <2>5. QED
    BY <2>1, <2>2, <2>3, <2>4
<1>8. g = NT!Grid(num, ex)
  <2>1. g >= NT!MinExp /\ g = ex + NT!BitLength(num) - 1 - ManBits
    BY <1>1, <1>2, <1>7
  <2>2. QED
    BY <1>2, <2>1 DEF NT!Grid
<1>9. PICK m : m = (g - NT!MinExp) * NT!Mantissas + sig
  OBVIOUS
<1>10. NT!RoundMagnitude(num, ex) = IF m > NT!PosInf THEN NT!PosInf ELSE m
  <2>1. sig = IF ex >= g THEN num * 2^(ex - g) ELSE NT!RoundedQuotient(num, 2^(g - ex))
    <3>1. (ex >= g <=> shift <= 0) /\ ex - g = -shift /\ g - ex = shift
      BY <1>7
    <3>2. QED
      BY <1>5, <3>1
  <2>2. QED
    BY <1>1, <1>8, <1>9, <2>1, NT!RoundMagnitudeIs
<1>11. m = f * a + sig /\ m \in Nat
  <2>1. g - NT!MinExp = f
    BY <1>2, <1>7
  <2>2. m = f * a + sig
    BY <1>3, <1>9, <2>1
  <2>3. f * a \in Nat /\ sig \in Nat
    BY <1>6
  <2>4. QED
    BY <2>2, <2>3
\* The field, the significand without its leading bit.
<1>12. PICK e \in Nat, man \in 0 .. a - 1 :
         /\ e = ex + Kept(num).shift + ManBits + N!Bias /\ man = Kept(num).sig % a
         /\ e >= 1 /\ m = e * a + man
  <2>1. CASE sig = 2 * a
    <3>1. Kept(num).sig = a /\ Kept(num).shift = shift + 1
      BY <1>6, <2>1
    <3>2. ex + (shift + 1) + ManBits + N!Bias = f + 2
      BY <1>2, <1>7
    <3>3. a % a = 0
      BY <1>3
    <3>4. (f + 2) * a + 0 = f * a + sig
      BY <2>1
    <3>5. f + 2 \in Nat /\ 0 \in 0 .. a - 1
      BY <1>3
    <3>6. QED
      BY <1>11, <3>1, <3>2, <3>3, <3>4, <3>5
  <2>2. CASE sig # 2 * a
    <3>1. Kept(num).sig = sig /\ Kept(num).shift = shift
      BY <1>6, <2>2
    <3>2. ex + shift + ManBits + N!Bias = f + 1
      BY <1>2, <1>7
    <3>3. PICK man \in 0 .. a - 1 : man = sig - a
      BY <1>6, <2>2
    <3>4. sig % a = man
      <4>1. a \in Nat \ {0} /\ sig \in Int /\ 1 \in Int /\ sig = (a * 1) + man
        BY <1>3, <1>6, <3>3
      <4>2. QED
        BY <4>1, NT!DivisionUnique
    <3>5. (f + 1) * a + man = f * a + sig
      BY <1>6, <3>3
    <3>6. f + 1 \in Nat
      OBVIOUS
    <3>7. QED
      BY <1>11, <3>1, <3>2, <3>3, <3>4, <3>5, <3>6
  <2>3. QED
    BY <2>1, <2>2
<1>13. round_exact_to_bf16(s, num, ex) =
         IF e >= N!ExpOnes THEN N!WithSign(s, inf) ELSE N!WithSign(s, e * a + man)
  <2>1. PICK biased \in Int : biased = ex + bits - 1 + N!Bias /\ ~ (biased <= 0)
    BY <1>1, <1>2, <1>4, <1>7
  <2>2. ~ (e <= 0)
    BY <1>12
  <2>3. QED
    BY <1>1, <1>3, <1>12, <2>1, <2>2, Zenon DEF round_exact_to_bf16
<1>14. CASE e >= N!ExpOnes
  <2>1. m >= inf
    <3>1. e * a >= (fields - 1) * a /\ e * a \in Nat
      BY <1>3, <1>12, <1>14
    <3>2. QED
      BY <1>3, <1>12, <3>1
  <2>2. (IF m > inf THEN inf ELSE m) = inf
    BY <1>11, <2>1
  <2>3. NT!RoundMagnitude(num, ex) = inf
    BY <1>3, <1>10, <2>2
  <2>4. QED
    BY <1>13, <1>14, <2>3
<1>15. CASE ~ (e >= N!ExpOnes)
  <2>1. m <= inf
    <3>1. e + 1 <= fields - 1
      BY <1>3, <1>12, <1>15
    <3>2. (e + 1) * a <= (fields - 1) * a /\ (e + 1) * a = e * a + a /\ e * a \in Nat
      BY <3>1
    <3>3. QED
      BY <1>3, <1>12, <3>2
  <2>2. NT!RoundMagnitude(num, ex) = m
    <3>1. (IF m > inf THEN inf ELSE m) = m
      BY <1>11, <2>1
    <3>2. QED
      BY <1>3, <1>10, <3>1
  <2>3. QED
    BY <1>12, <1>13, <1>15, <2>2
<1>16. QED
  BY <1>14, <1>15

(* The integer path rounds like the relation, of either sign.                *)
LEMMA ExactIsRounded ==
  ASSUME NEW num \in 0 .. 2^MaxBits - 1, NEW ex \in Int, ex >= 2 * N!MinExp, NEW s
  PROVE  round_exact_to_bf16(s, num, ex) = N!WithSign(s, NT!RoundMagnitude(num, ex))
<1>1. CASE num = 0
  <2>1. round_exact_to_bf16(s, num, ex) = N!WithSign(s, 0)
    BY <1>1, Zenon DEF round_exact_to_bf16
  <2>2. NT!RoundMagnitude(num, ex) = 0
    BY <1>1, Zenon DEF NT!RoundMagnitude
  <2>3. QED
    BY <2>1, <2>2
<1>2. CASE num # 0
  <2>1. num \in 1 .. 2^MaxBits - 1
    <3>1. MaxBits \in 0 .. MaxBits
      BY FormatsAre
    <3>2. 2^MaxBits \in Nat
      BY <3>1, FormatsAre, NT!PowersGrow
    <3>3. QED
      BY <1>2, <3>2
  <2>2. PICK bits \in 1 .. MaxBits : bits = N!BitLength(num)
    BY <2>1, LeadingPlace
  <2>3. /\ ManBits \in Nat /\ N!MinExp \in Int /\ N!Bias \in Nat
        /\ N!MinExp = 1 - N!Bias - ManBits /\ MaxBits \in Nat
    BY FormatsAre, UnitFits
  <2>4. CASE ex + bits - 1 - ManBits >= N!MinExp
    BY <2>1, <2>2, <2>4, KeptIsRounded
  <2>5. CASE ex + bits - 1 - ManBits < N!MinExp
    <3>1. PICK biased \in Int : biased = ex + bits - 1 + N!Bias /\ biased <= 0
      BY <2>2, <2>3, <2>5
    <3>2. round_exact_to_bf16(s, num, ex) = SubnormalGrid(s, num, ex)
      BY <1>2, <2>2, <3>1, Zenon DEF round_exact_to_bf16
    <3>3. SubnormalGrid(s, num, ex) = N!WithSign(s, NT!RoundMagnitude(num, ex))
      BY <2>1, <2>2, <2>5, GridIsRounded
    <3>4. QED
      BY <3>2, <3>3
  <2>6. QED
    BY <2>2, <2>3, <2>4, <2>5
<1>3. QED
  BY <1>1, <1>2

-----------------------------------------------------------------------------
(* The exact sum, and a result that is that sum rounded once.                *)

FiniteNarrow(u) == u \in N!Patterns /\ N!Field(u) # N!ExpOnes

(* The parts of a finite operand.                                            *)
LEMMA FiniteIs ==
  ASSUME NEW u, FiniteNarrow(u)
  PROVE  /\ N!Sign(u) \in 0 .. 1 /\ N!Significand(u) \in 0 .. 2 * Mantissas - 1 /\ N!Significand(u) \in Nat
         /\ N!Exponent(u) \in Int /\ N!Exponent(u) >= N!MinExp
         /\ N!Exponent(u) <= N!MinExp + 2 * N!Bias - 1
         /\ N!Magnitude(u) \in 0 .. N!PosInf /\ N!Magnitude(u) \in 0 .. N!PosInf - 1
         /\ N!Significand(N!Magnitude(u)) = N!Significand(u)
         /\ N!Exponent(N!Magnitude(u)) = N!Exponent(u)
         /\ NT!Val(N!Magnitude(u), Unit) = N!Significand(u) * 2^(N!Exponent(u) - Unit)
         /\ N!Exponent(u) - Unit \in 0 .. MaxBits
<1>1. u \in NT!Patterns /\ NT!Field(u) # NT!ExpOnes
  BY NarrowNames, NarrowPartNames DEF FiniteNarrow
<1>2. NT!Room
  BY FormatsAre
<1>3. /\ NT!Sign(u) \in 0 .. 1
      /\ NT!Significand(u) \in 0 .. 2 * NT!Mantissas - 1 /\ NT!Significand(u) \in Nat
      /\ NT!Exponent(u) \in NT!MinExp .. NT!MinExp + 2 * NT!Bias - 1 /\ NT!Exponent(u) \in Int
      /\ NT!Magnitude(u) \in 0 .. NT!PosInf - 1 /\ NT!Magnitude(u) \in 0 .. NT!PosInf
      /\ NT!Significand(NT!Magnitude(u)) = NT!Significand(u)
      /\ NT!Exponent(NT!Magnitude(u)) = NT!Exponent(u)
  BY <1>1, <1>2, NT!Operand
<1>4. PICK n : n = N!Magnitude(u) /\ n = NT!Magnitude(u)
  BY NarrowPartNames
<1>5. NT!Significand(n) = N!Significand(n) /\ NT!Exponent(n) = N!Exponent(n)
  BY NarrowPartNames
<1>6. NT!Sign(u) = N!Sign(u) /\ NT!Significand(u) = N!Significand(u) /\ NT!Exponent(u) = N!Exponent(u)
  BY NarrowPartNames
<1>7. n \in 0 .. N!PosInf /\ n \in 0 .. N!PosInf - 1
  BY <1>3, <1>4, NarrowNames
<1>8. /\ N!Exponent(n) - Unit \in 0 .. MaxBits
      /\ NT!Val(n, Unit) = N!Significand(n) * 2^(N!Exponent(n) - Unit)
  BY <1>7, MagnitudeInUnits
<1>9. N!MinExp \in Int /\ N!Bias \in Nat
  BY UnitFits
<1>10. /\ N!Sign(u) \in 0 .. 1
       /\ N!Significand(u) \in 0 .. 2 * Mantissas - 1 /\ N!Significand(u) \in Nat
       /\ N!Exponent(u) \in N!MinExp .. N!MinExp + 2 * N!Bias - 1 /\ N!Exponent(u) \in Int
  BY <1>3, <1>6, NarrowNames
<1>11. N!Significand(n) = N!Significand(u) /\ N!Exponent(n) = N!Exponent(u)
  BY <1>3, <1>4, <1>5, <1>6
<1>12. N!Exponent(u) >= N!MinExp /\ N!Exponent(u) <= N!MinExp + 2 * N!Bias - 1
  BY <1>9, <1>10
<1>13. NT!Val(n, Unit) = N!Significand(u) * 2^(N!Exponent(u) - Unit) /\ N!Exponent(u) - Unit \in 0 .. MaxBits
  BY <1>8, <1>11
<1>14. QED
  BY <1>4, <1>7, <1>10, <1>11, <1>12, <1>13

(* What the sum t of a product and an addend of these signs is.              *)
IsTotal(a, b, c, psign, csign, t) ==
  /\ FiniteNarrow(a) /\ FiniteNarrow(b) /\ FiniteNarrow(c)
  /\ psign = (N!Sign(a) + N!Sign(b)) % 2 /\ csign \in 0 .. 1
  /\ t = N!SumOf(psign, N!Significand(a) * N!Significand(b), N!Exponent(a) + N!Exponent(b),
                 csign, N!Significand(c), N!Exponent(c))

InUnits(t) == t.num * 2^(t.exp - Unit)

LEMMA TotalIs ==
  ASSUME NEW a, NEW b, NEW c, NEW psign, NEW csign, NEW t, IsTotal(a, b, c, psign, csign, t),
         NEW p, p = (N!Significand(a) * N!Significand(b)) * 2^((N!Exponent(a) + N!Exponent(b)) - Unit),
         NEW y, y = NT!Val(N!Magnitude(c), Unit)
  PROVE  /\ t.num \in 0 .. 2^MaxBits - 1 /\ t.exp \in Int /\ t.exp >= 2 * N!MinExp /\ t.sign \in 0 .. 1
         /\ t.exp - Unit \in 0 .. MaxBits /\ InUnits(t) \in Nat /\ psign \in 0 .. 1
         /\ (t.num = 0 <=> InUnits(t) = 0) /\ (t.num = 0 => t.sign = 0)
         /\ (N!Exponent(a) + N!Exponent(b)) - Unit \in 0 .. MaxBits
         /\ p \in Nat /\ y \in Nat
         /\ t.exp = (IF N!Exponent(a) + N!Exponent(b) < N!Exponent(c)
                     THEN N!Exponent(a) + N!Exponent(b) ELSE N!Exponent(c))
         /\ InUnits(t) = IF psign = csign THEN p + y ELSE IF p >= y THEN p - y ELSE y - p
         /\ Combined(InUnits(t), p, y)
         /\ t.num # 0 => t.sign = IF psign = csign \/ p >= y THEN psign ELSE csign
<1>1. /\ a \in N!Patterns /\ b \in N!Patterns /\ c \in N!Patterns
      /\ N!Field(a) # N!ExpOnes /\ N!Field(b) # N!ExpOnes /\ N!Field(c) # N!ExpOnes
      /\ FiniteNarrow(a) /\ FiniteNarrow(b) /\ FiniteNarrow(c) /\ csign \in 0 .. 1
      /\ psign = (N!Sign(a) + N!Sign(b)) % 2
  BY DEF IsTotal, FiniteNarrow
<1>2. PICK sa \in Nat, sb \in Nat, sc \in Nat, ea \in Int, eb \in Int, ec \in Int :
        /\ sa = N!Significand(a) /\ sb = N!Significand(b) /\ sc = N!Significand(c)
        /\ ea = N!Exponent(a) /\ eb = N!Exponent(b) /\ ec = N!Exponent(c)
        /\ ec - Unit \in 0 .. MaxBits /\ y = sc * 2^(ec - Unit)
        /\ ea >= N!MinExp /\ eb >= N!MinExp /\ ec >= N!MinExp
        /\ ea <= N!MinExp + 2 * N!Bias - 1 /\ eb <= N!MinExp + 2 * N!Bias - 1
  <2>1. \A u : FiniteNarrow(u) =>
               /\ N!Significand(u) \in Nat /\ N!Exponent(u) \in Int /\ N!Exponent(u) >= N!MinExp
               /\ N!Exponent(u) <= N!MinExp + 2 * N!Bias - 1
               /\ NT!Val(N!Magnitude(u), Unit) = N!Significand(u) * 2^(N!Exponent(u) - Unit)
               /\ N!Exponent(u) - Unit \in 0 .. MaxBits
    BY FiniteIs
  <2>2. QED
    BY <1>1, <2>1
<1>3. psign \in 0 .. 1
  <2>1. N!Sign(a) \in 0 .. 1 /\ N!Sign(b) \in 0 .. 1
    BY <1>1, FiniteIs
  <2>2. QED
    BY <1>1, <2>1
<1>4. PICK n \in Nat, e \in Int : n = sa * sb /\ e = ea + eb
  <2>1. sa * sb \in Nat
    OBVIOUS
  <2>2. QED
    BY <2>1
<1>5. e - Unit \in 0 .. MaxBits /\ Unit \in Int
  <2>1. /\ Unit \in Int /\ Unit = 2 * N!MinExp - 2 /\ N!MinExp \in Int /\ N!Bias \in Nat
        /\ MaxBits \in Nat /\ 4 * N!Bias <= MaxBits
    BY UnitFits, FormatsAre, FmaAssumption
  <2>2. QED
    BY <1>2, <1>4, <2>1
<1>6. t = N!SumOf(psign, n, e, csign, sc, ec)
  BY <1>2, <1>4 DEF IsTotal
<1>7. /\ t.num \in 0 .. 2^MaxBits - 1 /\ t.exp \in Int /\ t.exp >= 2 * N!MinExp
      /\ t.sign \in 0 .. 1 /\ (t.num = 0 => t.sign = 0)
  <2>1. PICK u : u = N!SumOf(psign, N!Significand(a) * N!Significand(b), N!Exponent(a) + N!Exponent(b),
                             csign, N!Significand(c), N!Exponent(c))
    OBVIOUS
  <2>2. /\ u.num \in 0 .. 2^MaxBits - 1 /\ u.exp \in Int /\ u.exp >= 2 * N!MinExp
        /\ u.sign \in 0 .. 1 /\ (u.num = 0 => u.sign = 0)
    BY <1>1, <1>3, <2>1, ExactSumFlips
  <2>3. t = u
    BY <2>1 DEF IsTotal
  <2>4. QED
    BY <2>2, <2>3
<1>8. PICK v : v = InUnits(t)
  OBVIOUS
<1>9. NT!IsSum(psign, n, e, csign, sc, ec, Unit, t, v, p, y)
  <2>1. t = NT!SumOf(psign, n, e, csign, sc, ec)
    BY <1>6 DEF NT!SumOf, N!SumOf
  <2>2. v = NT!At(t.num, t.exp, Unit) /\ p = NT!At(n, e, Unit) /\ y = NT!At(sc, ec, Unit)
    BY <1>2, <1>4, <1>8 DEF NT!At, InUnits
  <2>3. QED
    BY <1>1, <1>2, <1>3, <1>4, <1>5, <2>1, <2>2 DEF NT!IsSum
<1>10. /\ t.exp - Unit \in 0 .. MaxBits /\ t.exp = (IF e < ec THEN e ELSE ec)
       /\ v \in Nat /\ p \in Nat /\ y \in Nat
       /\ v = IF psign = csign THEN p + y ELSE IF p >= y THEN p - y ELSE y - p
       /\ t.num = 0 <=> v = 0
       /\ v # 0 => t.sign = IF psign = csign \/ p >= y THEN psign ELSE csign
  BY <1>9, FormatsAre, NT!SumValue
<1>11. Combined(v, p, y)
  BY <1>10 DEF Combined
<1>12. QED
  BY <1>2, <1>3, <1>4, <1>5, <1>7, <1>8, <1>10, <1>11

(* The exact sum rounded once, with IEEE 754's sign of a zero.               *)
Once(psign, csign, t, r) ==
  \E n \in 0 .. N!PosInf :
    /\ NT!Nearest(InUnits(t), Unit, n)
    /\ r = N!WithSign(IF t.num = 0 THEN psign * csign ELSE t.sign, n)

(* There is one such result.                                                 *)
LEMMA OnceUnique ==
  ASSUME NEW psign, NEW csign, NEW t, InUnits(t) \in Nat,
         NEW r, NEW s, Once(psign, csign, t, r), Once(psign, csign, t, s)
  PROVE  r = s
<1>1. PICK n \in 0 .. N!PosInf : NT!Nearest(InUnits(t), Unit, n)
                                 /\ r = N!WithSign(IF t.num = 0 THEN psign * csign ELSE t.sign, n)
  BY DEF Once
<1>2. PICK m \in 0 .. N!PosInf : NT!Nearest(InUnits(t), Unit, m)
                                 /\ s = N!WithSign(IF t.num = 0 THEN psign * csign ELSE t.sign, m)
  BY DEF Once
<1>3. PICK v \in Nat : v = InUnits(t)
  OBVIOUS
<1>4. NT!Base(Unit) /\ NT!Format
  BY UnitFits, FormatsAre
<1>5. NT!Nearest(v, Unit, n) /\ NT!Nearest(v, Unit, m)
  BY <1>1, <1>2, <1>3
<1>6. n = m
  BY <1>4, <1>5, NT!NearestUnique
<1>7. QED
  BY <1>1, <1>2, <1>6

(* The addend as the unit takes it, its sign inverted for a subtraction.     *)
LEMMA ModifiedIs ==
  ASSUME NEW c \in N!Patterns, NEW sub \in 0 .. 1, NEW u, u = NT!Modified(c, sub)
  PROVE  /\ u \in N!Patterns /\ N!Sign(u) = (N!Sign(c) + sub) % 2 /\ (N!Sign(c) + sub) % 2 \in 0 .. 1
         /\ N!Magnitude(u) = N!Magnitude(c) /\ N!Field(u) = N!Field(c) /\ N!Mantissa(u) = N!Mantissa(c)
         /\ N!Significand(u) = N!Significand(c) /\ N!Exponent(u) = N!Exponent(c)
<1>1. PICK s \in 0 .. 1 : s = (N!Sign(c) + sub) % 2
  <2>1. N!Sign(c) \in 0 .. 1
    BY NarrowPattern
  <2>2. QED
    BY <2>1
<1>2. u = N!WithSign(s, N!Magnitude(c))
  BY <1>1 DEF NT!Modified, NT!WithSign, N!WithSign, NT!SignMask, N!SignMask, NT!Sign, N!Sign,
              NT!Magnitude, N!Magnitude
<1>3. PICK f \in 0 .. Fields - 1, man \in 0 .. Mantissas - 1 :
        /\ f = N!Field(c) /\ man = N!Mantissa(c) /\ N!Magnitude(c) = (Mantissas * f) + man
  BY NarrowPattern
<1>4. u = (N!SignMask * s) + ((Mantissas * f) + man)
  <2>1. N!SignMask \in Nat /\ Mantissas * f \in Int /\ Mantissas \in Nat /\ Fields \in Nat
    BY Sizes
  <2>2. u = s * N!SignMask + ((Mantissas * f) + man)
    BY <1>2, <1>3 DEF N!WithSign
  <2>3. s * N!SignMask = N!SignMask * s
    BY <2>1
  <2>4. QED
    BY <2>2, <2>3
<1>5. /\ u \in N!Patterns /\ N!Sign(u) = s /\ N!Magnitude(u) = (Mantissas * f) + man
      /\ N!Field(u) = f /\ N!Mantissa(u) = man
  BY <1>4, NarrowParts
<1>6. N!Significand(u) = N!Significand(c) /\ N!Exponent(u) = N!Exponent(c)
  BY <1>3, <1>5 DEF N!Significand, N!Exponent
<1>7. QED
  BY <1>1, <1>3, <1>5, <1>6

(* The unit rounds once.                                                     *)
LEMMA UnitOnce ==
  ASSUME NEW a, NEW b, NEW c, NEW psign, NEW csign, NEW t, IsTotal(a, b, c, psign, csign, t),
         N!Sign(c) = csign
  PROVE  Once(psign, csign, t, NT!Finite(a, b, c))
<1>1. NT!FiniteOperands(a, b, c)
  BY NarrowNames, NarrowPartNames DEF NT!FiniteOperands, IsTotal, FiniteNarrow
<1>2. NT!RoundedOnce(a, b, c)
  BY <1>1, FormatsAre, NT!FiniteRounds
<1>3. /\ NT!Sign(a) = N!Sign(a) /\ NT!Sign(b) = N!Sign(b) /\ NT!Sign(c) = csign
      /\ NT!Significand(a) = N!Significand(a) /\ NT!Exponent(a) = N!Exponent(a)
      /\ NT!Significand(b) = N!Significand(b) /\ NT!Exponent(b) = N!Exponent(b)
      /\ NT!Significand(c) = N!Significand(c) /\ NT!Exponent(c) = N!Exponent(c)
  BY NarrowPartNames
<1>4. t = NT!SumOf((NT!Sign(a) + NT!Sign(b)) % 2, NT!Significand(a) * NT!Significand(b),
                   NT!Exponent(a) + NT!Exponent(b), NT!Sign(c), NT!Significand(c), NT!Exponent(c))
  BY <1>3 DEF IsTotal, NT!SumOf, N!SumOf
<1>5. PICK n \in 0 .. NT!PosInf :
        /\ NT!Nearest(NT!At(t.num, t.exp, NT!Fine), NT!Fine, n)
        /\ NT!Finite(a, b, c)
             = NT!WithSign(IF t.num = 0 THEN ((NT!Sign(a) + NT!Sign(b)) % 2) * NT!Sign(c) ELSE t.sign, n)
  BY <1>2, <1>4 DEF NT!RoundedOnce
<1>6. NT!At(t.num, t.exp, NT!Fine) = InUnits(t)
  BY DEF NT!At, InUnits, Unit
<1>7. NT!Nearest(InUnits(t), Unit, n)
  BY <1>5, <1>6 DEF Unit
<1>8. psign = (NT!Sign(a) + NT!Sign(b)) % 2
  BY <1>3 DEF IsTotal
<1>9. \A x : NT!WithSign(x, n) = N!WithSign(x, n)
  BY DEF NT!WithSign, N!WithSign, NT!SignMask, N!SignMask
<1>10. NT!Finite(a, b, c) = N!WithSign(IF t.num = 0 THEN psign * csign ELSE t.sign, n)
  <2>1. PICK x : x = (IF t.num = 0 THEN ((NT!Sign(a) + NT!Sign(b)) % 2) * NT!Sign(c) ELSE t.sign)
    OBVIOUS
  <2>2. x = (IF t.num = 0 THEN psign * csign ELSE t.sign)
    BY <1>3, <1>8, <2>1
  <2>3. NT!Finite(a, b, c) = NT!WithSign(x, n)
    BY <1>5, <2>1
  <2>4. QED
    BY <1>9, <2>2, <2>3
<1>11. QED
  BY <1>5, <1>7, <1>10, NarrowNames DEF Once

-----------------------------------------------------------------------------
(* The golden model's ways to the fused result.                              *)

(* Rounded to the wide format and narrowed, when clear of every midpoint.    *)
LEMMA TwiceSigned ==
  ASSUME NEW num \in 0 .. 2^MaxBits - 1, NEW ex \in Int, ex - Unit \in 0 .. MaxBits,
         NEW v, v = num * 2^(ex - Unit), \A m \in 0 .. N!PosInf - 1 : Clear(v, m), NEW s \in 0 .. 1
  PROVE  \E n \in 0 .. N!PosInf :
           /\ NT!Nearest(v, Unit, n)
           /\ f32_to_bf16(W!WithSign(s, W!RoundMagnitude(num, ex))) = N!WithSign(s, n)
<1>1. WT!Format /\ WT!Base(Unit) /\ MaxBits \in Nat
  BY FormatsAre, UnitFits
<1>2. PICK q : q = W!RoundMagnitude(num, ex) /\ q = WT!RoundMagnitude(num, ex)
  BY WideRoundNames
<1>3. WT!Nearest(WT!At(num, ex, Unit), Unit, q)
  BY <1>1, <1>2, WT!RoundedNearest
<1>4. WT!At(num, ex, Unit) = v
  BY DEF WT!At
<1>5. v \in Nat
  <2>1. 2^(ex - Unit) \in Nat
    BY FormatsAre, NT!PowersGrow
  <2>2. 2^MaxBits \in Nat
    <3>1. MaxBits \in 0 .. MaxBits
      BY <1>1
    <3>2. QED
      BY <3>1, FormatsAre, NT!PowersGrow
  <2>3. num \in Nat
    BY <2>2
  <2>4. QED
    BY <2>1, <2>3
<1>6. NT!Nearest(v, Unit, Narrow(q)) /\ q \in 0 .. W!PosInf
  BY <1>3, <1>4, <1>5, RoundedTwice
<1>7. /\ Narrow(q) \in 0 .. N!PosInf
      /\ f32_to_bf16(W!WithSign(s, q)) = N!WithSign(s, Narrow(q))
  BY <1>6, Narrowed
<1>8. QED
  BY <1>2, <1>6, <1>7

(* A zero sum of operands that are not both zero cancels.                    *)
LEMMA ZeroSum ==
  ASSUME NEW a, NEW b, NEW c, NEW psign, NEW csign, NEW t, IsTotal(a, b, c, psign, csign, t)
  PROVE  /\ N!Significand(a) * N!Significand(b) = 0 /\ N!Significand(c) = 0 => t.num = 0
         /\ t.num = 0 => \/ N!Significand(a) * N!Significand(b) = 0 /\ N!Significand(c) = 0
                         \/ psign * csign = 0
<1>1. PICK sa \in Nat, sb \in Nat, sc \in Nat :
        sa = N!Significand(a) /\ sb = N!Significand(b) /\ sc = N!Significand(c)
  <2>1. FiniteNarrow(a) /\ FiniteNarrow(b) /\ FiniteNarrow(c)
    BY DEF IsTotal
  <2>2. \A u : FiniteNarrow(u) => N!Significand(u) \in Nat
    BY FiniteIs
  <2>3. QED
    BY <2>1, <2>2
<1>2. PICK n \in Nat : n = sa * sb
  <2>1. sa * sb \in Nat
    OBVIOUS
  <2>2. QED
    BY <2>1
<1>3. PICK p, y : /\ p = (N!Significand(a) * N!Significand(b)) * 2^((N!Exponent(a) + N!Exponent(b)) - Unit)
                  /\ y = NT!Val(N!Magnitude(c), Unit)
  OBVIOUS
<1>4. /\ (N!Exponent(a) + N!Exponent(b)) - Unit \in 0 .. MaxBits /\ p \in Nat /\ y \in Nat
      /\ InUnits(t) = IF psign = csign THEN p + y ELSE IF p >= y THEN p - y ELSE y - p
      /\ (t.num = 0 <=> InUnits(t) = 0) /\ psign \in 0 .. 1
  BY <1>3, TotalIs
<1>5. csign \in 0 .. 1 /\ FiniteNarrow(c)
  BY DEF IsTotal
<1>6. N!Exponent(c) - Unit \in 0 .. MaxBits /\ y = sc * 2^(N!Exponent(c) - Unit)
  BY <1>1, <1>3, <1>5, FiniteIs
<1>7. PICK f \in Nat \ {0}, g \in Nat \ {0} :
        f = 2^((N!Exponent(a) + N!Exponent(b)) - Unit) /\ g = 2^(N!Exponent(c) - Unit)
  BY <1>4, <1>6, FormatsAre, NT!PowersGrow
<1>8. p = n * f /\ y = sc * g
  BY <1>1, <1>2, <1>3, <1>6, <1>7
<1>9. n = 0 /\ sc = 0 => t.num = 0
  <2>1. SUFFICES ASSUME n = 0, sc = 0 PROVE t.num = 0
    OBVIOUS
  <2>2. p = 0 /\ y = 0
    BY <1>8, <2>1
  <2>3. QED
    BY <1>4, <2>2
<1>10. t.num = 0 => (n = 0 /\ sc = 0) \/ psign * csign = 0
  <2>1. SUFFICES ASSUME t.num = 0, psign * csign # 0 PROVE n = 0 /\ sc = 0
    OBVIOUS
  <2>2. psign = 1 /\ csign = 1
    BY <1>4, <1>5, <2>1
  <2>3. p = 0 /\ y = 0
    BY <1>4, <2>1, <2>2
  <2>4. n = 0
    <3>1. n >= 1 => n * f >= 1
      OBVIOUS
    <3>2. QED
      BY <1>8, <2>3, <3>1
  <2>5. sc = 0
    <3>1. sc >= 1 => sc * g >= 1
      OBVIOUS
    <3>2. QED
      BY <1>8, <2>3, <3>1
  <2>6. QED
    BY <2>4, <2>5
<1>11. QED
  BY <1>1, <1>2, <1>9, <1>10

(* The integer model.                                                        *)
LEMMA ExactOnce ==
  ASSUME NEW a, NEW b, NEW c, NEW sub \in {0, 1}, NEW psign, NEW csign, NEW t,
         IsTotal(a, b, c, psign, csign, t), csign = (N!Sign(c) + sub) % 2
  PROVE  Once(psign, csign, t, bf16_fma_exact(a, b, c, sub)) /\ t = ExactSum(a, b, c, sub)
<1>1. FiniteNarrow(a) /\ FiniteNarrow(b) /\ FiniteNarrow(c)
  BY DEF IsTotal
<1>2. /\ ~ N!IsNaN(a) /\ ~ N!IsNaN(b) /\ ~ N!IsNaN(c)
      /\ ~ N!IsInf(a) /\ ~ N!IsInf(b) /\ ~ N!IsInf(c)
  BY <1>1 DEF FiniteNarrow, N!IsNaN, N!IsInf
<1>3. t = ExactSum(a, b, c, sub) /\ psign = (N!Sign(a) + N!Sign(b)) % 2
  BY DEF IsTotal, ExactSum
<1>4. PICK num \in 0 .. 2^MaxBits - 1, ex \in Int, s \in 0 .. 1 :
        /\ num = t.num /\ ex = t.exp /\ s = t.sign /\ ex >= 2 * N!MinExp /\ ex - Unit \in 0 .. MaxBits
  BY TotalIs
<1>5. PICK n \in 0 .. N!PosInf : n = NT!RoundMagnitude(num, ex) /\ NT!Nearest(InUnits(t), Unit, n)
  <2>1. NT!Format /\ NT!Base(Unit)
    BY FormatsAre, UnitFits
  <2>2. NT!RoundMagnitude(num, ex) \in 0 .. NT!PosInf
    BY <1>4, <2>1, NT!RoundedNearest
  <2>3. NT!Nearest(NT!At(num, ex, Unit), Unit, NT!RoundMagnitude(num, ex))
    BY <1>4, <2>1, NT!RoundedNearest
  <2>4. NT!At(num, ex, Unit) = InUnits(t)
    BY <1>4 DEF NT!At, InUnits
  <2>5. QED
    BY <2>2, <2>3, <2>4, NarrowNames
<1>6. num = 0 => n = 0
  BY <1>5 DEF NT!RoundMagnitude
<1>7. bf16_fma_exact(a, b, c, sub) =
        IF N!Significand(a) * N!Significand(b) = 0 /\ N!Significand(c) = 0
        THEN N!WithSign(psign * csign, 0)
        ELSE IF num = 0 THEN N!WithSign(0, 0)
        ELSE round_exact_to_bf16(s, num, ex)
  BY <1>2, <1>3, <1>4, Zenon DEF bf16_fma_exact
<1>8. round_exact_to_bf16(s, num, ex) = N!WithSign(s, n)
  BY <1>4, <1>5, ExactIsRounded
<1>9. bf16_fma_exact(a, b, c, sub) = N!WithSign(IF t.num = 0 THEN psign * csign ELSE t.sign, n)
  <2>1. /\ N!Significand(a) * N!Significand(b) = 0 /\ N!Significand(c) = 0 => t.num = 0
        /\ t.num = 0 => \/ N!Significand(a) * N!Significand(b) = 0 /\ N!Significand(c) = 0
                        \/ psign * csign = 0
    BY ZeroSum
  <2>2. CASE num = 0
    BY <1>4, <1>6, <1>7, <2>1, <2>2
  <2>3. CASE num # 0
    BY <1>4, <1>7, <1>8, <2>1, <2>3
  <2>4. QED
    BY <2>2, <2>3
<1>10. QED
  BY <1>3, <1>5, <1>9 DEF Once

-----------------------------------------------------------------------------
(* The FP64 shortcut.                                                        *)

LEMMA ShiftBelow ==
  ASSUME NEW i \in Nat, NEW d \in Nat, NEW top \in 0 .. MaxBits, i + d <= top, NEW x \in 0 .. 2^i - 1
  PROVE  x * 2^d \in Nat /\ x * 2^d < 2^top /\ 2^d \in Nat \ {0}
<1>1. MaxBits \in Nat /\ i + d \in 0 .. MaxBits /\ i + d <= MaxBits
  BY FormatsAre
<1>2. 2^(i + d) = 2^i * 2^d /\ 2^i \in Nat \ {0} /\ 2^d \in Nat \ {0}
  BY <1>1, UnitPowers
<1>3. PICK y \in Nat \ {0}, z \in Nat \ {0}, w \in Nat : y = 2^i /\ z = 2^d /\ w = 2^(i + d) /\ w = y * z
  <2>1. 2^i * 2^d \in Nat
    BY <1>2
  <2>2. QED
    BY <1>2, <2>1
<1>4. w <= 2^top /\ 2^top \in Nat
  BY <1>1, <1>3, FormatsAre, NT!PowersGrow
<1>5. x \in 0 .. y - 1
  BY <1>3
<1>6. x * z < y * z /\ x * z \in Nat
  <2>1. x \in Int /\ y \in Int /\ x < y
    BY <1>5
  <2>2. x * z < y * z
    BY <2>1, NT!Cancel
  <2>3. x \in Nat
    BY <1>5
  <2>4. QED
    BY <2>2, <2>3
<1>7. QED
  BY <1>3, <1>4, <1>6

(* Normal numbers, and a product no further from the addend than trusted.    *)
Trusted(a, b, c) ==
  /\ N!Significand(a) >= Mantissas /\ N!Significand(b) >= Mantissas /\ N!Significand(c) >= Mantissas
  /\ (N!Exponent(a) + N!Exponent(b)) - N!Exponent(c) + ManBits <= Binades
  /\ -Binades <= (N!Exponent(a) + N!Exponent(b)) - N!Exponent(c) + ManBits

LEMMA TrustedIs ==
  ASSUME NEW a, NEW b, NEW c, FiniteNarrow(a), FiniteNarrow(b), FiniteNarrow(c), ~ risky(a, b, c)
  PROVE  Trusted(a, b, c)
<1>1. ASSUME NEW u, FiniteNarrow(u), N!IsNormal(u)
      PROVE  /\ N!Significand(u) >= Mantissas /\ exp_of(u) = N!Exponent(u) + ManBits
             /\ N!Exponent(u) \in Int
  <2>1. N!Field(u) # 0 /\ N!Field(u) \in 0 .. Fields - 1 /\ N!Mantissa(u) \in 0 .. Mantissas - 1
    BY <1>1, NarrowPattern DEF N!IsNormal, FiniteNarrow
  <2>2. Mantissas \in Nat /\ Fields \in Nat /\ N!Bias \in Nat /\ ManBits \in Nat
    BY Sizes, UnitFits, FormatsAre
  <2>3. N!Significand(u) = Mantissas + N!Mantissa(u)
    BY <2>1 DEF N!Significand, Mantissas
  <2>4. PICK f \in Int : f = N!Field(u) /\ f # 0
    BY <2>1, <2>2
  <2>5. exp_of(u) = f - N!Bias /\ N!Exponent(u) = f - N!Bias - ManBits
    BY <2>4 DEF exp_of, N!Exponent
  <2>6. QED
    BY <2>1, <2>2, <2>3, <2>4, <2>5
<1>2. N!IsNormal(a) /\ N!IsNormal(b) /\ N!IsNormal(c)
  BY DEF risky
<1>3. PICK x \in Int, y \in Int, z \in Int :
        /\ x = N!Exponent(a) /\ y = N!Exponent(b) /\ z = N!Exponent(c)
        /\ exp_of(a) = x + ManBits /\ exp_of(b) = y + ManBits /\ exp_of(c) = z + ManBits
  BY <1>1, <1>2
<1>4. ManBits \in Nat /\ Binades \in Nat
  BY FormatsAre, ShortcutAssumption
<1>5. PICK d : d = exp_of(a) + exp_of(b) - exp_of(c) /\ ~ (d > Binades) /\ ~ (d < -Binades)
  BY DEF risky
<1>6. d = (x + y) - z + ManBits /\ d \in Int
  BY <1>3, <1>4, <1>5
<1>7. (x + y) - z + ManBits <= Binades /\ -Binades <= (x + y) - z + ManBits
  BY <1>4, <1>5, <1>6
<1>8. QED
  BY <1>1, <1>2, <1>3, <1>7 DEF Trusted

(* The exact sum has no more bits than an FP64 significand.                  *)
LEMMA TrustedBits ==
  ASSUME NEW a, NEW b, NEW c, NEW psign, NEW csign, NEW t, IsTotal(a, b, c, psign, csign, t),
         Trusted(a, b, c)
  PROVE  /\ t.num < 2^(2 * ManBits + 2 + Binades) /\ t.exp <= N!Bias - ManBits
         /\ 2 * ManBits + 2 + Binades \in 1 .. MaxBits
<1>1. FiniteNarrow(a) /\ FiniteNarrow(b) /\ FiniteNarrow(c)
  BY DEF IsTotal
<1>2. /\ MaxBits \in Nat /\ ManBits \in Nat /\ ManBits >= 2 /\ Binades \in Nat /\ Binades >= 1
      /\ 2 * ManBits + 2 + Binades <= MaxBits
      /\ N!MinExp \in Int /\ N!Bias \in Nat /\ N!MinExp = 1 - N!Bias - ManBits /\ Unit \in Int
  <2>1. Binades + 2 * (ManBits + 1) <= DoubleMan + 1 /\ DoubleExp + DoubleMan <= MaxBits
        /\ DoubleExp \in Nat \ {0} /\ DoubleMan \in Nat \ {0} /\ Binades \in 1 .. LowBits + ManBits - 1
    BY FmaAssumption, ShortcutAssumption
  <2>2. QED
    BY <2>1, FormatsAre, UnitFits
<1>3. PICK sa \in 0 .. 2 * Mantissas - 1, sb \in 0 .. 2 * Mantissas - 1, sc \in 0 .. 2 * Mantissas - 1,
           ea \in Int, eb \in Int, ec \in Int :
        /\ sa = N!Significand(a) /\ sb = N!Significand(b) /\ sc = N!Significand(c)
        /\ ea = N!Exponent(a) /\ eb = N!Exponent(b) /\ ec = N!Exponent(c)
        /\ ec <= N!MinExp + 2 * N!Bias - 1 /\ ec - Unit \in 0 .. MaxBits
        /\ NT!Val(N!Magnitude(c), Unit) = sc * 2^(ec - Unit)
  <2>1. \A u : FiniteNarrow(u) =>
               /\ N!Significand(u) \in 0 .. 2 * Mantissas - 1 /\ N!Exponent(u) \in Int
               /\ N!Exponent(u) <= N!MinExp + 2 * N!Bias - 1
               /\ NT!Val(N!Magnitude(u), Unit) = N!Significand(u) * 2^(N!Exponent(u) - Unit)
               /\ N!Exponent(u) - Unit \in 0 .. MaxBits
    BY FiniteIs
  <2>2. QED
    BY <1>1, <2>1
<1>4. PICK e \in Int : e = ea + eb /\ e - ec + ManBits <= Binades /\ -Binades <= e - ec + ManBits
                       /\ e - Unit \in 0 .. MaxBits
  <2>1. (ea + eb) - ec + ManBits <= Binades /\ -Binades <= (ea + eb) - ec + ManBits
    BY <1>3 DEF Trusted
  <2>2. (ea + eb) - Unit \in 0 .. MaxBits
    BY <1>3, TotalIs
  <2>3. QED
    BY <2>1, <2>2
<1>5. PICK num \in Nat, low \in Int :
        /\ num = t.num /\ low = t.exp /\ low = (IF e < ec THEN e ELSE ec)
        /\ low - Unit \in 0 .. MaxBits /\ InUnits(t) = num * 2^(low - Unit)
  <2>1. t.num \in 0 .. 2^MaxBits - 1 /\ t.exp \in Int /\ t.exp - Unit \in 0 .. MaxBits
    BY TotalIs
  <2>2. 2^MaxBits \in Nat
    <3>1. MaxBits \in 0 .. MaxBits
      BY <1>2
    <3>2. QED
      BY <3>1, FormatsAre, NT!PowersGrow
  <2>3. t.num \in Nat
    BY <2>1, <2>2
  <2>4. t.exp = (IF e < ec THEN e ELSE ec)
    BY <1>3, <1>4, TotalIs
  <2>5. QED
    BY <2>1, <2>3, <2>4 DEF InUnits
<1>6. PICK d1 \in Nat, d2 \in Nat, h \in 0 .. MaxBits :
        /\ d1 = e - low /\ d2 = ec - low /\ h = low - Unit /\ h + d1 = e - Unit /\ h + d2 = ec - Unit
        /\ h + d1 <= MaxBits /\ h + d2 <= MaxBits
  <2>1. PICK h \in 0 .. MaxBits, one \in Int : h = low - Unit /\ one = Unit /\ MaxBits \in Nat
    BY <1>2, <1>5
  <2>2. PICK d1 \in Nat, d2 \in Nat : d1 = e - low /\ d2 = ec - low
    BY <1>3, <1>4, <1>5
  <2>3. h + d1 = e - one /\ h + d2 = ec - one
    BY <2>1, <2>2
  <2>4. h + d1 <= MaxBits /\ h + d2 <= MaxBits
    BY <1>3, <1>4, <2>1, <2>3
  <2>5. QED
    BY <2>1, <2>2, <2>3, <2>4
<1>7. PICK top \in 0 .. MaxBits : /\ top = 2 * ManBits + 1 + Binades /\ 2 * ManBits + 2 + Binades = top + 1
                                  /\ (2 * ManBits + 2) + d1 <= top /\ (ManBits + 1) + d2 <= top
  BY <1>2, <1>4, <1>5, <1>6
<1>8. sa * sb \in 0 .. 2^(2 * ManBits + 2) - 1 /\ sc \in 0 .. 2^(ManBits + 1) - 1
  <2>1. PICK i \in Nat : i = ManBits + 1 /\ i + i = 2 * ManBits + 2 /\ i + i <= MaxBits
    BY <1>2
  <2>2. 2^(i + i) = 2^i * 2^i
    BY <2>1, UnitPowers
  <2>3. 2^i = 2 * Mantissas
    <3>1. 2^(ManBits + 1) = 2^ManBits * 2^1
      <4>1. 1 \in Nat /\ ManBits + 1 <= MaxBits
        BY <1>2
      <4>2. QED
        BY <1>2, <4>1, UnitPowers
    <3>2. 2^1 = 2
      OBVIOUS
    <3>3. 2^ManBits = Mantissas /\ Mantissas \in Nat
      BY LowsExceed DEF Mantissas
    <3>4. QED
      BY <2>1, <3>1, <3>2, <3>3
  <2>4. PICK m \in Nat : m = 2 * Mantissas /\ m >= 8
    BY LowsExceed
  <2>5. sa * sb \in 0 .. m * m - 1
    <3>1. sa \in 0 .. m - 1 /\ sb \in 0 .. m - 1
      BY <2>4
    <3>2. sa * sb <= sa * m /\ sa * m <= (m - 1) * m
      BY <3>1
    <3>3. (m - 1) * m = m * m - m /\ m * m \in Int /\ sa * sb \in Nat /\ sa * m \in Int
      BY <3>1
    <3>4. QED
      BY <2>4, <3>2, <3>3
  <2>6. QED
    BY <2>1, <2>2, <2>3, <2>4, <2>5
<1>9. PICK x \in Nat, y \in Nat : /\ x = (sa * sb) * 2^d1 /\ y = sc * 2^d2
                                  /\ x < 2^top /\ y < 2^top
  <2>1. 2 * ManBits + 2 \in Nat /\ ManBits + 1 \in Nat
    BY <1>2
  <2>2. (sa * sb) * 2^d1 \in Nat /\ (sa * sb) * 2^d1 < 2^top
    BY <1>7, <1>8, <2>1, ShiftBelow
  <2>3. sc * 2^d2 \in Nat /\ sc * 2^d2 < 2^top
    BY <1>7, <1>8, <2>1, ShiftBelow
  <2>4. QED
    BY <2>2, <2>3
\* In units of the lowest place, the sum is no more than that of the two.
<1>10. num <= x + y
  <2>1. PICK u \in Nat \ {0}, w1 \in Nat, w2 \in Nat :
          /\ u = 2^h /\ w1 = 2^d1 /\ w2 = 2^d2
          /\ 2^(e - Unit) = u * w1 /\ 2^(ec - Unit) = u * w2
    <3>1. 2^(h + d1) = 2^h * 2^d1 /\ 2^h \in Nat \ {0} /\ 2^d1 \in Nat
      BY <1>6, UnitPowers
    <3>2. 2^(h + d2) = 2^h * 2^d2 /\ 2^d2 \in Nat
      BY <1>6, UnitPowers
    <3>3. QED
      BY <1>6, <3>1, <3>2
  <2>2. PICK n \in Nat : n = sa * sb
    <3>1. sa \in Nat /\ sb \in Nat
      BY LowsExceed
    <3>2. sa * sb \in Nat
      BY <3>1
    <3>3. QED
      BY <3>2
  <2>3. sc \in Nat
    BY LowsExceed
  <2>4. n * (u * w1) = x * u /\ sc * (u * w2) = y * u
    BY <1>9, <2>1, <2>2, <2>3
  <2>5. PICK p \in Nat, z \in Nat : /\ p = n * (u * w1) /\ z = sc * (u * w2)
                                    /\ Combined(InUnits(t), p, z)
    <3>1. n * 2^(e - Unit) = n * (u * w1)
      BY <2>1
    <3>2. PICK p, z : p = n * 2^(e - Unit) /\ z = NT!Val(N!Magnitude(c), Unit)
      OBVIOUS
    <3>3. p \in Nat /\ z \in Nat /\ Combined(InUnits(t), p, z)
      BY <1>3, <1>4, <2>2, <3>2, TotalIs
    <3>4. QED
      BY <1>3, <2>1, <3>2, <3>3
  <2>6. PICK v \in Nat : v = InUnits(t) /\ v = num * u
    <3>1. num * u \in Nat
      BY <2>1
    <3>2. QED
      BY <1>5, <1>6, <2>1, <3>1
  <2>7. v <= p + z
    BY <2>5, <2>6 DEF Combined
  <2>8. num * u <= (x + y) * u
    <3>1. (x + y) * u = x * u + y * u
      BY <2>1
    <3>2. QED
      BY <2>4, <2>5, <2>6, <2>7, <3>1
  <2>9. num \in Int /\ x + y \in Int
    OBVIOUS
  <2>10. QED
    BY <2>1, <2>8, <2>9, NT!Cancel
<1>11. 2^(top + 1) = 2 * 2^top /\ 2^top \in Nat
  <2>1. top + 1 \in Nat /\ top + 1 >= 1 /\ top + 1 <= MaxBits /\ (top + 1) - 1 = top
    BY <1>2, <1>7
  <2>2. 2^(top + 1) = 2 * 2^((top + 1) - 1) /\ 2^((top + 1) - 1) \in Nat
    BY <2>1, FormatsAre, NT!PowerHalved
  <2>3. QED
    BY <2>1, <2>2
<1>12. num < 2^(top + 1)
  <2>1. PICK z \in Nat : z = 2^top
    BY <1>11
  <2>2. x < z /\ y < z
    BY <1>9, <2>1
  <2>3. num < 2 * z
    BY <1>10, <2>2
  <2>4. QED
    BY <1>11, <2>1, <2>3
<1>13. low <= N!Bias - ManBits
  BY <1>2, <1>3, <1>5
<1>14. QED
  BY <1>2, <1>5, <1>7, <1>12, <1>13

(* FP64 holds the sum exactly: narrowing it is narrowing the sum.            *)
LEMMA DoubleExact ==
  ASSUME NEW a, NEW b, NEW c, NEW psign, NEW csign, NEW t, IsTotal(a, b, c, psign, csign, t),
         Trusted(a, b, c), NEW d, d = D!RoundMagnitude(t.num, t.exp)
  PROVE  W!RoundMagnitude(D!Significand(d), D!Exponent(d)) = W!RoundMagnitude(t.num, t.exp)
<1>1. PICK num \in 0 .. 2^MaxBits - 1, ex \in Int :
        /\ num = t.num /\ ex = t.exp /\ ex >= 2 * N!MinExp /\ ex <= N!Bias - ManBits
        /\ num < 2^(2 * ManBits + 2 + Binades)
  <2>1. t.num \in 0 .. 2^MaxBits - 1 /\ t.exp \in Int /\ t.exp >= 2 * N!MinExp
    BY TotalIs
  <2>2. t.num < 2^(2 * ManBits + 2 + Binades) /\ t.exp <= N!Bias - ManBits
    BY TrustedBits
  <2>3. QED
    BY <2>1, <2>2
<1>2. PICK top \in 1 .. MaxBits : top = 2 * ManBits + 2 + Binades
  BY TrustedBits
<1>3. DT!Format /\ WT!Format /\ MaxBits \in Nat /\ ManBits \in Nat
  BY FormatsAre
<1>4. /\ DT!RoundMagnitude(num, ex) = d /\ DT!Significand(d) = D!Significand(d)
      /\ DT!Exponent(d) = D!Exponent(d) /\ DT!MinExp = D!MinExp /\ DT!Bias = D!Bias
      /\ DT!BitLength(num) = N!BitLength(num)
  BY <1>1, DoubleNames
<1>5. CASE num = 0
  <2>1. d = 0
    BY <1>4, <1>5 DEF DT!RoundMagnitude
  <2>2. D!Significand(d) = 0
    <3>1. DT!Mantissas \in Nat /\ DT!Mantissas >= 2 /\ DT!Fields \in Nat /\ DT!Fields >= 4 /\ DT!SignMask \in Nat \ {0}
      BY <1>3, DT!Sizes
    <3>2. /\ 0 \in 0 .. DT!Fields - 1 /\ 0 \in 0 .. DT!Mantissas - 1 /\ 0 \in 0 .. 1
          /\ 0 = (DT!Mantissas * 0) + 0
      BY <3>1
    <3>3. DT!WithSign(0, 0) = 0
      BY <3>1 DEF DT!WithSign
    <3>4. DT!Significand(0) = 0
      BY <1>3, <3>2, <3>3, DT!MagnitudeParts
    <3>5. QED
      BY <1>4, <2>1, <3>4
  <2>3. W!RoundMagnitude(0, D!Exponent(d)) = 0 /\ W!RoundMagnitude(0, ex) = 0
    BY Zenon DEF W!RoundMagnitude
  <2>4. QED
    BY <1>1, <1>5, <2>2, <2>3
<1>6. CASE num # 0
  <2>1. num \in 1 .. 2^MaxBits - 1
    <3>1. MaxBits \in 0 .. MaxBits
      BY <1>3
    <3>2. 2^MaxBits \in Nat
      BY <3>1, FormatsAre, NT!PowersGrow
    <3>3. QED
      BY <1>6, <3>2
  <2>2. PICK bits \in 1 .. MaxBits : /\ bits = N!BitLength(num) /\ bits = DT!BitLength(num)
                                     /\ 2^(bits - 1) <= num /\ num \in Nat
    BY <1>4, <2>1, LeadingPlace
  <2>3. bits <= top
    <3>1. SUFFICES ASSUME top <= bits - 1 PROVE FALSE
      BY <1>2, <1>3, <2>2
    <3>2. bits - 1 \in 0 .. MaxBits /\ top \in 0 .. MaxBits
      BY <1>2, <1>3, <2>2
    <3>3. 2^top <= 2^(bits - 1) /\ 2^top \in Nat /\ 2^(bits - 1) \in Nat
      BY <3>1, <3>2, FormatsAre, NT!PowersGrow
    <3>4. num < 2^top
      BY <1>1, <1>2
    <3>5. QED
      BY <2>2, <3>3, <3>4
  <2>4. /\ DoubleMan \in Nat /\ DT!Bias \in Nat /\ DT!MinExp = 1 - DT!Bias - DoubleMan /\ DT!MinExp \in Int
        /\ DT!Fields = 2 * (DT!Bias + 1) /\ DT!Mantissas \in Nat /\ DT!Mantissas = 2^DoubleMan
    <3>1. /\ DoubleMan \in Nat /\ DT!Bias \in Nat /\ DT!MinExp = 1 - DT!Bias - DoubleMan /\ DT!MinExp \in Int
          /\ DT!Fields = 2 * (DT!Bias + 1) /\ DT!Mantissas \in Nat
      BY <1>3, DT!Sizes
    <3>2. QED
      BY <3>1 DEF DT!Mantissas
  <2>5. /\ Binades \in Nat /\ top <= DoubleMan + 1 /\ N!Bias + Binades + ManBits + 1 <= DT!Bias
        /\ DT!MinExp <= 2 * N!MinExp /\ W!MinExp - DT!MinExp <= MaxBits /\ DoubleMan + 1 <= MaxBits
    <3>1. /\ Binades \in 1 .. LowBits + ManBits - 1 /\ Binades + 2 * (ManBits + 1) <= DoubleMan + 1
          /\ N!Bias + Binades + ManBits + 1 <= D!Bias
      BY ShortcutAssumption
    <3>2. /\ D!MinExp <= 2 * N!MinExp /\ W!MinExp - D!MinExp <= MaxBits /\ DoubleExp + DoubleMan <= MaxBits
          /\ DoubleExp \in Nat \ {0}
      BY FmaAssumption
    <3>3. Binades \in Nat
      BY <3>1
    <3>4. top <= DoubleMan + 1
      BY <1>2, <1>3, <2>4, <3>1, <3>3
    <3>5. DoubleMan + 1 <= MaxBits
      BY <1>3, <2>4, <3>2
    <3>6. QED
      BY <1>4, <3>1, <3>2, <3>3, <3>4, <3>5
  <2>6. N!MinExp \in Int /\ N!Bias \in Nat
    BY UnitFits
  <2>7. bits <= DoubleMan + 1 /\ ex >= DT!MinExp /\ ex + bits - 1 - DoubleMan <= DT!MinExp + DT!Fields - 3
    <3>1. bits <= DoubleMan + 1
      BY <1>2, <1>3, <2>2, <2>3, <2>4, <2>5
    <3>2. ex >= DT!MinExp
      BY <1>1, <2>4, <2>5, <2>6
    <3>3. ex + bits - 1 <= DT!Bias
      BY <1>1, <1>2, <1>3, <2>2, <2>3, <2>4, <2>5, <2>6
    <3>4. QED
      BY <1>1, <1>3, <2>2, <2>4, <3>1, <3>2, <3>3
  <2>8. PICK s \in 0 .. MaxBits : /\ DT!Significand(d) = num * 2^s /\ DT!Exponent(d) = ex - s
                                  /\ ex - s >= DT!MinExp /\ num * 2^s \in 0 .. 2 * DT!Mantissas - 1
    BY <1>3, <1>4, <2>1, <2>2, <2>7, DT!RoundedExactly
  <2>9. 2 * DT!Mantissas <= 2^MaxBits /\ 2^MaxBits \in Nat
    <3>1. DoubleMan + 1 \in 0 .. MaxBits /\ MaxBits \in 0 .. MaxBits /\ DoubleMan \in 0 .. MaxBits
          /\ DoubleMan < MaxBits
      BY <1>3, <2>4, <2>5
    <3>2. 2 * 2^DoubleMan <= 2^MaxBits /\ 2^MaxBits \in Nat
      BY <3>1, FormatsAre, NT!PowersGrow
    <3>3. QED
      BY <2>4, <3>2
  <2>10. num * 2^s \in 0 .. 2^MaxBits - 1
    BY <2>4, <2>8, <2>9
  <2>11. ex - s >= WT!MinExp - MaxBits
    <3>1. WT!MinExp = W!MinExp /\ W!MinExp \in Int
      <4>1. W!MinExp = N!MinExp - LowBits /\ LowBits \in Nat
        BY UnitFits, FormatsAre
      <4>2. QED
        BY <2>6, <4>1, WideNames
    <3>2. PICK x \in Int, y \in Int, z \in Int : x = ex - s /\ y = DT!MinExp /\ z = WT!MinExp /\ x >= y /\ z - y <= MaxBits
      BY <1>3, <2>4, <2>5, <2>8, <3>1
    <3>3. x >= z - MaxBits
      BY <1>3, <3>2
    <3>4. QED
      BY <3>2, <3>3
  <2>12. WT!RoundMagnitude(num * 2^s, ex - s) = WT!RoundMagnitude(num, ex)
    BY <1>3, <2>10, <2>11, WT!RoundedScaled
  <2>13. /\ WT!RoundMagnitude(num * 2^s, ex - s) = W!RoundMagnitude(num * 2^s, ex - s)
         /\ WT!RoundMagnitude(num, ex) = W!RoundMagnitude(num, ex)
    BY WideRoundNames
  <2>14. QED
    BY <1>1, <1>4, <2>8, <2>12, <2>13
<1>7. QED
  BY <1>5, <1>6

LEMMA DoubleOnce ==
  ASSUME NEW a, NEW b, NEW c, NEW sub \in {0, 1}, NEW psign, NEW csign, NEW t,
         IsTotal(a, b, c, psign, csign, t), csign = (N!Sign(c) + sub) % 2, Trusted(a, b, c)
  PROVE  Once(psign, csign, t, double_path(a, b, c, sub))
<1>1. t = ExactSum(a, b, c, sub) /\ FiniteNarrow(a) /\ FiniteNarrow(b) /\ FiniteNarrow(c)
  BY DEF IsTotal, ExactSum
<1>2. PICK d : d = D!RoundMagnitude(t.num, t.exp)
  OBVIOUS
<1>3. double_path(a, b, c, sub) = f32_to_bf16(W!WithSign(t.sign, W!RoundMagnitude(t.num, t.exp)))
  <2>1. double_path(a, b, c, sub) = to_bf16(t.sign, D!Significand(d), D!Exponent(d))
    BY <1>1, <1>2, Zenon DEF double_path
  <2>2. W!RoundMagnitude(D!Significand(d), D!Exponent(d)) = W!RoundMagnitude(t.num, t.exp)
    BY <1>2, DoubleExact
  <2>3. QED
    BY <2>1, <2>2 DEF to_bf16
<1>4. PICK sa, sb, ep, i, v :
        /\ sa = N!Significand(a) /\ sb = N!Significand(b) /\ ep = N!Exponent(a) + N!Exponent(b)
        /\ i = N!Magnitude(c) /\ v = InUnits(t)
  OBVIOUS
<1>5. Fused(sa, sb, ep, i, v)
  <2>1. sa \in 0 .. 2 * Mantissas - 1 /\ sb \in 0 .. 2 * Mantissas - 1 /\ ep \in Int
    <3>1. \A u : FiniteNarrow(u) => N!Significand(u) \in 0 .. 2 * Mantissas - 1 /\ N!Exponent(u) \in Int
      BY FiniteIs
    <3>2. QED
      BY <1>1, <1>4, <3>1
  <2>2. /\ i \in 0 .. N!PosInf /\ N!Significand(i) = N!Significand(c) /\ N!Exponent(i) = N!Exponent(c)
    BY <1>1, <1>4, FiniteIs
  <2>3. N!Significand(i) >= Mantissas /\ ep - N!Exponent(i) + ManBits <= Binades
    BY <1>4, <2>2 DEF Trusted
  <2>4. ep - Unit \in 0 .. MaxBits /\ Combined(v, (sa * sb) * 2^(ep - Unit), NT!Val(i, Unit))
    <3>1. PICK p, y : /\ p = (N!Significand(a) * N!Significand(b)) * 2^((N!Exponent(a) + N!Exponent(b)) - Unit)
                      /\ y = NT!Val(N!Magnitude(c), Unit)
      OBVIOUS
    <3>2. (N!Exponent(a) + N!Exponent(b)) - Unit \in 0 .. MaxBits /\ Combined(InUnits(t), p, y)
      BY <3>1, TotalIs
    <3>3. QED
      BY <1>4, <3>1, <3>2
  <2>5. QED
    BY <2>1, <2>2, <2>3, <2>4 DEF Fused
<1>6. \A m \in 0 .. N!PosInf - 1 : Clear(v, m)
  BY <1>5, FusedClear
<1>7. PICK num \in 0 .. 2^MaxBits - 1, ex \in Int, s \in 0 .. 1 :
        num = t.num /\ ex = t.exp /\ s = t.sign /\ ex - Unit \in 0 .. MaxBits /\ (num = 0 => s = 0)
  BY TotalIs
<1>8. v = num * 2^(ex - Unit)
  BY <1>4, <1>7 DEF InUnits
<1>9. PICK n \in 0 .. N!PosInf :
        /\ NT!Nearest(v, Unit, n)
        /\ f32_to_bf16(W!WithSign(s, W!RoundMagnitude(num, ex))) = N!WithSign(s, n)
  BY <1>6, <1>7, <1>8, TwiceSigned
<1>10. t.num = 0 => psign * csign = 0
  <2>1. t.num = 0 => \/ N!Significand(a) * N!Significand(b) = 0 /\ N!Significand(c) = 0
                     \/ psign * csign = 0
    BY ZeroSum
  <2>2. N!Significand(c) >= Mantissas /\ Mantissas \in Nat /\ Mantissas >= 4
    BY LowsExceed DEF Trusted
  <2>3. N!Significand(c) # 0
    BY <2>2
  <2>4. QED
    BY <2>1, <2>3
<1>11. (IF t.num = 0 THEN psign * csign ELSE t.sign) = s
  BY <1>7, <1>10
<1>12. double_path(a, b, c, sub) = N!WithSign(s, n)
  BY <1>3, <1>7, <1>9
<1>13. QED
  BY <1>4, <1>9, <1>11, <1>12 DEF Once

-----------------------------------------------------------------------------
(* Products and sums by the detour over the wide format.                     *)

LEMMA WidenedFinite ==
  ASSUME NEW u, FiniteNarrow(u), NEW w, w = bf16_to_f32(u)
  PROVE  /\ w \in W!Patterns /\ W!Sign(w) = N!Sign(u) /\ ~ W!IsNaN(w) /\ ~ W!IsInf(w)
         /\ W!Significand(w) = Lows * N!Significand(u) /\ W!Exponent(w) = N!Exponent(u) - LowBits
<1>1. u \in N!Patterns /\ N!Field(u) # N!ExpOnes
  BY DEF FiniteNarrow
<1>2. 0 \in 0 .. Lows - 1 /\ Lows \in Nat
  BY LowsExceed
<1>3. w = bf16_to_f32(u) + 0
  <2>1. u \in Int
    BY <1>1, Sizes DEF N!Patterns
  <2>2. u * 2^LowBits \in Int /\ Lows = 2^LowBits
    BY <1>2, <2>1 DEF Lows
  <2>3. QED
    BY <2>2 DEF bf16_to_f32
<1>4. /\ w \in W!Patterns /\ W!Sign(w) = N!Sign(u) /\ W!Field(w) = N!Field(u)
      /\ W!Significand(w) = (Lows * N!Significand(u)) + 0 /\ W!Exponent(w) = N!Exponent(u) - LowBits
  BY <1>1, <1>2, <1>3, Widened
<1>5. W!ExpOnes = N!ExpOnes
  BY DEF W!ExpOnes, N!ExpOnes
<1>6. N!Significand(u) \in Nat
  BY FiniteIs
<1>7. (Lows * N!Significand(u)) + 0 = Lows * N!Significand(u)
  <2>1. PICK x \in Nat : x = Lows * N!Significand(u)
    BY <1>2, <1>6
  <2>2. QED
    BY <2>1
<1>8. ~ W!IsNaN(w) /\ ~ W!IsInf(w)
  BY <1>1, <1>4, <1>5 DEF W!IsNaN, W!IsInf
<1>9. QED
  BY <1>4, <1>7, <1>8

(* The product of two wide significands, brought back.                       *)
LEMMA WideProduct ==
  ASSUME NEW sa \in 0 .. 2 * Mantissas - 1, NEW sb \in 0 .. 2 * Mantissas - 1,
         NEW ea \in Int, NEW eb \in Int, ea >= N!MinExp, eb >= N!MinExp
  PROVE  /\ W!RoundMagnitude((Lows * sa) * (Lows * sb), (ea - LowBits) + (eb - LowBits))
              = W!RoundMagnitude(sa * sb, ea + eb)
         /\ sa * sb \in 0 .. 2^MaxBits - 1
<1>1. PICK j \in Nat, i \in Nat : j = LowBits /\ i = 2 * ManBits + 2 /\ i + (j + j) <= MaxBits
                                  /\ MaxBits \in Nat /\ i >= 6
  <2>1. 2 * (ManBits + LowBits + 1) <= MaxBits
    BY BitsAssumption
  <2>2. QED
    BY <2>1, FormatsAre
<1>2. sa * sb \in 0 .. 2^i - 1 /\ sa \in Nat /\ sb \in Nat
  <2>1. PICK l \in Nat : l = ManBits + 1 /\ l + l = i /\ l + l <= MaxBits
    BY <1>1, FormatsAre
  <2>2. 2^(l + l) = 2^l * 2^l
    BY <2>1, UnitPowers
  <2>3. 2^l = 2 * Mantissas
    <3>1. 2^(ManBits + 1) = 2^ManBits * 2^1
      <4>1. 1 \in Nat /\ ManBits + 1 <= MaxBits /\ ManBits \in Nat
        BY <1>1, <2>1, FormatsAre
      <4>2. QED
        BY <4>1, UnitPowers
    <3>2. 2^1 = 2
      OBVIOUS
    <3>3. 2^ManBits = Mantissas /\ Mantissas \in Nat
      BY LowsExceed DEF Mantissas
    <3>4. QED
      BY <2>1, <3>1, <3>2, <3>3
  <2>4. PICK m \in Nat : m = 2 * Mantissas /\ m >= 8
    BY LowsExceed
  <2>5. sa * sb \in 0 .. m * m - 1
    <3>1. sa \in 0 .. m - 1 /\ sb \in 0 .. m - 1
      BY <2>4
    <3>2. sa * sb <= sa * m /\ sa * m <= (m - 1) * m
      BY <3>1
    <3>3. (m - 1) * m = m * m - m /\ m * m \in Int /\ sa * sb \in Nat /\ sa * m \in Int
      BY <3>1
    <3>4. QED
      BY <2>4, <3>2, <3>3
  <2>6. sa \in Nat /\ sb \in Nat
    BY <2>4
  <2>7. QED
    BY <2>1, <2>2, <2>3, <2>4, <2>5, <2>6
<1>3. PICK n \in 0 .. 2^i - 1 : n = sa * sb /\ n \in Nat
  BY <1>2
<1>4. n \in 0 .. 2^MaxBits - 1 /\ MaxBits \in 0 .. MaxBits
  <2>1. MaxBits \in 0 .. MaxBits /\ i \in 0 .. MaxBits /\ i <= MaxBits
    BY <1>1
  <2>2. 2^i <= 2^MaxBits /\ 2^i \in Nat /\ 2^MaxBits \in Nat
    BY <2>1, FormatsAre, NT!PowersGrow
  <2>3. QED
    BY <1>3, <2>1, <2>2
<1>5. n * 2^(j + j) \in 0 .. 2^MaxBits - 1
  <2>1. j + j \in Nat
    OBVIOUS
  <2>2. n * 2^(j + j) \in Nat /\ n * 2^(j + j) < 2^MaxBits
    BY <1>1, <1>3, <1>4, <2>1, ShiftBelow
  <2>3. 2^MaxBits \in Nat
    BY <1>4, FormatsAre, NT!PowersGrow
  <2>4. QED
    BY <2>2, <2>3
<1>6. (Lows * sa) * (Lows * sb) = n * 2^(j + j)
  <2>1. j + j <= MaxBits
    BY <1>1
  <2>2. 2^(j + j) = 2^j * 2^j
    BY <2>1, UnitPowers
  <2>3. PICK l \in Nat : l = Lows /\ l = 2^j
    BY <1>1, LowsExceed DEF Lows
  <2>4. (l * sa) * (l * sb) = (sa * sb) * (l * l)
    BY <1>2
  <2>5. QED
    BY <1>3, <2>2, <2>3, <2>4
<1>7. PICK e \in Int, s \in 0 .. MaxBits :
        /\ e = ea + eb /\ s = j + j /\ (ea - LowBits) + (eb - LowBits) = e - s
        /\ e - s >= WT!MinExp - MaxBits
  <2>1. /\ N!MinExp \in Int /\ N!MinExp = 1 - N!Bias - ManBits /\ W!MinExp = N!MinExp - LowBits
        /\ N!Bias \in Nat /\ WT!MinExp = W!MinExp /\ Fields = 2 * (N!Bias + 1)
    BY UnitFits, WideNames
  <2>2. 2^ExpBits + ManBits + LowBits <= MaxBits /\ Fields = 2^ExpBits
    BY BitsAssumption DEF Fields
  <2>3. 2 * (N!Bias + 1) + ManBits + LowBits <= MaxBits
    BY <2>1, <2>2
  <2>4. PICK e \in Int, s \in 0 .. MaxBits : e = ea + eb /\ s = j + j /\ e >= 2 * N!MinExp
    BY <1>1, <2>1
  <2>5. (ea - LowBits) + (eb - LowBits) = e - s
    BY <1>1, <2>4
  <2>6. e - s >= WT!MinExp - MaxBits
    BY <1>1, <2>1, <2>3, <2>4, FormatsAre
  <2>7. QED
    BY <2>4, <2>5, <2>6
<1>8. WT!RoundMagnitude(n * 2^s, e - s) = WT!RoundMagnitude(n, e)
  BY <1>4, <1>5, <1>7, FormatsAre, WT!RoundedScaled
<1>9. /\ WT!RoundMagnitude(n * 2^s, e - s) = W!RoundMagnitude(n * 2^s, e - s)
      /\ WT!RoundMagnitude(n, e) = W!RoundMagnitude(n, e)
  BY WideRoundNames
<1>10. QED
  BY <1>3, <1>4, <1>6, <1>7, <1>8, <1>9

(* The zero that a product is added to.                                      *)
LEMMA NegativeZero ==
  /\ N!WithSign(1, 0) \in N!Patterns /\ N!Sign(N!WithSign(1, 0)) = 1 /\ N!Magnitude(N!WithSign(1, 0)) = 0
  /\ FiniteNarrow(N!WithSign(1, 0)) /\ N!Significand(N!WithSign(1, 0)) = 0
  /\ N!Exponent(N!WithSign(1, 0)) \in Int
<1>1. PICK z : z = N!WithSign(1, 0)
  OBVIOUS
<1>2. /\ N!SignMask \in Nat \ {0} /\ Fields \in Nat /\ Fields >= 4 /\ Mantissas \in Nat /\ Mantissas >= 4
      /\ N!ExpOnes = Fields - 1
  BY Sizes, LowsExceed
<1>3. /\ 1 \in 0 .. 1 /\ 0 \in 0 .. Fields - 1 /\ 0 \in 0 .. Mantissas - 1
      /\ z = (N!SignMask * 1) + ((Mantissas * 0) + 0) /\ (Mantissas * 0) + 0 = 0
  BY <1>1, <1>2 DEF N!WithSign
<1>4. /\ z \in N!Patterns /\ N!Sign(z) = 1 /\ N!Magnitude(z) = (Mantissas * 0) + 0
      /\ N!Field(z) = 0 /\ N!Mantissa(z) = 0
  BY <1>3, NarrowParts
<1>5. N!Field(z) # N!ExpOnes
  BY <1>2, <1>4
<1>6. N!Significand(z) = 0
  BY <1>4 DEF N!Significand
<1>7. FiniteNarrow(z)
  BY <1>4, <1>5 DEF FiniteNarrow
<1>8. N!Exponent(z) \in Int
  BY <1>7, FiniteIs
<1>9. QED
  BY <1>1, <1>3, <1>4, <1>6, <1>7, <1>8

LEMMA MulOnce ==
  ASSUME NEW a, NEW b, FiniteNarrow(a), FiniteNarrow(b), NEW psign, NEW t,
         IsTotal(a, b, N!WithSign(1, 0), psign, 1, t)
  PROVE  /\ Once(psign, 1, t, bf16_mul(a, b, FALSE))
         /\ N!Significand(a) * N!Significand(b) \in 0 .. 2^MaxBits - 1
         /\ N!Exponent(a) + N!Exponent(b) \in Int
         /\ (N!Exponent(a) + N!Exponent(b)) - Unit \in 0 .. MaxBits
         /\ InUnits(t) = (N!Significand(a) * N!Significand(b)) * 2^((N!Exponent(a) + N!Exponent(b)) - Unit)
<1>1. PICK sa \in 0 .. 2 * Mantissas - 1, sb \in 0 .. 2 * Mantissas - 1, ea \in Int, eb \in Int :
        /\ sa = N!Significand(a) /\ sb = N!Significand(b) /\ ea = N!Exponent(a) /\ eb = N!Exponent(b)
        /\ ea >= N!MinExp /\ eb >= N!MinExp
  <2>1. \A u : FiniteNarrow(u) => /\ N!Significand(u) \in 0 .. 2 * Mantissas - 1
                                  /\ N!Exponent(u) \in Int /\ N!Exponent(u) >= N!MinExp
    BY FiniteIs
  <2>2. QED
    BY <2>1
<1>2. psign = (N!Sign(a) + N!Sign(b)) % 2
  BY DEF IsTotal
<1>3. PICK num \in 0 .. 2^MaxBits - 1, ex \in Int : num = sa * sb /\ ex = ea + eb
  <2>1. sa * sb \in 0 .. 2^MaxBits - 1
    BY <1>1, WideProduct
  <2>2. QED
    BY <2>1
<1>4. PICK p, y : /\ p = (N!Significand(a) * N!Significand(b)) * 2^((N!Exponent(a) + N!Exponent(b)) - Unit)
                  /\ y = NT!Val(N!Magnitude(N!WithSign(1, 0)), Unit)
  OBVIOUS
<1>5. p = num * 2^(ex - Unit)
  BY <1>1, <1>3, <1>4
<1>6. y = 0
  BY <1>4, NegativeZero, ZeroValue
<1>7. /\ psign \in 0 .. 1 /\ p \in Nat /\ ex - Unit \in 0 .. MaxBits
      /\ InUnits(t) = IF psign = 1 THEN p + y ELSE IF p >= y THEN p - y ELSE y - p
      /\ t.num # 0 => t.sign = IF psign = 1 \/ p >= y THEN psign ELSE 1
  BY <1>1, <1>3, <1>4, TotalIs
<1>8. InUnits(t) = p /\ (t.num # 0 => t.sign = psign)
  BY <1>6, <1>7
<1>9. \A m \in 0 .. N!PosInf - 1 : Clear(p, m)
  <2>1. p = (sa * sb) * 2^(ex - Unit)
    BY <1>3, <1>5
  <2>2. QED
    BY <1>7, <2>1, ProductClear
<1>10. PICK n \in 0 .. N!PosInf :
         /\ NT!Nearest(p, Unit, n)
         /\ f32_to_bf16(W!WithSign(psign, W!RoundMagnitude(num, ex))) = N!WithSign(psign, n)
  BY <1>5, <1>7, <1>9, TwiceSigned
<1>11. bf16_mul(a, b, FALSE) = f32_to_bf16(W!WithSign(psign, W!RoundMagnitude(num, ex)))
  <2>1. PICK wa, wb : wa = bf16_to_f32(a) /\ wb = bf16_to_f32(b)
    OBVIOUS
  <2>2. /\ W!Sign(wa) = N!Sign(a) /\ ~ W!IsNaN(wa) /\ ~ W!IsInf(wa)
        /\ W!Significand(wa) = Lows * sa /\ W!Exponent(wa) = ea - LowBits
    BY <1>1, <2>1, WidenedFinite
  <2>3. /\ W!Sign(wb) = N!Sign(b) /\ ~ W!IsNaN(wb) /\ ~ W!IsInf(wb)
        /\ W!Significand(wb) = Lows * sb /\ W!Exponent(wb) = eb - LowBits
    BY <1>1, <2>1, WidenedFinite
  <2>4. W!IeeeMul(wa, wb)
          = W!WithSign((W!Sign(wa) + W!Sign(wb)) % 2,
                       W!RoundMagnitude(W!Significand(wa) * W!Significand(wb), W!Exponent(wa) + W!Exponent(wb)))
    BY <2>2, <2>3, Zenon DEF W!IeeeMul
  <2>5. W!RoundMagnitude((Lows * sa) * (Lows * sb), (ea - LowBits) + (eb - LowBits)) = W!RoundMagnitude(num, ex)
    BY <1>1, <1>3, WideProduct
  <2>6. W!IeeeMul(wa, wb) = W!WithSign(psign, W!RoundMagnitude(num, ex))
    BY <1>2, <2>2, <2>3, <2>4, <2>5
  <2>7. bf16_mul(a, b, FALSE) = f32_to_bf16(W!IeeeMul(wa, wb))
    BY <2>1, Zenon DEF bf16_mul, f32_to_bf16
  <2>8. QED
    BY <2>6, <2>7
<1>12. (IF t.num = 0 THEN psign * 1 ELSE t.sign) = psign
  BY <1>7, <1>8
<1>13. Once(psign, 1, t, bf16_mul(a, b, FALSE))
  BY <1>8, <1>10, <1>11, <1>12 DEF Once
<1>14. QED
  BY <1>1, <1>3, <1>4, <1>7, <1>8, <1>13

(* The one that a sum is multiplied by.                                      *)
LEMMA OneIs ==
  /\ FiniteNarrow(NT!One) /\ N!Sign(NT!One) = 0 /\ N!Significand(NT!One) = Mantissas
  /\ N!Exponent(NT!One) = -ManBits
<1>1. PICK z : z = NT!One
  OBVIOUS
<1>2. /\ N!SignMask \in Nat \ {0} /\ Fields \in Nat /\ Fields >= 4 /\ Mantissas \in Nat /\ Mantissas >= 4
      /\ N!ExpOnes = Fields - 1 /\ N!Bias \in Nat /\ N!Bias >= 1 /\ Fields = 2 * (N!Bias + 1)
  BY Sizes, LowsExceed, UnitFits
<1>3. /\ 0 \in 0 .. 1 /\ N!Bias \in 0 .. Fields - 1 /\ 0 \in 0 .. Mantissas - 1
      /\ z = (N!SignMask * 0) + ((Mantissas * N!Bias) + 0)
  <2>1. z = N!Bias * Mantissas
    BY <1>1, NarrowNames DEF NT!One, Mantissas
  <2>2. N!Bias * Mantissas = (N!SignMask * 0) + ((Mantissas * N!Bias) + 0)
    BY <1>2
  <2>3. QED
    BY <1>2, <2>1, <2>2
<1>4. z \in N!Patterns /\ N!Sign(z) = 0 /\ N!Field(z) = N!Bias /\ N!Mantissa(z) = 0
  BY <1>3, NarrowParts
<1>5. N!Field(z) # N!ExpOnes /\ N!Field(z) # 0
  BY <1>2, <1>4
<1>6. N!Significand(z) = Mantissas
  <2>1. N!Significand(z) = Mantissas + 0
    BY <1>4, <1>5 DEF N!Significand, Mantissas
  <2>2. QED
    BY <1>2, <2>1
<1>7. N!Exponent(z) = -ManBits
  <2>1. N!Exponent(z) = N!Bias - N!Bias - ManBits
    BY <1>4, <1>5 DEF N!Exponent
  <2>2. ManBits \in Nat
    BY FormatsAre
  <2>3. QED
    BY <1>2, <2>1, <2>2
<1>8. QED
  BY <1>1, <1>4, <1>5, <1>6, <1>7 DEF FiniteNarrow

(* A widened significand in units.                                           *)
LEMMA WideInUnits ==
  ASSUME NEW n \in Nat, NEW e \in Int, e >= N!MinExp, e - Unit \in 0 .. MaxBits
  PROVE  /\ (e - LowBits) - Unit \in 0 .. MaxBits /\ e - LowBits \in Int
         /\ (Lows * n) * 2^((e - LowBits) - Unit) = n * 2^(e - Unit)
<1>1. PICK x \in 0 .. MaxBits, j \in Nat :
        /\ x = (e - LowBits) - Unit /\ j = LowBits /\ j + x = e - Unit /\ j + x <= MaxBits /\ e - LowBits \in Int
        /\ x \in Nat
  <2>1. /\ Unit \in Int /\ Unit = 2 * N!MinExp - 2 /\ N!MinExp \in Int /\ N!MinExp = 1 - N!Bias - ManBits
        /\ N!Bias \in Nat /\ LowBits <= N!Bias + ManBits /\ ManBits \in Nat /\ LowBits \in Nat /\ MaxBits \in Nat
    BY UnitFits, FormatsAre
  <2>2. PICK x \in Int : x = (e - LowBits) - Unit /\ LowBits + x = e - Unit
    BY <2>1
  <2>3. x >= 0 /\ x <= MaxBits
    BY <2>1, <2>2
  <2>4. QED
    BY <2>1, <2>2, <2>3
<1>2. 2^(j + x) = 2^j * 2^x /\ 2^x \in Nat \ {0}
  BY <1>1, UnitPowers
<1>3. PICK l \in Nat, y \in Nat : l = Lows /\ l = 2^j /\ y = 2^x
  BY <1>1, <1>2, LowsExceed DEF Lows
<1>4. (l * n) * y = n * (l * y)
  OBVIOUS
<1>5. QED
  BY <1>1, <1>2, <1>3, <1>4

LEMMA AddOnce ==
  ASSUME NEW a, NEW c, FiniteNarrow(a), FiniteNarrow(c), NEW psign, NEW csign, NEW t,
         IsTotal(NT!One, a, c, psign, csign, t),
         NEW wc \in W!Patterns, W!Sign(wc) = csign, ~ W!IsNaN(wc), ~ W!IsInf(wc),
         W!Significand(wc) = Lows * N!Significand(c), W!Exponent(wc) = N!Exponent(c) - LowBits
  PROVE  Once(psign, csign, t, f32_to_bf16(W!IeeeAdd(bf16_to_f32(a), wc)))
<1>1. PICK wa \in W!Patterns :
        /\ wa = bf16_to_f32(a) /\ W!Sign(wa) = N!Sign(a) /\ ~ W!IsNaN(wa) /\ ~ W!IsInf(wa)
        /\ W!Significand(wa) = Lows * N!Significand(a) /\ W!Exponent(wa) = N!Exponent(a) - LowBits
  BY WidenedFinite
<1>2. PICK sa \in Nat, sc \in Nat, ea \in Int, ec \in Int :
        /\ sa = N!Significand(a) /\ sc = N!Significand(c) /\ ea = N!Exponent(a) /\ ec = N!Exponent(c)
        /\ ea >= N!MinExp /\ ec >= N!MinExp /\ ea - Unit \in 0 .. MaxBits /\ ec - Unit \in 0 .. MaxBits
        /\ NT!Val(N!Magnitude(a), Unit) = sa * 2^(ea - Unit)
        /\ NT!Val(N!Magnitude(c), Unit) = sc * 2^(ec - Unit)
  <2>1. \A u : FiniteNarrow(u) =>
               /\ N!Significand(u) \in Nat /\ N!Exponent(u) \in Int /\ N!Exponent(u) >= N!MinExp
               /\ NT!Val(N!Magnitude(u), Unit) = N!Significand(u) * 2^(N!Exponent(u) - Unit)
               /\ N!Exponent(u) - Unit \in 0 .. MaxBits
    BY FiniteIs
  <2>2. QED
    BY <2>1
<1>3. psign = N!Sign(a) /\ psign \in 0 .. 1 /\ csign \in 0 .. 1
  <2>1. psign = (N!Sign(NT!One) + N!Sign(a)) % 2 /\ csign \in 0 .. 1
    BY DEF IsTotal
  <2>2. PICK s \in 0 .. 1 : s = N!Sign(a)
    BY FiniteIs
  <2>3. (0 + s) % 2 = s
    OBVIOUS
  <2>4. QED
    BY <2>1, <2>2, <2>3, OneIs
\* The sum as the unit takes it.
<1>4. PICK p, y : /\ p = (N!Significand(NT!One) * N!Significand(a)) * 2^((N!Exponent(NT!One) + N!Exponent(a)) - Unit)
                  /\ y = NT!Val(N!Magnitude(c), Unit)
  OBVIOUS
<1>5. /\ (N!Exponent(NT!One) + N!Exponent(a)) - Unit \in 0 .. MaxBits /\ p \in Nat /\ y \in Nat
      /\ InUnits(t) = IF psign = csign THEN p + y ELSE IF p >= y THEN p - y ELSE y - p
      /\ Combined(InUnits(t), p, y) /\ (t.num = 0 <=> InUnits(t) = 0)
      /\ t.num # 0 => t.sign = IF psign = csign \/ p >= y THEN psign ELSE csign
  BY <1>4, TotalIs
<1>6. p = sa * 2^(ea - Unit)
  <2>1. PICK x \in Nat, j \in Nat : /\ x = (-ManBits + ea) - Unit /\ j = ManBits /\ j + x = ea - Unit
                                    /\ j + x <= MaxBits /\ x \in 0 .. MaxBits
    <3>1. (-ManBits + ea) - Unit \in 0 .. MaxBits /\ ManBits \in Nat /\ MaxBits \in Nat /\ Unit \in Int
      BY <1>2, <1>5, OneIs, FormatsAre, UnitFits
    <3>2. PICK one \in Int : one = Unit
      BY <3>1
    <3>3. PICK x \in Int : x = (-ManBits + ea) - one /\ ManBits + x = ea - one /\ x \in 0 .. MaxBits
      BY <3>1, <3>2
    <3>4. ea - one <= MaxBits
      BY <1>2, <3>1, <3>2
    <3>5. QED
      BY <3>1, <3>2, <3>3, <3>4
  <2>2. 2^(j + x) = 2^j * 2^x /\ 2^x \in Nat
    BY <2>1, UnitPowers
  <2>3. PICK m \in Nat, z \in Nat : m = Mantissas /\ m = 2^j /\ z = 2^x
    BY <2>1, <2>2, LowsExceed DEF Mantissas
  <2>4. (m * sa) * z = sa * (m * z)
    OBVIOUS
  <2>5. p = (m * sa) * z
    BY <1>2, <1>4, <2>1, <2>3, OneIs
  <2>6. QED
    BY <2>1, <2>2, <2>3, <2>4, <2>5
\* The same sum, as the wide format takes it.
<1>7. PICK t2 : t2 = W!SumOf(psign, Lows * sa, ea - LowBits, csign, Lows * sc, ec - LowBits)
  OBVIOUS
<1>8. t2.num \in 0 .. 2^MaxBits - 1 /\ t2.exp \in Int /\ t2.sign \in 0 .. 1
  <2>1. W!Field(wa) # W!ExpOnes /\ W!Field(wc) # W!ExpOnes
    BY <1>1 DEF W!IsNaN, W!IsInf
  <2>2. /\ Lows * sa \in 0 .. 2 * WideMantissas - 1 /\ ea - LowBits \in W!MinExp .. W!MinExp + (Fields - 3)
        /\ W!MinExp \in Int
    BY <1>1, <1>2, <2>1, WideValue
  <2>3. Lows * sc \in 0 .. 2 * WideMantissas - 1 /\ ec - LowBits \in W!MinExp .. W!MinExp + (Fields - 3)
    BY <1>2, <2>1, WideValue
  <2>4. QED
    BY <1>3, <1>7, <2>2, <2>3, SumFlips
<1>9. /\ (ea - LowBits) - Unit \in 0 .. MaxBits /\ (ec - LowBits) - Unit \in 0 .. MaxBits
      /\ ea - LowBits \in Int /\ ec - LowBits \in Int
      /\ p = (Lows * sa) * 2^((ea - LowBits) - Unit) /\ y = (Lows * sc) * 2^((ec - LowBits) - Unit)
  BY <1>2, <1>4, <1>6, WideInUnits
<1>10. PICK v : v = InUnits(t2)
  OBVIOUS
<1>11. NT!IsSum(psign, Lows * sa, ea - LowBits, csign, Lows * sc, ec - LowBits, Unit, t2, v, p, y)
  <2>1. t2 = NT!SumOf(psign, Lows * sa, ea - LowBits, csign, Lows * sc, ec - LowBits)
    BY <1>7 DEF NT!SumOf, W!SumOf
  <2>2. Lows * sa \in Nat /\ Lows * sc \in Nat /\ Unit \in Int
    BY LowsExceed, UnitFits
  <2>3. /\ v = NT!At(t2.num, t2.exp, Unit) /\ p = NT!At(Lows * sa, ea - LowBits, Unit)
        /\ y = NT!At(Lows * sc, ec - LowBits, Unit)
    BY <1>9, <1>10 DEF NT!At, InUnits
  <2>4. QED
    BY <1>3, <1>9, <2>1, <2>2, <2>3 DEF NT!IsSum
<1>12. /\ t2.exp - Unit \in 0 .. MaxBits
       /\ v = IF psign = csign THEN p + y ELSE IF p >= y THEN p - y ELSE y - p
       /\ t2.num = 0 <=> v = 0
       /\ v # 0 => t2.sign = IF psign = csign \/ p >= y THEN psign ELSE csign
  BY <1>11, FormatsAre, NT!SumValue
<1>13. v = InUnits(t) /\ (t.num = 0 <=> t2.num = 0) /\ (t.num # 0 => t.sign = t2.sign)
  BY <1>5, <1>12
<1>14. \A m \in 0 .. N!PosInf - 1 : Clear(v, m)
  <2>1. PICK i \in 0 .. N!PosInf, j \in 0 .. N!PosInf : i = N!Magnitude(a) /\ j = N!Magnitude(c)
    BY FiniteIs
  <2>2. Combined(v, NT!Val(i, Unit), NT!Val(j, Unit))
    BY <1>2, <1>4, <1>5, <1>6, <1>13, <2>1
  <2>3. QED
    BY <2>2, SumClear
<1>15. PICK num \in 0 .. 2^MaxBits - 1, ex \in Int, s \in 0 .. 1 :
         num = t2.num /\ ex = t2.exp /\ s = t2.sign /\ ex - Unit \in 0 .. MaxBits
  BY <1>8, <1>12
<1>16. v = num * 2^(ex - Unit)
  BY <1>10, <1>15 DEF InUnits
<1>17. W!IeeeAdd(wa, wc) = IF num = 0 THEN W!WithSign(psign * csign, 0) ELSE W!WithSign(s, W!RoundMagnitude(num, ex))
  <2>1. W!IeeeAdd(wa, wc) =
          IF t2.num = 0 THEN W!WithSign(IF W!Sign(wa) = 1 /\ W!Sign(wc) = 1 THEN 1 ELSE 0, 0)
          ELSE W!WithSign(t2.sign, W!RoundMagnitude(t2.num, t2.exp))
    <3>1. t2 = W!SumOf(W!Sign(wa), W!Significand(wa), W!Exponent(wa), W!Sign(wc), W!Significand(wc), W!Exponent(wc))
      BY <1>1, <1>2, <1>3, <1>7
    <3>2. QED
      BY <1>1, <3>1, Zenon DEF W!IeeeAdd
  <2>2. (IF W!Sign(wa) = 1 /\ W!Sign(wc) = 1 THEN 1 ELSE 0) = psign * csign
    BY <1>1, <1>3
  <2>3. QED
    BY <1>15, <2>1, <2>2
<1>18. CASE num = 0
  <2>1. PICK z \in 0 .. 1 : z = psign * csign
    BY <1>3
  <2>2. PICK n \in 0 .. N!PosInf :
          /\ NT!Nearest(v, Unit, n)
          /\ f32_to_bf16(W!WithSign(z, W!RoundMagnitude(num, ex))) = N!WithSign(z, n)
    BY <1>14, <1>15, <1>16, TwiceSigned
  <2>3. W!RoundMagnitude(num, ex) = 0
    BY <1>18, Zenon DEF W!RoundMagnitude
  <2>4. f32_to_bf16(W!IeeeAdd(wa, wc)) = N!WithSign(z, n)
    BY <1>17, <1>18, <2>1, <2>2, <2>3
  <2>5. (IF t.num = 0 THEN psign * csign ELSE t.sign) = z
    BY <1>13, <1>15, <1>18, <2>1
  <2>6. QED
    BY <1>1, <1>13, <2>2, <2>4, <2>5 DEF Once
<1>19. CASE num # 0
  <2>1. PICK n \in 0 .. N!PosInf :
          /\ NT!Nearest(v, Unit, n)
          /\ f32_to_bf16(W!WithSign(s, W!RoundMagnitude(num, ex))) = N!WithSign(s, n)
    BY <1>14, <1>15, <1>16, TwiceSigned
  <2>2. f32_to_bf16(W!IeeeAdd(wa, wc)) = N!WithSign(s, n)
    BY <1>17, <1>19, <2>1
  <2>3. (IF t.num = 0 THEN psign * csign ELSE t.sign) = s
    BY <1>13, <1>15, <1>19
  <2>4. QED
    BY <1>1, <1>13, <2>1, <2>2, <2>3 DEF Once
<1>20. QED
  BY <1>18, <1>19

-----------------------------------------------------------------------------
(* Special values.                                                           *)

LEMMA SpecialNames ==
  ASSUME NEW u
  PROVE  /\ NT!IsNaN(u) = N!IsNaN(u) /\ NT!IsInf(u) = N!IsInf(u) /\ NT!IsZero(u) = N!IsZero(u)
         /\ \A s, n : NT!WithSign(s, n) = N!WithSign(s, n)
         /\ \A x, y, z : NT!EffectiveSubtraction(x, y, z) <=> (N!Sign(x) + N!Sign(y) + N!Sign(z)) % 2 = 1
<1>1. NT!SignMask = N!SignMask /\ NT!ExpOnes = N!ExpOnes
  BY NarrowNames
<1>2. \A x : NT!Sign(x) = N!Sign(x) /\ NT!Magnitude(x) = N!Magnitude(x) /\ NT!Field(x) = N!Field(x)
  BY NarrowPartNames
<1>3. NT!Mantissa(u) = N!Mantissa(u)
  BY DEF NT!Mantissa, N!Mantissa
<1>4. NT!IsNaN(u) = N!IsNaN(u) /\ NT!IsInf(u) = N!IsInf(u) /\ NT!IsZero(u) = N!IsZero(u)
  BY <1>1, <1>2, <1>3 DEF NT!IsNaN, N!IsNaN, NT!IsInf, N!IsInf, NT!IsZero, N!IsZero
<1>5. \A s, n : NT!WithSign(s, n) = N!WithSign(s, n)
  BY <1>1 DEF NT!WithSign, N!WithSign
<1>6. \A x, y, z : NT!EffectiveSubtraction(x, y, z) <=> (N!Sign(x) + N!Sign(y) + N!Sign(z)) % 2 = 1
  BY <1>2 DEF NT!EffectiveSubtraction
<1>7. QED
  BY <1>4, <1>5, <1>6

(* One format's special values are the other's.                              *)
LEMMA WidenedSpecials ==
  ASSUME NEW u \in N!Patterns, NEW w, w = bf16_to_f32(u)
  PROVE  /\ w \in W!Patterns /\ W!Sign(w) = N!Sign(u)
         /\ W!IsNaN(w) <=> N!IsNaN(u)
         /\ W!IsInf(w) <=> N!IsInf(u)
         /\ W!IsZero(w) <=> N!IsZero(u)
<1>1. 0 \in 0 .. Lows - 1 /\ Lows \in Nat \ {0}
  BY LowsExceed
<1>2. w = bf16_to_f32(u) + 0
  <2>1. u \in Int
    BY Sizes DEF N!Patterns
  <2>2. u * 2^LowBits \in Int /\ Lows = 2^LowBits
    BY <1>1, <2>1 DEF Lows
  <2>3. QED
    BY <2>2 DEF bf16_to_f32
<1>3. /\ w \in W!Patterns /\ W!Sign(w) = N!Sign(u) /\ W!Field(w) = N!Field(u)
      /\ W!Mantissa(w) = (Lows * N!Mantissa(u)) + 0
  BY <1>1, <1>2, Widened
<1>4. W!ExpOnes = N!ExpOnes
  BY DEF W!ExpOnes, N!ExpOnes
<1>5. PICK man \in 0 .. Mantissas - 1, f \in 0 .. Fields - 1 :
        /\ man = N!Mantissa(u) /\ f = N!Field(u) /\ N!Magnitude(u) = (Mantissas * f) + man
  BY NarrowPattern
<1>6. Mantissas \in Nat \ {0} /\ Fields \in Nat /\ WideMantissas = Mantissas * Lows
  BY Sizes, LowsExceed
<1>7. PICK l \in Nat \ {0}, m \in Nat \ {0} : l = Lows /\ m = Mantissas
  BY <1>1, <1>6
<1>8. man \in Nat /\ f \in Nat
  BY <1>5, <1>6
<1>9. W!Mantissa(w) = l * man
  <2>1. PICK x \in Nat : x = l * man
    BY <1>7, <1>8
  <2>2. QED
    BY <1>3, <1>5, <1>7, <2>1
<1>10. l * man = 0 <=> man = 0
  <2>1. man >= 1 => l * man >= 1
    BY <1>8
  <2>2. QED
    BY <1>8, <2>1
<1>11. W!Magnitude(w) = (WideMantissas * f) + l * man
  BY <1>3, <1>5, <1>9, WidePattern
<1>12. WideMantissas * f = (m * l) * f
  BY <1>6, <1>7
<1>13. (m * l) * f + l * man = l * ((m * f) + man) /\ (m * f) + man \in Nat
  BY <1>8
<1>14. PICK n \in Nat : n = (m * f) + man /\ N!Magnitude(u) = n /\ W!Magnitude(w) = l * n
  BY <1>5, <1>7, <1>11, <1>12, <1>13
<1>15. l * n = 0 <=> n = 0
  <2>1. n >= 1 => l * n >= 1
    OBVIOUS
  <2>2. QED
    BY <2>1
<1>16. W!IsZero(w) <=> N!IsZero(u)
  BY <1>14, <1>15 DEF W!IsZero, N!IsZero
<1>17. (W!IsNaN(w) <=> N!IsNaN(u)) /\ (W!IsInf(w) <=> N!IsInf(u))
  BY <1>3, <1>4, <1>5, <1>9, <1>10 DEF W!IsNaN, N!IsNaN, W!IsInf, N!IsInf
<1>18. QED
  BY <1>3, <1>16, <1>17

(* Infinity narrows to infinity.                                             *)
LEMMA InfinityNarrowed ==
  ASSUME NEW s \in 0 .. 1
  PROVE  f32_to_bf16(W!WithSign(s, W!PosInf)) = N!WithSign(s, N!PosInf)
<1>1. PICK l \in Nat \ {0}, i \in Nat : l = Lows /\ i = N!PosInf /\ W!PosInf = l * i
  <2>1. /\ Lows \in Nat \ {0} /\ N!PosInf \in Nat /\ N!PosInf = (Fields - 1) * Mantissas
        /\ W!PosInf = (Fields - 1) * WideMantissas /\ WideMantissas = Mantissas * Lows
        /\ Fields \in Nat /\ Mantissas \in Nat
    BY Sizes, LowsExceed, NarrowInfinity
  <2>2. (Fields - 1) * (Mantissas * Lows) = Lows * ((Fields - 1) * Mantissas)
    BY <2>1
  <2>3. QED
    BY <2>1, <2>2
<1>2. /\ l * i = (l * i) + 0 /\ 0 \in 0 .. l - 1 /\ l * i \in Int /\ i \in Int
  <2>1. PICK x \in Nat : x = l * i
    OBVIOUS
  <2>2. QED
    BY <2>1
<1>3. (l * i) \div l = i /\ (l * i) % l = 0
  BY <1>2, NT!DivisionUnique
<1>4. ~ RoundsUp(i, 0)
  <2>1. 2^(LowBits - 1) \in Nat \ {0}
    BY Sizes
  <2>2. QED
    BY <2>1 DEF RoundsUp
<1>5. Narrow(W!PosInf) = N!PosInf
  BY <1>1, <1>3, <1>4 DEF Narrow
<1>6. W!PosInf \in 0 .. W!PosInf
  BY WideInfinity
<1>7. QED
  BY <1>5, <1>6, Narrowed

LEMMA InfiniteIs ==
  ASSUME NEW u \in N!Patterns, N!IsInf(u)
  PROVE  u = N!WithSign(N!Sign(u), N!PosInf) /\ N!Magnitude(u) = N!PosInf /\ N!Sign(u) \in 0 .. 1
<1>1. N!Magnitude(u) = N!PosInf
  BY LastField
<1>2. u = (N!SignMask * N!Sign(u)) + N!Magnitude(u) /\ N!Sign(u) \in 0 .. 1
  BY NarrowPattern
<1>3. N!SignMask \in Nat
  BY Sizes
<1>4. N!SignMask * N!Sign(u) = N!Sign(u) * N!SignMask
  BY <1>2, <1>3
<1>5. QED
  BY <1>1, <1>2, <1>4 DEF N!WithSign

LEMMA WideInfiniteIs ==
  ASSUME NEW w \in W!Patterns, W!IsInf(w)
  PROVE  w = W!WithSign(W!Sign(w), W!PosInf) /\ W!Sign(w) \in 0 .. 1
<1>1. /\ W!Sign(w) \in 0 .. 1 /\ w = (W!SignMask * W!Sign(w)) + W!Magnitude(w)
      /\ W!Magnitude(w) = (WideMantissas * W!Field(w)) + W!Mantissa(w)
  BY WidePattern
<1>2. W!Field(w) = W!ExpOnes /\ W!Mantissa(w) = 0
  BY DEF W!IsInf
<1>3. /\ W!ExpOnes = Fields - 1 /\ W!PosInf = (Fields - 1) * WideMantissas /\ WideMantissas \in Nat
      /\ Fields \in Nat /\ W!SignMask \in Nat
  BY Sizes
<1>4. (WideMantissas * (Fields - 1)) + 0 = (Fields - 1) * WideMantissas
  BY <1>3
<1>5. W!Magnitude(w) = W!PosInf
  BY <1>1, <1>2, <1>3, <1>4
<1>6. W!SignMask * W!Sign(w) = W!Sign(w) * W!SignMask
  BY <1>1, <1>3
<1>7. QED
  BY <1>1, <1>5, <1>6 DEF W!WithSign

-----------------------------------------------------------------------------
(* The units and the golden model agree.                                     *)

LEMMA FiniteOrSpecial ==
  ASSUME NEW u \in N!Patterns
  PROVE  FiniteNarrow(u) <=> ~ N!IsNaN(u) /\ ~ N!IsInf(u)
BY DEF FiniteNarrow, N!IsNaN, N!IsInf

(* What the unit does before it comes to finite operands.                    *)
LEMMA FmaddIs ==
  ASSUME NEW a, NEW b, NEW c, NEW psign, psign = (N!Sign(a) + N!Sign(b)) % 2
  PROVE  NT!Fmadd(a, b, c) =
           IF (N!IsInf(a) /\ N!IsZero(b)) \/ (N!IsZero(a) /\ N!IsInf(b)) THEN N!QNaN
           ELSE IF N!IsNaN(a) \/ N!IsNaN(b) \/ N!IsNaN(c) THEN N!QNaN
           ELSE IF N!IsInf(a) \/ N!IsInf(b)
                THEN IF N!IsInf(c) /\ (N!Sign(a) + N!Sign(b) + N!Sign(c)) % 2 = 1 THEN N!QNaN
                     ELSE N!WithSign(psign, N!PosInf)
           ELSE IF N!IsInf(c) THEN c
           ELSE NT!Finite(a, b, c)
<1>1. \A u : NT!IsNaN(u) = N!IsNaN(u) /\ NT!IsInf(u) = N!IsInf(u) /\ NT!IsZero(u) = N!IsZero(u)
  BY SpecialNames
<1>2. NT!EffectiveSubtraction(a, b, c) <=> (N!Sign(a) + N!Sign(b) + N!Sign(c)) % 2 = 1
  BY SpecialNames
<1>3. NT!WithSign(psign, NT!PosInf) = N!WithSign(psign, N!PosInf) /\ NT!QNaN = N!QNaN
  BY SpecialNames, NarrowNames
<1>4. psign = (NT!Sign(a) + NT!Sign(b)) % 2
  BY NarrowPartNames
<1>5. QED
  BY <1>1, <1>2, <1>3, <1>4 DEF NT!Fmadd

LEMMA MulAgrees ==
  ASSUME NEW a \in N!Patterns, NEW b \in N!Patterns
  PROVE  H!UnitMul(a, b) = bf16_mul(a, b, FALSE)
<1>1. PICK z, psign : z = N!WithSign(1, 0) /\ psign = (N!Sign(a) + N!Sign(b)) % 2
  OBVIOUS
<1>2. FiniteNarrow(z) /\ N!Sign(z) = 1 /\ ~ N!IsNaN(z) /\ ~ N!IsInf(z)
  <2>1. FiniteNarrow(z) /\ N!Sign(z) = 1
    BY <1>1, NegativeZero
  <2>2. QED
    BY <2>1 DEF FiniteNarrow, N!IsNaN, N!IsInf
<1>3. H!UnitMul(a, b) = NT!Fmadd(a, b, z)
  <2>1. H!UnitMul(a, b) = NT!UnitMul(a, b)
    BY UnitNames
  <2>2. NT!WithSign(1, 0) = z
    BY <1>1, SpecialNames
  <2>3. QED
    BY <2>1, <2>2 DEF NT!UnitMul
<1>4. CASE FiniteNarrow(a) /\ FiniteNarrow(b)
  <2>1. H!UnitMul(a, b) = NT!Finite(a, b, z)
    <3>1. ~ N!IsNaN(a) /\ ~ N!IsInf(a) /\ ~ N!IsNaN(b) /\ ~ N!IsInf(b)
      BY <1>4 DEF FiniteNarrow, N!IsNaN, N!IsInf
    <3>2. QED
      BY <1>1, <1>2, <1>3, <3>1, FmaddIs
  <2>2. PICK t : t = N!SumOf(psign, N!Significand(a) * N!Significand(b), N!Exponent(a) + N!Exponent(b),
                             1, N!Significand(z), N!Exponent(z))
    OBVIOUS
  <2>3. IsTotal(a, b, z, psign, 1, t)
    <3>1. 1 \in 0 .. 1
      OBVIOUS
    <3>2. QED
      BY <1>1, <1>2, <1>4, <2>2, <3>1 DEF IsTotal
  <2>4. Once(psign, 1, t, NT!Finite(a, b, z))
    BY <1>2, <2>3, UnitOnce
  <2>5. Once(psign, 1, t, bf16_mul(a, b, FALSE))
    BY <1>1, <1>4, <2>3, MulOnce
  <2>6. InUnits(t) \in Nat
    <3>1. PICK p, y : /\ p = (N!Significand(a) * N!Significand(b)) * 2^((N!Exponent(a) + N!Exponent(b)) - Unit)
                      /\ y = NT!Val(N!Magnitude(z), Unit)
      OBVIOUS
    <3>2. QED
      BY <2>3, <3>1, TotalIs
  <2>7. QED
    BY <2>1, <2>4, <2>5, <2>6, OnceUnique
<1>5. CASE ~ (FiniteNarrow(a) /\ FiniteNarrow(b))
  <2>1. N!IsNaN(a) \/ N!IsNaN(b) \/ N!IsInf(a) \/ N!IsInf(b)
    BY <1>5, FiniteOrSpecial
  <2>2. PICK wa, wb : wa = bf16_to_f32(a) /\ wb = bf16_to_f32(b)
    OBVIOUS
  <2>3. /\ W!Sign(wa) = N!Sign(a) /\ (W!IsNaN(wa) <=> N!IsNaN(a)) /\ (W!IsInf(wa) <=> N!IsInf(a))
        /\ (W!IsZero(wa) <=> N!IsZero(a))
    BY <2>2, WidenedSpecials
  <2>4. /\ W!Sign(wb) = N!Sign(b) /\ (W!IsNaN(wb) <=> N!IsNaN(b)) /\ (W!IsInf(wb) <=> N!IsInf(b))
        /\ (W!IsZero(wb) <=> N!IsZero(b))
    BY <2>2, WidenedSpecials
  <2>5. bf16_mul(a, b, FALSE) = f32_to_bf16(W!IeeeMul(wa, wb))
    BY <2>2, Zenon DEF bf16_mul, f32_to_bf16
  <2>6. W!IeeeMul(wa, wb) =
          IF N!IsNaN(a) \/ N!IsNaN(b) \/ (N!IsInf(a) /\ N!IsZero(b)) \/ (N!IsZero(a) /\ N!IsInf(b))
          THEN W!QNaN ELSE W!WithSign(psign, W!PosInf)
    BY <1>1, <2>1, <2>3, <2>4 DEF W!IeeeMul
  <2>7. psign \in 0 .. 1
    <3>1. N!Sign(a) \in 0 .. 1 /\ N!Sign(b) \in 0 .. 1
      BY NarrowPattern
    <3>2. QED
      BY <1>1, <3>1
  <2>8. f32_to_bf16(W!QNaN) = N!QNaN /\ f32_to_bf16(W!WithSign(psign, W!PosInf)) = N!WithSign(psign, N!PosInf)
    BY <2>7, NotANumber, InfinityNarrowed
  <2>9. bf16_mul(a, b, FALSE) =
          IF N!IsNaN(a) \/ N!IsNaN(b) \/ (N!IsInf(a) /\ N!IsZero(b)) \/ (N!IsZero(a) /\ N!IsInf(b))
          THEN N!QNaN ELSE N!WithSign(psign, N!PosInf)
    BY <2>5, <2>6, <2>8
  <2>10. NT!Fmadd(a, b, z) =
           IF N!IsNaN(a) \/ N!IsNaN(b) \/ (N!IsInf(a) /\ N!IsZero(b)) \/ (N!IsZero(a) /\ N!IsInf(b))
           THEN N!QNaN ELSE N!WithSign(psign, N!PosInf)
    BY <1>1, <1>2, <2>1, FmaddIs
  <2>11. QED
    BY <1>3, <2>9, <2>10
<1>6. QED
  BY <1>4, <1>5

(* A sum with the addend's sign inverted or not, as the golden model adds     *)
(* the widened operands.                                                     *)
LEMMA SumAgrees ==
  ASSUME NEW a \in N!Patterns, NEW b \in N!Patterns, NEW sub \in 0 .. 1, NEW wc \in W!Patterns,
         W!Sign(wc) = (N!Sign(b) + sub) % 2,
         W!IsNaN(wc) <=> N!IsNaN(b), W!IsInf(wc) <=> N!IsInf(b),
         FiniteNarrow(b) => /\ W!Significand(wc) = Lows * N!Significand(b)
                            /\ W!Exponent(wc) = N!Exponent(b) - LowBits
  PROVE  H!UnitAdd(a, b, sub) = f32_to_bf16(W!IeeeAdd(bf16_to_f32(a), wc))
<1>1. PICK one, c : one = NT!One /\ c = NT!Modified(b, sub)
  OBVIOUS
<1>2. H!UnitAdd(a, b, sub) = NT!Fmadd(one, a, c)
  <2>1. H!UnitAdd(a, b, sub) = NT!UnitAdd(a, b, sub)
    BY UnitNames
  <2>2. QED
    BY <1>1, <2>1 DEF NT!UnitAdd
<1>3. PICK csign \in 0 .. 1 :
        /\ csign = (N!Sign(b) + sub) % 2 /\ c \in N!Patterns /\ N!Sign(c) = csign
        /\ N!Magnitude(c) = N!Magnitude(b) /\ N!Field(c) = N!Field(b) /\ N!Mantissa(c) = N!Mantissa(b)
        /\ N!Significand(c) = N!Significand(b) /\ N!Exponent(c) = N!Exponent(b)
  BY <1>1, ModifiedIs
<1>4. /\ FiniteNarrow(c) <=> FiniteNarrow(b)
      /\ N!IsNaN(c) <=> N!IsNaN(b)
      /\ N!IsInf(c) <=> N!IsInf(b)
  BY <1>3 DEF FiniteNarrow, N!IsNaN, N!IsInf
<1>5. /\ FiniteNarrow(one) /\ N!Sign(one) = 0 /\ ~ N!IsNaN(one) /\ ~ N!IsInf(one) /\ ~ N!IsZero(one)
  <2>1. FiniteNarrow(one) /\ N!Sign(one) = 0 /\ N!Significand(one) = Mantissas
    BY <1>1, OneIs
  <2>2. ~ N!IsNaN(one) /\ ~ N!IsInf(one)
    BY <2>1 DEF FiniteNarrow, N!IsNaN, N!IsInf
  <2>3. ~ N!IsZero(one)
    <3>1. SUFFICES ASSUME N!Magnitude(one) = 0 PROVE FALSE
      BY DEF N!IsZero
    <3>2. N!Significand(N!Magnitude(one)) = Mantissas
      BY <2>1, FiniteIs
    <3>3. N!Significand(0) = 0
      <4>1. N!MinExp \in Int /\ 0 \in 0 .. N!PosInf /\ NT!Val(0, Unit) = 0
        BY UnitFits, ZeroValue
      <4>2. /\ N!Significand(0) \in Nat /\ N!Exponent(0) - Unit \in 0 .. MaxBits
            /\ NT!Val(0, Unit) = N!Significand(0) * 2^(N!Exponent(0) - Unit)
        BY <4>1, MagnitudeInUnits
      <4>3. PICK f \in Nat \ {0}, n \in Nat : f = 2^(N!Exponent(0) - Unit) /\ n = N!Significand(0)
        BY <4>2, FormatsAre, NT!PowersGrow
      <4>4. n * f = 0
        BY <4>1, <4>2, <4>3
      <4>5. n >= 1 => n * f >= 1
        OBVIOUS
      <4>6. QED
        BY <4>3, <4>4, <4>5
    <3>4. QED
      BY <3>1, <3>2, <3>3, LowsExceed
  <2>4. QED
    BY <2>1, <2>2, <2>3
<1>6. PICK sa \in 0 .. 1 : sa = N!Sign(a) /\ (0 + sa) % 2 = sa
  <2>1. N!Sign(a) \in 0 .. 1
    BY NarrowPattern
  <2>2. \A s \in 0 .. 1 : (0 + s) % 2 = s
    OBVIOUS
  <2>3. QED
    BY <2>1, <2>2
<1>7. CASE FiniteNarrow(a) /\ FiniteNarrow(b)
  <2>1. NT!Fmadd(one, a, c) = NT!Finite(one, a, c)
    <3>1. ~ N!IsNaN(a) /\ ~ N!IsInf(a) /\ ~ N!IsNaN(c) /\ ~ N!IsInf(c)
      BY <1>4, <1>7 DEF FiniteNarrow, N!IsNaN, N!IsInf
    <3>2. PICK psign : psign = (N!Sign(one) + N!Sign(a)) % 2
      OBVIOUS
    <3>3. QED
      BY <1>5, <3>1, <3>2, FmaddIs
  <2>2. PICK psign, t :
          /\ psign = (N!Sign(one) + N!Sign(a)) % 2
          /\ t = N!SumOf(psign, N!Significand(one) * N!Significand(a), N!Exponent(one) + N!Exponent(a),
                         csign, N!Significand(c), N!Exponent(c))
    OBVIOUS
  <2>3. IsTotal(one, a, c, psign, csign, t)
    BY <1>4, <1>5, <1>7, <2>2 DEF IsTotal
  <2>4. Once(psign, csign, t, NT!Finite(one, a, c))
    BY <1>3, <2>3, UnitOnce
  <2>5. Once(psign, csign, t, f32_to_bf16(W!IeeeAdd(bf16_to_f32(a), wc)))
    <3>1. /\ W!Sign(wc) = csign /\ ~ W!IsNaN(wc) /\ ~ W!IsInf(wc)
          /\ W!Significand(wc) = Lows * N!Significand(c) /\ W!Exponent(wc) = N!Exponent(c) - LowBits
      <4>1. ~ N!IsNaN(b) /\ ~ N!IsInf(b)
        BY <1>7 DEF FiniteNarrow, N!IsNaN, N!IsInf
      <4>2. QED
        BY <1>3, <1>7, <4>1
    <3>2. IsTotal(NT!One, a, c, psign, csign, t)
      BY <1>1, <2>3
    <3>3. FiniteNarrow(a) /\ FiniteNarrow(c)
      BY <1>4, <1>7
    <3>4. QED
      BY <3>1, <3>2, <3>3, AddOnce
  <2>6. InUnits(t) \in Nat
    <3>1. PICK p, y : /\ p = (N!Significand(one) * N!Significand(a)) * 2^((N!Exponent(one) + N!Exponent(a)) - Unit)
                      /\ y = NT!Val(N!Magnitude(c), Unit)
      OBVIOUS
    <3>2. QED
      BY <2>3, <3>1, TotalIs
  <2>7. QED
    BY <1>2, <2>1, <2>4, <2>5, <2>6, OnceUnique
<1>8. CASE ~ (FiniteNarrow(a) /\ FiniteNarrow(b))
  <2>1. N!IsNaN(a) \/ N!IsNaN(b) \/ N!IsInf(a) \/ N!IsInf(b)
    BY <1>8, FiniteOrSpecial
  <2>2. PICK wa : wa = bf16_to_f32(a)
    OBVIOUS
  <2>3. /\ wa \in W!Patterns /\ W!Sign(wa) = sa /\ (W!IsNaN(wa) <=> N!IsNaN(a)) /\ (W!IsInf(wa) <=> N!IsInf(a))
    BY <1>6, <2>2, WidenedSpecials
  <2>4. W!IeeeAdd(wa, wc) =
          IF N!IsNaN(a) \/ N!IsNaN(b) \/ (N!IsInf(a) /\ N!IsInf(b) /\ sa # csign) THEN W!QNaN
          ELSE IF N!IsInf(a) THEN wa ELSE wc
    BY <1>3, <2>1, <2>3 DEF W!IeeeAdd
  <2>5. f32_to_bf16(W!QNaN) = N!QNaN
    BY NotANumber
  <2>6. N!IsInf(a) => f32_to_bf16(wa) = N!WithSign(sa, N!PosInf)
    <3>1. SUFFICES ASSUME N!IsInf(a) PROVE f32_to_bf16(wa) = N!WithSign(sa, N!PosInf)
      OBVIOUS
    <3>2. wa = W!WithSign(sa, W!PosInf)
      BY <2>3, <3>1, WideInfiniteIs
    <3>3. QED
      BY <3>2, InfinityNarrowed
  <2>7. N!IsInf(b) => f32_to_bf16(wc) = N!WithSign(csign, N!PosInf) /\ c = N!WithSign(csign, N!PosInf)
    <3>1. SUFFICES ASSUME N!IsInf(b)
                   PROVE  f32_to_bf16(wc) = N!WithSign(csign, N!PosInf) /\ c = N!WithSign(csign, N!PosInf)
      OBVIOUS
    <3>2. wc = W!WithSign(csign, W!PosInf)
      BY <1>3, <3>1, WideInfiniteIs
    <3>3. c = N!WithSign(csign, N!PosInf)
      BY <1>3, <1>4, <3>1, InfiniteIs
    <3>4. QED
      BY <3>2, <3>3, InfinityNarrowed
  <2>8. NT!Fmadd(one, a, c) =
          IF N!IsNaN(a) \/ N!IsNaN(b) THEN N!QNaN
          ELSE IF N!IsInf(a)
               THEN IF N!IsInf(b) /\ (0 + sa + csign) % 2 = 1 THEN N!QNaN ELSE N!WithSign(sa, N!PosInf)
               ELSE c
    <3>1. PICK psign : psign = (N!Sign(one) + N!Sign(a)) % 2 /\ psign = sa
      BY <1>5, <1>6
    <3>2. NT!Fmadd(one, a, c) =
            IF (N!IsInf(one) /\ N!IsZero(a)) \/ (N!IsZero(one) /\ N!IsInf(a)) THEN N!QNaN
            ELSE IF N!IsNaN(one) \/ N!IsNaN(a) \/ N!IsNaN(c) THEN N!QNaN
            ELSE IF N!IsInf(one) \/ N!IsInf(a)
                 THEN IF N!IsInf(c) /\ (N!Sign(one) + N!Sign(a) + N!Sign(c)) % 2 = 1 THEN N!QNaN
                      ELSE N!WithSign(psign, N!PosInf)
            ELSE IF N!IsInf(c) THEN c
            ELSE NT!Finite(one, a, c)
      BY <3>1, FmaddIs
    <3>3. N!Sign(one) + N!Sign(a) + N!Sign(c) = 0 + sa + csign
      BY <1>3, <1>5, <1>6
    <3>4. PICK odd \in BOOLEAN : odd <=> (0 + sa + csign) % 2 = 1
      OBVIOUS
    <3>5. ~ N!IsNaN(one) /\ ~ N!IsInf(one) /\ ~ N!IsZero(one)
      BY <1>5
    <3>6. N!IsNaN(a) \/ N!IsNaN(c) \/ N!IsInf(a) \/ N!IsInf(c)
      BY <1>4, <2>1
    <3>7. NT!Fmadd(one, a, c) =
            IF N!IsNaN(a) \/ N!IsNaN(c) THEN N!QNaN
            ELSE IF N!IsInf(a) THEN IF N!IsInf(c) /\ odd THEN N!QNaN ELSE N!WithSign(psign, N!PosInf)
            ELSE c
      <4>1. CASE N!IsNaN(a) \/ N!IsNaN(c)
        BY <3>2, <3>5, <4>1
      <4>2. CASE ~ (N!IsNaN(a) \/ N!IsNaN(c)) /\ N!IsInf(a)
        BY <3>2, <3>3, <3>4, <3>5, <4>2
      <4>3. CASE ~ (N!IsNaN(a) \/ N!IsNaN(c)) /\ ~ N!IsInf(a)
        BY <3>2, <3>5, <3>6, <4>3
      <4>4. QED
        BY <4>1, <4>2, <4>3
    <3>8. QED
      BY <1>4, <3>1, <3>4, <3>7
  <2>9. (0 + sa + csign) % 2 = 1 <=> sa # csign
    OBVIOUS
  <2>10. QED
    BY <1>2, <2>1, <2>2, <2>4, <2>5, <2>6, <2>7, <2>8, <2>9
<1>9. QED
  BY <1>7, <1>8

(* The fused operation, three ways.                                          *)
LEMMA FmaAgrees ==
  ASSUME NEW a \in N!Patterns, NEW b \in N!Patterns, NEW c \in N!Patterns, NEW sub \in {0, 1}
  PROVE  /\ H!UnitFma(a, b, c, sub) = bf16_fma_exact(a, b, c, sub)
         /\ bf16_fma(a, b, c, sub) = bf16_fma_exact(a, b, c, sub)
         /\ FiniteNarrow(a) /\ FiniteNarrow(b) /\ FiniteNarrow(c) =>
              LET total == ExactSum(a, b, c, sub)
              IN N!RoundsTo(total.num, total.exp, N!Magnitude(bf16_fma_exact(a, b, c, sub)))
<1>1. PICK z, psign : z = NT!Modified(c, sub) /\ psign = (N!Sign(a) + N!Sign(b)) % 2
  OBVIOUS
<1>2. H!UnitFma(a, b, c, sub) = NT!Fmadd(a, b, z)
  <2>1. H!UnitFma(a, b, c, sub) = NT!UnitFma(a, b, c, sub)
    BY UnitNames
  <2>2. QED
    BY <1>1, <2>1 DEF NT!UnitFma
<1>3. PICK csign \in 0 .. 1 :
        /\ csign = (N!Sign(c) + sub) % 2 /\ z \in N!Patterns /\ N!Sign(z) = csign
        /\ N!Magnitude(z) = N!Magnitude(c) /\ N!Field(z) = N!Field(c) /\ N!Mantissa(z) = N!Mantissa(c)
        /\ N!Significand(z) = N!Significand(c) /\ N!Exponent(z) = N!Exponent(c)
  <2>1. sub \in 0 .. 1
    OBVIOUS
  <2>2. QED
    BY <1>1, <2>1, ModifiedIs
<1>4. /\ FiniteNarrow(z) <=> FiniteNarrow(c)
      /\ N!IsNaN(z) <=> N!IsNaN(c)
      /\ N!IsInf(z) <=> N!IsInf(c)
  BY <1>3 DEF FiniteNarrow, N!IsNaN, N!IsInf
<1>5. CASE FiniteNarrow(a) /\ FiniteNarrow(b) /\ FiniteNarrow(c)
  <2>1. NT!Fmadd(a, b, z) = NT!Finite(a, b, z)
    <3>1. /\ ~ N!IsNaN(a) /\ ~ N!IsInf(a) /\ ~ N!IsNaN(b) /\ ~ N!IsInf(b)
          /\ ~ N!IsNaN(z) /\ ~ N!IsInf(z)
      BY <1>4, <1>5 DEF FiniteNarrow, N!IsNaN, N!IsInf
    <3>2. QED
      BY <1>1, <3>1, FmaddIs
  <2>2. PICK t : t = N!SumOf(psign, N!Significand(a) * N!Significand(b), N!Exponent(a) + N!Exponent(b),
                             csign, N!Significand(c), N!Exponent(c))
    OBVIOUS
  <2>3. IsTotal(a, b, c, psign, csign, t)
    BY <1>1, <1>5, <2>2 DEF IsTotal
  <2>4. IsTotal(a, b, z, psign, csign, t)
    BY <1>1, <1>3, <1>4, <1>5, <2>2 DEF IsTotal
  <2>5. Once(psign, csign, t, NT!Finite(a, b, z))
    BY <1>3, <2>4, UnitOnce
  <2>6. Once(psign, csign, t, bf16_fma_exact(a, b, c, sub)) /\ t = ExactSum(a, b, c, sub)
    BY <1>3, <2>3, ExactOnce
  <2>7. /\ InUnits(t) \in Nat /\ t.num \in 0 .. 2^MaxBits - 1 /\ t.exp \in Int /\ t.sign \in 0 .. 1
        /\ t.exp - Unit \in 0 .. MaxBits /\ psign \in 0 .. 1
    <3>1. PICK p, y : /\ p = (N!Significand(a) * N!Significand(b)) * 2^((N!Exponent(a) + N!Exponent(b)) - Unit)
                      /\ y = NT!Val(N!Magnitude(c), Unit)
      OBVIOUS
    <3>2. QED
      BY <2>3, <3>1, TotalIs
  <2>8. H!UnitFma(a, b, c, sub) = bf16_fma_exact(a, b, c, sub)
    BY <1>2, <2>1, <2>5, <2>6, <2>7, OnceUnique
  <2>9. bf16_fma(a, b, c, sub) = bf16_fma_exact(a, b, c, sub)
    <3>1. CASE risky(a, b, c)
      BY <3>1 DEF bf16_fma
    <3>2. CASE ~ risky(a, b, c)
      <4>1. Trusted(a, b, c)
        BY <1>5, <3>2, TrustedIs
      <4>2. Once(psign, csign, t, double_path(a, b, c, sub))
        BY <1>3, <2>3, <4>1, DoubleOnce
      <4>3. double_path(a, b, c, sub) = bf16_fma_exact(a, b, c, sub)
        BY <2>6, <2>7, <4>2, OnceUnique
      <4>4. QED
        BY <3>2, <4>3 DEF bf16_fma
    <3>3. QED
      BY <3>1, <3>2
  <2>10. N!RoundsTo(t.num, t.exp, N!Magnitude(bf16_fma_exact(a, b, c, sub)))
    <3>1. PICK n \in 0 .. N!PosInf :
            /\ NT!Nearest(InUnits(t), Unit, n)
            /\ bf16_fma_exact(a, b, c, sub) = N!WithSign(IF t.num = 0 THEN psign * csign ELSE t.sign, n)
      BY <2>6 DEF Once
    <3>2. PICK s \in 0 .. 1 : s = (IF t.num = 0 THEN psign * csign ELSE t.sign)
      <4>1. psign * csign \in 0 .. 1
        BY <2>7
      <4>2. QED
        BY <2>7, <4>1
    <3>3. N!Magnitude(bf16_fma_exact(a, b, c, sub)) = n
      <4>1. n \in 0 .. N!SignMask - 1
        BY NarrowInfinity, Sizes
      <4>2. QED
        BY <3>1, <3>2, <4>1, NarrowSigned
    <3>4. PICK num \in Nat, ex \in Int : num = t.num /\ ex = t.exp /\ ex - Unit \in 0 .. MaxBits
      <4>1. MaxBits \in Nat /\ MaxBits \in 0 .. MaxBits
        BY FormatsAre
      <4>2. 2^MaxBits \in Nat
        BY <4>1, FormatsAre, NT!PowersGrow
      <4>3. QED
        BY <2>7, <4>2
    <3>5. NT!Nearest(NT!At(num, ex, Unit), Unit, n) <=> NT!RoundsTo(num, ex, n)
      <4>1. n \in 0 .. NT!PosInf /\ NT!Format /\ NT!Base(Unit)
        BY NarrowNames, FormatsAre, UnitFits
      <4>2. QED
        BY <3>4, <4>1, NT!NearestRounds
    <3>6. NT!At(num, ex, Unit) = InUnits(t)
      BY <3>4 DEF NT!At, InUnits
    <3>7. N!RoundsTo(num, ex, n)
      BY <3>1, <3>5, <3>6, NarrowRoundNames
    <3>8. QED
      BY <3>3, <3>4, <3>7
  <2>11. QED
    BY <2>6, <2>8, <2>9, <2>10
<1>6. CASE ~ (FiniteNarrow(a) /\ FiniteNarrow(b) /\ FiniteNarrow(c))
  <2>1. N!IsNaN(a) \/ N!IsNaN(b) \/ N!IsNaN(c) \/ N!IsInf(a) \/ N!IsInf(b) \/ N!IsInf(c)
    BY <1>6, FiniteOrSpecial
  <2>2. bf16_fma(a, b, c, sub) = bf16_fma_exact(a, b, c, sub)
    <3>1. risky(a, b, c)
      BY <2>1 DEF risky, N!IsNormal, N!IsNaN, N!IsInf
    <3>2. QED
      BY <3>1 DEF bf16_fma
  <2>3. PICK sa \in 0 .. 1, sb \in 0 .. 1 : sa = N!Sign(a) /\ sb = N!Sign(b) /\ psign = (sa + sb) % 2
    BY <1>1, NarrowPattern
  <2>4. PICK odd \in BOOLEAN : (odd <=> (sa + sb + csign) % 2 = 1) /\ (odd <=> csign # psign)
    <3>1. (sa + sb + csign) % 2 = 1 <=> csign # (sa + sb) % 2
      OBVIOUS
    <3>2. PICK odd \in BOOLEAN : odd <=> (sa + sb + csign) % 2 = 1
      OBVIOUS
    <3>3. QED
      BY <2>3, <3>1, <3>2
  <2>5. bf16_fma_exact(a, b, c, sub) =
          IF N!IsNaN(a) \/ N!IsNaN(b) \/ N!IsNaN(c) THEN N!QNaN
          ELSE IF (N!IsInf(a) /\ N!IsZero(b)) \/ (N!IsInf(b) /\ N!IsZero(a)) THEN N!QNaN
          ELSE IF (N!IsInf(a) \/ N!IsInf(b)) /\ N!IsInf(c) /\ csign # psign THEN N!QNaN
          ELSE IF N!IsInf(a) \/ N!IsInf(b) THEN N!WithSign(psign, N!PosInf)
          ELSE N!WithSign(csign, N!PosInf)
    BY <1>1, <1>3, <2>1 DEF bf16_fma_exact
  <2>6. NT!Fmadd(a, b, z) =
          IF (N!IsInf(a) /\ N!IsZero(b)) \/ (N!IsZero(a) /\ N!IsInf(b)) THEN N!QNaN
          ELSE IF N!IsNaN(a) \/ N!IsNaN(b) \/ N!IsNaN(z) THEN N!QNaN
          ELSE IF N!IsInf(a) \/ N!IsInf(b)
               THEN IF N!IsInf(z) /\ (N!Sign(a) + N!Sign(b) + N!Sign(z)) % 2 = 1 THEN N!QNaN
                    ELSE N!WithSign(psign, N!PosInf)
          ELSE IF N!IsInf(z) THEN z
          ELSE NT!Finite(a, b, z)
    BY <1>1, FmaddIs
  <2>7. (N!Sign(a) + N!Sign(b) + N!Sign(z)) % 2 = 1 <=> odd
    BY <1>3, <2>3, <2>4
  <2>8. N!IsInf(z) => z = N!WithSign(csign, N!PosInf)
    BY <1>3, InfiniteIs
  <2>9. NT!Fmadd(a, b, z) = bf16_fma_exact(a, b, c, sub)
    <3>1. CASE N!IsNaN(a) \/ N!IsNaN(b) \/ N!IsNaN(c)
      BY <1>4, <2>5, <2>6, <3>1
    <3>2. CASE ~ (N!IsNaN(a) \/ N!IsNaN(b) \/ N!IsNaN(c)) /\ (N!IsInf(a) \/ N!IsInf(b))
      BY <1>4, <2>4, <2>5, <2>6, <2>7, <3>2
    <3>3. CASE ~ (N!IsNaN(a) \/ N!IsNaN(b) \/ N!IsNaN(c)) /\ ~ (N!IsInf(a) \/ N!IsInf(b))
      BY <1>4, <2>1, <2>5, <2>6, <2>8, <3>3
    <3>4. QED
      BY <3>1, <3>2, <3>3
  <2>10. QED
    BY <1>2, <1>6, <2>2, <2>9
<1>7. QED
  BY <1>5, <1>6

(* The units are the golden model's operations, on every operand.            *)
LEMMA UnitsAgreeAll == UnitsAgree
<1>1. ASSUME NEW a \in N!Patterns, NEW b \in N!Patterns
      PROVE  /\ H!UnitAdd(a, b, 0) = bf16_add(a, b, FALSE)
             /\ H!UnitAdd(a, b, 1) = bf16_sub(a, b, FALSE)
  <2>1. PICK wb, wn : wb = bf16_to_f32(b) /\ wn = W!FlipSign(wb)
    OBVIOUS
  <2>2. PICK s \in 0 .. 1 : s = N!Sign(b)
    BY NarrowPattern
  <2>3. /\ wb \in W!Patterns /\ W!Sign(wb) = s
        /\ W!IsNaN(wb) <=> N!IsNaN(b)
        /\ W!IsInf(wb) <=> N!IsInf(b)
    BY <2>1, <2>2, WidenedSpecials
  <2>4. FiniteNarrow(b) => /\ W!Significand(wb) = Lows * N!Significand(b)
                           /\ W!Exponent(wb) = N!Exponent(b) - LowBits
    BY <2>1, WidenedFinite
  <2>5. /\ wn \in W!Patterns /\ W!Sign(wn) = 1 - s /\ W!Field(wn) = W!Field(wb) /\ W!Mantissa(wn) = W!Mantissa(wb)
        /\ W!Significand(wn) = W!Significand(wb) /\ W!Exponent(wn) = W!Exponent(wb)
    BY <2>1, <2>3, WideFlipped
  <2>6. (W!IsNaN(wn) <=> N!IsNaN(b)) /\ (W!IsInf(wn) <=> N!IsInf(b))
    BY <2>3, <2>5 DEF W!IsNaN, W!IsInf
  <2>7. (s + 0) % 2 = s /\ (s + 1) % 2 = 1 - s
    OBVIOUS
  <2>8. H!UnitAdd(a, b, 0) = f32_to_bf16(W!IeeeAdd(bf16_to_f32(a), wb))
    <3>1. 0 \in 0 .. 1 /\ W!Sign(wb) = (N!Sign(b) + 0) % 2
      BY <2>2, <2>3, <2>7
    <3>2. QED
      BY <2>3, <2>4, <3>1, SumAgrees
  <2>9. H!UnitAdd(a, b, 1) = f32_to_bf16(W!IeeeAdd(bf16_to_f32(a), wn))
    <3>1. 1 \in 0 .. 1 /\ W!Sign(wn) = (N!Sign(b) + 1) % 2
      BY <2>2, <2>5, <2>7
    <3>2. FiniteNarrow(b) => /\ W!Significand(wn) = Lows * N!Significand(b)
                             /\ W!Exponent(wn) = N!Exponent(b) - LowBits
      BY <2>4, <2>5
    <3>3. QED
      BY <2>5, <2>6, <3>1, <3>2, SumAgrees
  <2>10. bf16_add(a, b, FALSE) = f32_to_bf16(W!IeeeAdd(bf16_to_f32(a), wb))
    BY <2>1, Zenon DEF bf16_add, f32_to_bf16
  <2>11. bf16_sub(a, b, FALSE) = f32_to_bf16(W!IeeeAdd(bf16_to_f32(a), wn))
    BY <2>1, Zenon DEF bf16_sub, f32_to_bf16
  <2>12. QED
    BY <2>8, <2>9, <2>10, <2>11
<1>2. ASSUME NEW a \in N!Patterns, NEW b \in N!Patterns, NEW c \in N!Patterns, NEW sub \in {0, 1}
      PROVE  H!UnitFma(a, b, c, sub) = bf16_fma(a, b, c, sub)
  BY FmaAgrees
<1>3. QED
  BY <1>1, <1>2, MulAgrees DEF UnitsAgree

(* A result that rounds once is the nearest to each way to write the value.  *)
LEMMA OnceRounds ==
  ASSUME NEW psign \in 0 .. 1, NEW csign \in 0 .. 1, NEW t, t.sign \in 0 .. 1, NEW r, Once(psign, csign, t, r),
         NEW num \in Nat, NEW ex \in Int, ex - Unit \in 0 .. MaxBits, InUnits(t) = num * 2^(ex - Unit)
  PROVE  N!RoundsTo(num, ex, N!Magnitude(r))
<1>1. PICK n \in 0 .. N!PosInf :
        /\ NT!Nearest(InUnits(t), Unit, n)
        /\ r = N!WithSign(IF t.num = 0 THEN psign * csign ELSE t.sign, n)
  BY DEF Once
<1>2. PICK s \in 0 .. 1 : s = (IF t.num = 0 THEN psign * csign ELSE t.sign)
  <2>1. psign * csign \in 0 .. 1
    OBVIOUS
  <2>2. QED
    BY <2>1
<1>3. N!Magnitude(r) = n
  <2>1. n \in 0 .. N!SignMask - 1
    BY NarrowInfinity, Sizes
  <2>2. QED
    BY <1>1, <1>2, <2>1, NarrowSigned
<1>4. NT!Nearest(NT!At(num, ex, Unit), Unit, n) <=> NT!RoundsTo(num, ex, n)
  <2>1. n \in 0 .. NT!PosInf /\ NT!Format /\ NT!Base(Unit)
    BY NarrowNames, FormatsAre, UnitFits
  <2>2. QED
    BY <2>1, NT!NearestRounds
<1>5. NT!At(num, ex, Unit) = InUnits(t)
  BY DEF NT!At
<1>6. QED
  BY <1>1, <1>3, <1>4, <1>5, NarrowRoundNames

(* The product of two finite patterns is the nearest to the exact one.       *)
LEMMA ProductRounds ==
  ASSUME NEW a, NEW b, FiniteNarrow(a), FiniteNarrow(b)
  PROVE  N!RoundsTo(N!Significand(a) * N!Significand(b), N!Exponent(a) + N!Exponent(b),
                    N!Magnitude(bf16_mul(a, b, FALSE)))
<1>1. PICK z, psign : z = N!WithSign(1, 0) /\ psign = (N!Sign(a) + N!Sign(b)) % 2
  OBVIOUS
<1>2. FiniteNarrow(z)
  BY <1>1, NegativeZero
<1>3. PICK t : t = N!SumOf(psign, N!Significand(a) * N!Significand(b), N!Exponent(a) + N!Exponent(b),
                           1, N!Significand(z), N!Exponent(z))
  OBVIOUS
<1>4. 1 \in 0 .. 1
  OBVIOUS
<1>5. IsTotal(a, b, z, psign, 1, t)
  BY <1>1, <1>2, <1>3, <1>4 DEF IsTotal
<1>6. PICK num \in Nat, ex \in Int :
        /\ num = N!Significand(a) * N!Significand(b) /\ ex = N!Exponent(a) + N!Exponent(b)
        /\ ex - Unit \in 0 .. MaxBits /\ InUnits(t) = num * 2^(ex - Unit)
        /\ Once(psign, 1, t, bf16_mul(a, b, FALSE))
  <2>1. /\ Once(psign, 1, t, bf16_mul(a, b, FALSE))
        /\ N!Significand(a) * N!Significand(b) \in 0 .. 2^MaxBits - 1
        /\ N!Exponent(a) + N!Exponent(b) \in Int
        /\ (N!Exponent(a) + N!Exponent(b)) - Unit \in 0 .. MaxBits
        /\ InUnits(t) = (N!Significand(a) * N!Significand(b)) * 2^((N!Exponent(a) + N!Exponent(b)) - Unit)
    BY <1>1, <1>5, MulOnce
  <2>2. 2^MaxBits \in Nat
    <3>1. MaxBits \in Nat /\ MaxBits \in 0 .. MaxBits
      BY FormatsAre
    <3>2. QED
      BY <3>1, FormatsAre, NT!PowersGrow
  <2>3. N!Significand(a) * N!Significand(b) \in Nat
    BY <2>1, <2>2
  <2>4. QED
    BY <2>1, <2>3
<1>7. psign \in 0 .. 1 /\ t.sign \in 0 .. 1
  <2>1. PICK p, y : /\ p = (N!Significand(a) * N!Significand(b)) * 2^((N!Exponent(a) + N!Exponent(b)) - Unit)
                    /\ y = NT!Val(N!Magnitude(z), Unit)
    OBVIOUS
  <2>2. QED
    BY <1>5, <2>1, TotalIs
<1>8. QED
  BY <1>4, <1>6, <1>7, OnceRounds

(* Subnormals are flushed after the rounding.                                *)
LEMMA FlushedAfter ==
  ASSUME NEW a, NEW b
  PROVE  bf16_mul(a, b, TRUE) = flushed(bf16_mul(a, b, FALSE))
<1>1. PICK w : w = W!IeeeMul(bf16_to_f32(a), bf16_to_f32(b))
  OBVIOUS
<1>2. round_f32_to_bf16(w, TRUE) = flushed(round_f32_to_bf16(w, FALSE))
  BY Zenon DEF round_f32_to_bf16
<1>3. QED
  BY <1>1, <1>2, Zenon DEF bf16_mul

(* The mantissa unit and the adder round the exact result once: an operation *)
(* computed in FP32 and then narrowed is never rounded twice to effect.      *)
THEOREM UnitsRound == BenchSpec => []UnitsRoundOnce
<1>1. BenchInv => UnitsRoundOnce
  <2> SUFFICES ASSUME BenchInv, Complete("bf16", 2), NEW a, NEW b, a = line[1], b = line[2]
               PROVE  /\ bf16_mul(a, b, FALSE) = H!UnitMul(a, b)
                      /\ bf16_add(a, b, FALSE) = H!UnitAdd(a, b, 0)
                      /\ bf16_sub(a, b, FALSE) = H!UnitAdd(a, b, 1)
                      /\ bf16_mul(a, b, TRUE) = flushed(H!UnitMul(a, b))
                      /\ N!Field(a) # N!ExpOnes /\ N!Field(b) # N!ExpOnes =>
                           N!RoundsTo(N!Significand(a) * N!Significand(b), N!Exponent(a) + N!Exponent(b),
                                      N!Magnitude(bf16_mul(a, b, FALSE)))
    BY Zenon DEF UnitsRoundOnce
  <2>1. a \in N!Patterns /\ b \in N!Patterns
    BY DEF BenchInv, LineOf, Complete
  <2>2. /\ bf16_mul(a, b, FALSE) = H!UnitMul(a, b)
        /\ bf16_add(a, b, FALSE) = H!UnitAdd(a, b, 0)
        /\ bf16_sub(a, b, FALSE) = H!UnitAdd(a, b, 1)
    BY <2>1, UnitsAgreeAll, Zenon DEF UnitsAgree
  <2>3. bf16_mul(a, b, TRUE) = flushed(H!UnitMul(a, b))
    BY <2>2, FlushedAfter, Zenon
  <2>4. ASSUME N!Field(a) # N!ExpOnes, N!Field(b) # N!ExpOnes
        PROVE  N!RoundsTo(N!Significand(a) * N!Significand(b), N!Exponent(a) + N!Exponent(b),
                          N!Magnitude(bf16_mul(a, b, FALSE)))
    <3>1. FiniteNarrow(a) /\ FiniteNarrow(b)
      BY <2>1, <2>4 DEF FiniteNarrow
    <3>2. QED
      BY <3>1, ProductRounds
  <2>5. QED
    BY <2>2, <2>3, <2>4, Zenon
<1>2. QED
  BY <1>1, BenchInvariant, PTL

(* The fused operation rounds once too, the integer model, the FP64 shortcut *)
(* and the aligned addition alike.                                           *)
THEOREM FmaRounds == BenchSpec => []FmaRoundsOnce
<1>1. BenchInv => FmaRoundsOnce
  <2> SUFFICES ASSUME BenchInv, Complete("fma", 2), NEW c \in N!Patterns, NEW sub \in {0, 1},
                      NEW a, NEW b, a = line[1], b = line[2]
               PROVE  LET r == bf16_fma_exact(a, b, c, sub)
                          total == ExactSum(a, b, c, sub)
                      IN /\ bf16_fma(a, b, c, sub) = r
                         /\ H!UnitFma(a, b, c, sub) = r
                         /\ N!ExpOnes \notin {N!Field(a), N!Field(b), N!Field(c)} =>
                              N!RoundsTo(total.num, total.exp, N!Magnitude(r))
    BY Zenon DEF FmaRoundsOnce
  <2>1. a \in N!Patterns /\ b \in N!Patterns
    <3>1. a \in Multiplicands /\ b \in Multipliers
      BY DEF BenchInv, LineOf, Complete
    <3>2. QED
      BY <3>1, OperandsAssumption
  <2>2. /\ H!UnitFma(a, b, c, sub) = bf16_fma_exact(a, b, c, sub)
        /\ bf16_fma(a, b, c, sub) = bf16_fma_exact(a, b, c, sub)
        /\ FiniteNarrow(a) /\ FiniteNarrow(b) /\ FiniteNarrow(c) =>
             LET total == ExactSum(a, b, c, sub)
             IN N!RoundsTo(total.num, total.exp, N!Magnitude(bf16_fma_exact(a, b, c, sub)))
    BY <2>1, FmaAgrees
  <2>3. N!ExpOnes \notin {N!Field(a), N!Field(b), N!Field(c)} => FiniteNarrow(a) /\ FiniteNarrow(b) /\ FiniteNarrow(c)
    BY <2>1 DEF FiniteNarrow
  <2>4. QED
    BY <2>2, <2>3, Zenon
<1>2. QED
  BY <1>1, BenchInvariant, PTL

(* The units being what they should, the instruction is: whatever the        *)
(* widths, the table, the operands and the position.                         *)
THEOREM InstructionRight == BenchSpec => []InstructionMatches
BY UnitsAgreeAll, InstructionFollowsUnits

=============================================================================
