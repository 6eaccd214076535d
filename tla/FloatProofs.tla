---------------------------- MODULE FloatProofs ----------------------------
(***************************************************************************)
(* What a floating-point format computes, for every width of its fields:    *)
(* the values of its patterns, the one nearest to a real, and rounding onto *)
(* a binade's grid as the way to it.  Then the datapath of fpnew_fma, which *)
(* rounds once: what it returns for finite operands is the magnitude        *)
(* nearest to the exact a * b + c.                                          *)
(***************************************************************************)
EXTENDS FpnewFma, Powers, FiniteSets, TLAPS, WellFoundedInduction

(* The widths a format may have, within the powers of two the proofs use.    *)
Format == /\ ExpBits \in Nat \ {0, 1} /\ ManBits \in Nat \ {0} /\ MaxBits \in Nat
          /\ ExpBits + ManBits <= MaxBits /\ PowersOfTwo(MaxBits)

Fields == 2^ExpBits
Mantissas == 2^ManBits
-----------------------------------------------------------------------------
(* Division, and the powers of two.                                         *)

LEMMA Division ==
  ASSUME NEW n \in Int, NEW d \in Nat \ {0}
  PROVE  /\ n \div d \in Int /\ (n % d) \in 0 .. d - 1
         /\ n = (d * (n \div d)) + (n % d)
OBVIOUS

LEMMA DivisionUnique ==
  ASSUME NEW n \in Int, NEW d \in Nat \ {0}, NEW q \in Int, NEW r \in 0 .. d - 1,
         n = (d * q) + r
  PROVE  n \div d = q /\ n % d = r
<1>1. n \div d = q
  OBVIOUS
<1>2. n % d = r
  OBVIOUS
<1>3. QED
  BY <1>1, <1>2

(* The quotient of a number below d * n is below n. *)
LEMMA QuotientBelow ==
  ASSUME NEW d \in Nat \ {0}, NEW n \in Nat, NEW p \in 0 .. (d * n) - 1
  PROVE  p \div d \in 0 .. n - 1 /\ (p % d) \in 0 .. d - 1 /\ p = (d * (p \div d)) + (p % d)
<1>1. PICK q \in Int, r \in 0 .. d - 1 : p = (d * q) + r /\ q = p \div d /\ r = p % d
  <2>1. p \in Int
    OBVIOUS
  <2>2. QED
    BY <2>1, Division
<1>2. q >= 0
  <2>1. SUFFICES ASSUME q <= -1 PROVE FALSE
    BY <1>1
  <2>2. d * q <= d * (-1)
    BY <2>1
  <2>3. QED
    BY <1>1, <2>2
<1>3. q < n
  <2>1. SUFFICES ASSUME q >= n PROVE FALSE
    BY <1>1
  <2>2. d * q >= d * n
    BY <2>1
  <2>3. QED
    BY <1>1, <2>2
<1>4. QED
  BY <1>1, <1>2, <1>3

LEMMA Distributes ==
  ASSUME NEW x \in Int, NEW y \in Int, NEW d \in Int
  PROVE  d * (x + y) = (d * x) + (d * y) /\ (x + y) * d = (x * d) + (y * d)
OBVIOUS

LEMMA Cancel ==
  ASSUME NEW a \in Int, NEW c \in Int, NEW x \in Nat \ {0}
  PROVE  /\ a * x <= c * x <=> a <= c
         /\ a * x < c * x <=> a < c
         /\ a * x \in Int /\ c * x \in Int
<1>1. a <= c => a * x <= c * x
  OBVIOUS
<1>2. c <= a => c * x <= a * x
  OBVIOUS
<1>3. a * x = c * x => a = c
  OBVIOUS
<1>4. a * x \in Int /\ c * x \in Int
  OBVIOUS
<1>5. QED
  BY <1>1, <1>2, <1>3, <1>4

LEMMA PowersAdd ==
  ASSUME Format, NEW a \in Nat, NEW b \in Nat, a + b <= MaxBits
  PROVE  2^(a + b) = 2^a * 2^b /\ 2^a \in Nat \ {0} /\ 2^b \in Nat \ {0} /\ 2^(a + b) \in Nat \ {0}
<1>1. /\ a \in 0 .. MaxBits /\ b \in 0 .. MaxBits - a /\ b \in 0 .. MaxBits
      /\ a + b \in 0 .. MaxBits
  BY DEF Format
<1>2. QED
  BY <1>1 DEF PowersOfTwo, Format

(* A power of two is twice the one before.                                  *)
LEMMA PowerHalved ==
  ASSUME Format, NEW n \in Nat, n >= 1, n <= MaxBits
  PROVE  2^n = 2 * 2^(n - 1) /\ 2^(n - 1) \in Nat \ {0} /\ 2^n \in Nat \ {0}
<1>1. PICK j \in Nat : j = n - 1 /\ n = j + 1 /\ j + 1 <= MaxBits
  OBVIOUS
<1>2. 2^(j + 1) = 2^j * 2^1 /\ 2^j \in Nat \ {0} /\ 2^(j + 1) \in Nat \ {0}
  <2>1. 1 \in Nat
    OBVIOUS
  <2>2. QED
    BY <1>1, <2>1, PowersAdd
<1>3. 2^1 = 2
  OBVIOUS
<1>4. PICK a \in Nat \ {0} : a = 2^j
  BY <1>2
<1>5. a * 2 = 2 * a
  OBVIOUS
<1>6. QED
  BY <1>1, <1>2, <1>3, <1>4, <1>5

(* A unit of 2^(e + d) is a number of units of 2^e.                          *)
LEMMA Units ==
  ASSUME Format, NEW b \in Int, NEW e \in Int, NEW d \in Nat, e >= b, e + d - b <= MaxBits
  PROVE  /\ 2^(e + d - b) = 2^d * 2^(e - b)
         /\ 2^d \in Nat \ {0} /\ 2^(e - b) \in Nat \ {0} /\ 2^(e + d - b) \in Nat \ {0}
<1>1. PICK j \in Nat : j = e - b /\ d + j = e + d - b /\ d + j <= MaxBits
  OBVIOUS
<1>2. 2^(d + j) = 2^d * 2^j /\ 2^d \in Nat \ {0} /\ 2^j \in Nat \ {0} /\ 2^(d + j) \in Nat \ {0}
  BY <1>1, PowersAdd
<1>3. QED
  BY <1>1, <1>2

LEMMA PowersGrow ==
  ASSUME Format, NEW a \in 0 .. MaxBits, NEW b \in 0 .. MaxBits
  PROVE  /\ 2^a \in Nat \ {0} /\ 2^b \in Nat \ {0}
         /\ a <= b => 2^a <= 2^b
         /\ a < b => 2 * 2^a <= 2^b
<1>1. MaxBits \in Nat
  BY DEF Format
<1>2. 2^a \in Nat \ {0} /\ 2^b \in Nat \ {0}
  BY DEF Format, PowersOfTwo
<1>3. ASSUME a <= b PROVE 2^a <= 2^b
  <2>1. PICK d \in Nat : a + d = b /\ a \in Nat
    BY <1>1, <1>3
  <2>2. 2^b = 2^a * 2^d /\ 2^d \in Nat \ {0}
    <3>1. 2^(a + d) = 2^a * 2^d /\ 2^d \in Nat \ {0}
      BY <1>1, <2>1, PowersAdd
    <3>2. QED
      BY <2>1, <3>1
  <2>3. PICK x \in Nat \ {0}, y \in Nat \ {0} : x = 2^a /\ y = 2^d
    BY <1>2, <2>2
  <2>4. x * y >= x
    OBVIOUS
  <2>5. QED
    BY <2>2, <2>3, <2>4
<1>4. ASSUME a < b PROVE 2 * 2^a <= 2^b
  <2>1. PICK d \in Nat : (a + 1) + d = b /\ a \in Nat
    BY <1>1, <1>4
  <2>2. 2^((a + 1) + d) = 2^(a + 1) * 2^d /\ 2^d \in Nat \ {0} /\ 2^(a + 1) \in Nat \ {0}
    BY <1>1, <2>1, PowersAdd
  <2>3. 2^(a + 1) = 2 * 2^a
    <3>1. a + 1 \in Nat /\ a + 1 >= 1 /\ a + 1 <= MaxBits /\ (a + 1) - 1 = a
      BY <1>1, <2>1
    <3>2. QED
      BY <3>1, PowerHalved
  <2>4. PICK x \in Nat \ {0}, y \in Nat \ {0} : x = 2^(a + 1) /\ y = 2^d
    BY <2>2
  <2>5. x * y >= x
    OBVIOUS
  <2>6. QED
    BY <2>1, <2>2, <2>3, <2>4, <2>5
<1>5. QED
  BY <1>2, <1>3, <1>4

(* The number of bits of a number.                                          *)
LEMMA Bits ==
  ASSUME Format, NEW n \in 1 .. 2^MaxBits - 1
  PROVE  /\ BitLength(n) \in 1 .. MaxBits
         /\ 2^(BitLength(n) - 1) <= n /\ n < 2^BitLength(n)
<1>1. MaxBits \in Nat /\ 2^MaxBits \in Nat \ {0} /\ 2^0 = 1
  <2>1. MaxBits \in Nat /\ MaxBits \in 0 .. MaxBits
    BY DEF Format
  <2>2. QED
    BY <2>1, PowersGrow
<1> DEFINE T == {len \in 0 .. MaxBits : n < 2^len}
           R == OpToRel(<, Nat)
<1>2. PICK len \in T : \A j \in T : ~ (<<j, len>> \in R)
  <2>1. T \subseteq Nat /\ T # {}
    <3>1. MaxBits \in T
      BY <1>1
    <3>2. QED
      BY <1>1, <3>1
  <2>2. IsWellFoundedOn(R, Nat)
    BY NatLessThanWellFounded
  <2>3. QED
    BY <2>1, <2>2, WFMin, Zenon
<1>3. len # 0
  <2>1. SUFFICES ASSUME len = 0 PROVE FALSE
    OBVIOUS
  <2>2. 2^len = 2^0
    BY <2>1, Zenon
  <2>3. 2^0 = 1
    OBVIOUS
  <2>4. 2^len = 1 /\ n < 2^len
    BY <1>2, <2>2, <2>3
  <2>5. QED
    BY <2>4
<1>4. len \in 1 .. MaxBits /\ len - 1 \in 0 .. MaxBits /\ n < 2^len
  <2>1. len \in 0 .. MaxBits /\ n < 2^len
    BY <1>2
  <2>2. len \in 1 .. MaxBits /\ len - 1 \in 0 .. MaxBits
    BY <1>1, <1>3, <2>1
  <2>3. QED
    BY <2>1, <2>2
<1>5. len - 1 \notin T
  <2>1. len - 1 \in Nat /\ len \in Nat /\ len - 1 < len
    BY <1>1, <1>4
  <2>2. <<len - 1, len>> \in R
    BY <2>1 DEF OpToRel
  <2>3. QED
    BY <1>2, <2>2
<1>6. 2^(len - 1) \in Nat
  BY <1>1, <1>4, PowersGrow
<1>7. 2^(len - 1) <= n
  BY <1>4, <1>5, <1>6
<1>8. \E k \in 1 .. MaxBits : 2^(k - 1) <= n /\ n < 2^k
  BY <1>4, <1>7
<1>9. BitLength(n) = CHOOSE k \in 1 .. MaxBits : 2^(k - 1) <= n /\ n < 2^k
  <2>1. n # 0
    OBVIOUS
  <2>2. QED
    BY <2>1, Zenon DEF BitLength
<1>10. QED
  BY <1>8, <1>9
-----------------------------------------------------------------------------
(* The parts of a pattern.                                                  *)

LEMMA Sizes ==
  ASSUME Format
  PROVE  /\ MaxBits \in Nat /\ ManBits \in Nat /\ ManBits >= 1
         /\ Fields \in Nat /\ Fields >= 4 /\ Mantissas \in Nat /\ Mantissas >= 2
         /\ 2^(ManBits - 1) \in Nat \ {0} /\ Mantissas = 2 * 2^(ManBits - 1)
         /\ SignMask = Fields * Mantissas /\ SignMask \in Nat \ {0}
         /\ ExpOnes = Fields - 1
         /\ PosInf = (Fields - 1) * Mantissas /\ PosInf \in Nat /\ PosInf < SignMask
         /\ Bias \in Nat \ {0} /\ Fields = 2 * (Bias + 1)
         /\ MinExp = 1 - Bias - ManBits /\ MinExp \in Int
<1>1. /\ ExpBits \in Nat /\ ExpBits >= 2 /\ ManBits \in Nat /\ ManBits >= 1 /\ MaxBits \in Nat
      /\ ExpBits + ManBits <= MaxBits
  BY DEF Format
<1>2. /\ 2^ExpBits = 2 * 2^(ExpBits - 1) /\ 2^(ExpBits - 1) \in Nat \ {0}
      /\ 2^(ExpBits - 1) = 2 * 2^((ExpBits - 1) - 1) /\ 2^((ExpBits - 1) - 1) \in Nat \ {0}
  <2>1. ExpBits <= MaxBits /\ ExpBits - 1 \in Nat /\ ExpBits - 1 >= 1 /\ ExpBits - 1 <= MaxBits
    BY <1>1
  <2>2. QED
    BY <1>1, <2>1, PowerHalved
<1>3. Bias \in Nat \ {0} /\ Fields = 2 * (Bias + 1) /\ Fields \in Nat /\ Fields >= 4
  BY <1>2 DEF Bias, Fields
<1>4. /\ Mantissas = 2 * 2^(ManBits - 1) /\ 2^(ManBits - 1) \in Nat \ {0}
      /\ Mantissas \in Nat /\ Mantissas >= 2
  <2>1. 2^ManBits = 2 * 2^(ManBits - 1) /\ 2^(ManBits - 1) \in Nat \ {0}
    BY <1>1, PowerHalved
  <2>2. QED
    BY <2>1 DEF Mantissas
<1>5. SignMask = Fields * Mantissas /\ SignMask \in Nat \ {0}
  BY <1>1, PowersAdd DEF SignMask, Fields, Mantissas
<1>6. ExpOnes = Fields - 1 /\ PosInf = (Fields - 1) * Mantissas
  BY DEF ExpOnes, PosInf, Fields, Mantissas
<1>7. PosInf \in Nat /\ PosInf < SignMask
  <2>1. (Fields - 1) * Mantissas = Fields * Mantissas - Mantissas /\ (Fields - 1) * Mantissas \in Nat
    BY <1>3, <1>4
  <2>2. QED
    BY <1>4, <1>5, <1>6, <2>1
<1>8. MinExp = 1 - Bias - ManBits /\ MinExp \in Int
  BY <1>1, <1>3 DEF MinExp
<1>9. QED
  BY <1>1, <1>3, <1>4, <1>5, <1>6, <1>7, <1>8

(* Sign and magnitude. *)
LEMMA Signed ==
  ASSUME Format, NEW s \in 0 .. 1, NEW n \in 0 .. SignMask - 1, NEW u, u = WithSign(s, n)
  PROVE  u \in Patterns /\ Sign(u) = s /\ Magnitude(u) = n
<1>1. PICK mask \in Nat \ {0} : mask = SignMask
  BY Sizes
<1>2. mask * s \in Nat /\ s * mask = mask * s /\ mask * s <= mask
  OBVIOUS
<1>3. u = (mask * s) + n /\ u \in Int /\ n \in 0 .. mask - 1
  BY <1>1, <1>2 DEF WithSign
<1>4. u \div mask = s /\ u % mask = n
  <2>1. s \in Int
    OBVIOUS
  <2>2. QED
    BY <1>3, <2>1, DivisionUnique
<1>5. u \in 0 .. (2 * mask) - 1
  BY <1>2, <1>3
<1>6. QED
  BY <1>1, <1>4, <1>5 DEF Patterns, Sign, Magnitude

LEMMA SignApart ==
  ASSUME Format, NEW u \in Patterns
  PROVE  /\ Sign(u) \in 0 .. 1 /\ Magnitude(u) \in 0 .. SignMask - 1
         /\ u = WithSign(Sign(u), Magnitude(u))
<1>1. PICK mask \in Nat \ {0} : mask = SignMask
  BY Sizes
<1>2. u \in 0 .. (mask * 2) - 1
  BY <1>1 DEF Patterns
<1>3. PICK q \in 0 .. 1, r \in 0 .. mask - 1 : u = (mask * q) + r /\ q = u \div mask /\ r = u % mask
  BY <1>2, QuotientBelow
<1>4. q * mask = mask * q
  OBVIOUS
<1>5. QED
  BY <1>1, <1>3, <1>4 DEF Sign, Magnitude, WithSign

(* A magnitude is put together from a field and a significand, and the       *)
(* accessors read the same of it with either sign.                          *)
LEMMA MagnitudeParts ==
  ASSUME Format, NEW field \in 0 .. Fields - 1, NEW man \in 0 .. Mantissas - 1,
         NEW s \in 0 .. 1, NEW r, r = (Mantissas * field) + man, NEW u, u = WithSign(s, r)
  PROVE  /\ r \in 0 .. SignMask - 1 /\ u \in Patterns /\ Sign(u) = s /\ Magnitude(u) = r
         /\ Field(u) = field /\ Mantissa(u) = man
         /\ Significand(u) = IF field = 0 THEN man ELSE Mantissas + man
         /\ Exponent(u) = IF field = 0 THEN MinExp ELSE MinExp + field - 1
<1>1. PICK m \in Nat \ {0}, f \in Nat \ {0} : m = Mantissas /\ f = Fields /\ SignMask = f * m
  BY Sizes
<1>2. PICK a \in Int : a = m * field /\ a >= 0 /\ a <= f * m - m
  <2>1. m * field <= m * (f - 1) /\ m * (f - 1) = f * m - m /\ m * field \in Nat
    BY <1>1
  <2>2. QED
    BY <2>1
<1>3. r \in 0 .. SignMask - 1
  BY <1>1, <1>2
<1>4. u \in Patterns /\ Sign(u) = s /\ Magnitude(u) = r
  BY <1>3, Signed
<1>5. Field(u) = field
  <2>1. r \in Int /\ field \in Int /\ man \in 0 .. m - 1 /\ r = (m * field) + man
    BY <1>1, <1>2
  <2>2. r \div m = field
    BY <2>1, DivisionUnique
  <2>3. QED
    BY <1>1, <1>4, <2>2 DEF Field, Mantissas
<1>6. Mantissa(u) = man
  <2>1. PICK n \in Int : n = (f * s) + field
    BY <1>1
  <2>2. m * n = (m * (f * s)) + (m * field) /\ m * (f * s) = s * (f * m)
    <3>1. f * s \in Int /\ field \in Int
      BY <1>1
    <3>2. m * n = (m * (f * s)) + (m * field)
      BY <2>1, <3>1, Distributes
    <3>3. m * (f * s) = s * (f * m)
      OBVIOUS
    <3>4. QED
      BY <3>2, <3>3
  <2>3. u \in Int /\ u = (m * n) + man
    <3>1. s * (f * m) \in Int /\ u = s * (f * m) + (m * field + man)
      BY <1>1 DEF WithSign
    <3>2. QED
      BY <1>1, <1>2, <2>2, <3>1
  <2>4. man \in 0 .. m - 1
    BY <1>1
  <2>5. u % m = man
    BY <2>1, <2>3, <2>4, DivisionUnique
  <2>6. QED
    BY <1>1, <2>5 DEF Mantissa, Mantissas
<1>7. Significand(u) = IF field = 0 THEN man ELSE Mantissas + man
  BY <1>5, <1>6 DEF Significand, Mantissas
<1>8. Exponent(u) = IF field = 0 THEN MinExp ELSE MinExp + field - 1
  <2>1. Exponent(u) = (IF field = 0 THEN 1 ELSE field) - Bias - ManBits
    BY <1>5 DEF Exponent
  <2>2. QED
    BY <2>1, Sizes
<1>9. QED
  BY <1>3, <1>4, <1>5, <1>6, <1>7, <1>8

LEMMA MagnitudeApart ==
  ASSUME Format, NEW r \in 0 .. SignMask - 1
  PROVE  \E field \in 0 .. Fields - 1, man \in 0 .. Mantissas - 1 : r = (Mantissas * field) + man
<1>1. PICK m \in Nat \ {0}, f \in Nat \ {0} : m = Mantissas /\ f = Fields /\ SignMask = f * m
  BY Sizes
<1>2. r \in 0 .. (m * f) - 1
  BY <1>1
<1>3. r \div m \in 0 .. f - 1 /\ (r % m) \in 0 .. m - 1 /\ r = (m * (r \div m)) + (r % m)
  BY <1>2, QuotientBelow
<1>4. QED
  BY <1>1, <1>3

(* The accessors of a pattern, from its magnitude.                          *)
LEMMA PatternParts ==
  ASSUME Format, NEW u \in Patterns
  PROVE  \E field \in 0 .. Fields - 1, man \in 0 .. Mantissas - 1 :
           /\ Magnitude(u) = (Mantissas * field) + man
           /\ Field(u) = field /\ Mantissa(u) = man
           /\ Significand(u) = IF field = 0 THEN man ELSE Mantissas + man
           /\ Exponent(u) = IF field = 0 THEN MinExp ELSE MinExp + field - 1
<1>1. PICK s \in 0 .. 1, r \in 0 .. SignMask - 1 :
        s = Sign(u) /\ r = Magnitude(u) /\ u = WithSign(s, r)
  BY SignApart
<1>2. PICK field \in 0 .. Fields - 1, man \in 0 .. Mantissas - 1 : r = (Mantissas * field) + man
  BY MagnitudeApart
<1>3. /\ Field(u) = field /\ Mantissa(u) = man
      /\ Significand(u) = IF field = 0 THEN man ELSE Mantissas + man
      /\ Exponent(u) = IF field = 0 THEN MinExp ELSE MinExp + field - 1
  BY <1>1, <1>2, MagnitudeParts
<1>4. QED
  BY <1>1, <1>2, <1>3

-----------------------------------------------------------------------------
(* Reals as numbers of units of 2^b.                                        *)

At(num, ex, b) == num * 2^(ex - b)

(* A unit fine enough for half a place of every magnitude.                  *)
Base(b) == b \in Int /\ b <= MinExp - 1 /\ MinExp + Fields - b <= MaxBits

(* Comparing two reals is comparing their units.                            *)
LEMMA InUnits ==
  ASSUME Format, NEW n1 \in Nat, NEW n2 \in Nat, NEW e1 \in Int, NEW e2 \in Int, NEW b \in Int,
         e1 - b \in 0 .. MaxBits, e2 - b \in 0 .. MaxBits
  PROVE  /\ LeqAt(n1, e1, n2, e2) <=> At(n1, e1, b) <= At(n2, e2, b)
         /\ At(n1, e1, b) \in Nat /\ At(n2, e2, b) \in Nat
<1>1. MaxBits \in Nat
  BY Sizes
<1>2. CASE e1 >= e2
  <2>1. PICK d \in Nat : d = e1 - e2
    BY <1>2
  <2>2. e1 = e2 + d /\ e2 >= b /\ e2 + d - b <= MaxBits
    BY <1>1, <2>1
  <2>3. 2^(e2 + d - b) = 2^d * 2^(e2 - b) /\ 2^d \in Nat \ {0} /\ 2^(e2 - b) \in Nat \ {0}
    BY <2>2, Units
  <2>4. PICK x \in Nat \ {0}, y \in Nat \ {0} : x = 2^(e2 - b) /\ y = 2^d /\ 2^(e1 - b) = y * x
    BY <2>2, <2>3
  <2>5. LeqAt(n1, e1, n2, e2) <=> n1 * y <= n2
    BY <1>2, <2>1, <2>4 DEF LeqAt
  <2>6. PICK z \in Nat : z = n1 * y
    BY <2>4
  <2>7. z * x <= n2 * x <=> z <= n2
    BY Cancel
  <2>8. n1 * (y * x) = z * x /\ z * x \in Nat /\ n2 * x \in Nat
    BY <2>6
  <2>9. At(n1, e1, b) = z * x /\ At(n2, e2, b) = n2 * x
    BY <2>4, <2>8 DEF At
  <2>10. QED
    BY <2>5, <2>6, <2>7, <2>8, <2>9
<1>3. CASE e1 < e2
  <2>1. PICK d \in Nat : d = e2 - e1
    BY <1>3
  <2>2. e2 = e1 + d /\ e1 >= b /\ e1 + d - b <= MaxBits
    BY <1>1, <2>1
  <2>3. 2^(e1 + d - b) = 2^d * 2^(e1 - b) /\ 2^d \in Nat \ {0} /\ 2^(e1 - b) \in Nat \ {0}
    BY <2>2, Units
  <2>4. PICK x \in Nat \ {0}, y \in Nat \ {0} : x = 2^(e1 - b) /\ y = 2^d /\ 2^(e2 - b) = y * x
    BY <2>2, <2>3
  <2>5. LeqAt(n1, e1, n2, e2) <=> n1 <= n2 * y
    BY <1>3, <2>1, <2>4 DEF LeqAt
  <2>6. PICK z \in Nat : z = n2 * y
    BY <2>4
  <2>7. n1 * x <= z * x <=> n1 <= z
    BY Cancel
  <2>8. n2 * (y * x) = z * x /\ z * x \in Nat /\ n1 * x \in Nat
    BY <2>6
  <2>9. At(n2, e2, b) = z * x /\ At(n1, e1, b) = n1 * x
    BY <2>4, <2>8 DEF At
  <2>10. QED
    BY <2>5, <2>6, <2>7, <2>8, <2>9
<1>4. QED
  BY <1>2, <1>3
-----------------------------------------------------------------------------
(* The values of magnitudes, and the midpoints between them.                *)

Val(r, b) == Significand(r) * 2^(Exponent(r) - b)
HalfPlace(r, b) == 2^(Exponent(r) - 1 - b)
Mid(r, b) == (2 * Significand(r) + 1) * 2^(Exponent(r) - 1 - b)

(* The magnitude a value is nearest to, the even one of two.                *)
Nearest(v, b, r) ==
  /\ r \in 0 .. PosInf
  /\ r # PosInf => v <= Mid(r, b) /\ (r % 2 = 1 => v < Mid(r, b))
  /\ r # 0 => Mid(r - 1, b) <= v /\ (r % 2 = 1 => Mid(r - 1, b) < v)

LEMMA MagnitudeValue ==
  ASSUME Format, NEW r \in 0 .. PosInf, NEW b, Base(b)
  PROVE  /\ b \in Int /\ MaxBits \in Nat
         /\ Significand(r) \in 0 .. 2 * Mantissas - 1 /\ Significand(r) \in Nat
         /\ Significand(r) % 2 = r % 2
         /\ Exponent(r) \in MinExp .. MinExp + Fields - 2 /\ Exponent(r) \in Int
         /\ Exponent(r) - 1 - b \in 0 .. MaxBits /\ Exponent(r) - b \in 0 .. MaxBits
         /\ HalfPlace(r, b) \in Nat \ {0}
         /\ 2^(Exponent(r) - b) = 2 * HalfPlace(r, b)
         /\ Val(r, b) = (2 * Significand(r)) * HalfPlace(r, b) /\ Val(r, b) \in Nat
         /\ Mid(r, b) = Val(r, b) + HalfPlace(r, b) /\ Mid(r, b) \in Nat
<1>1. /\ r \in 0 .. SignMask - 1 /\ Fields \in Nat /\ Fields >= 4 /\ Mantissas \in Nat
      /\ Mantissas >= 2 /\ MinExp \in Int /\ MaxBits \in Nat
      /\ 2^(ManBits - 1) \in Nat /\ Mantissas = 2 * 2^(ManBits - 1)
  BY Sizes
<1>2. PICK field \in 0 .. Fields - 1, man \in 0 .. Mantissas - 1 : r = (Mantissas * field) + man
  BY <1>1, MagnitudeApart
<1>3. r = WithSign(0, r)
  BY <1>1, Sizes DEF WithSign
<1>4. /\ Significand(r) = IF field = 0 THEN man ELSE Mantissas + man
      /\ Exponent(r) = IF field = 0 THEN MinExp ELSE MinExp + field - 1
  <2>1. 0 \in 0 .. 1
    OBVIOUS
  <2>2. QED
    BY <1>2, <1>3, <2>1, MagnitudeParts
<1>5. PICK s \in 0 .. 2 * Mantissas - 1 : s = Significand(r) /\ s \in Nat
  BY <1>1, <1>4
<1>6. PICK x \in MinExp .. MinExp + Fields - 2 : x = Exponent(r) /\ x \in Int
  BY <1>1, <1>4
<1>7. s % 2 = r % 2
  <2>1. PICK h \in Nat : Mantissas = 2 * h
    BY <1>1
  <2>2. (2 * h) * field = 2 * (h * field) /\ h * field \in Int
    OBVIOUS
  <2>3. PICK n \in Int : n = h * field
    BY <2>2
  <2>4. r = 2 * n + man /\ (s = man \/ s = 2 * h + man) /\ man \in Int
    BY <1>2, <1>4, <1>5, <2>1, <2>2, <2>3
  <2>5. QED
    BY <2>4
<1>8. b \in Int /\ x - 1 - b \in 0 .. MaxBits /\ x - b \in 0 .. MaxBits
  BY <1>1, <1>6 DEF Base
<1>9. x - b \in Nat /\ x - b >= 1 /\ x - b <= MaxBits /\ (x - b) - 1 = x - 1 - b
  BY <1>8
<1>10. PICK h \in Nat \ {0} : h = 2^(x - 1 - b) /\ 2^(x - b) = 2 * h
  <2>1. 2^(x - b) = 2 * 2^((x - b) - 1) /\ 2^((x - b) - 1) \in Nat \ {0}
    BY <1>9, PowerHalved
  <2>2. QED
    BY <1>9, <2>1
<1>11. s * (2 * h) = (2 * s) * h /\ (2 * s + 1) * h = (2 * s) * h + h /\ (2 * s) * h \in Nat
  OBVIOUS
<1>12. HalfPlace(r, b) = h /\ Val(r, b) = s * (2 * h) /\ Mid(r, b) = (2 * s + 1) * h
  BY <1>5, <1>6, <1>10 DEF HalfPlace, Val, Mid
<1>13. QED
  BY <1>1, <1>5, <1>6, <1>7, <1>8, <1>10, <1>11, <1>12

(* The next magnitude is a place further, also in the next binade.           *)
LEMMA NextValue ==
  ASSUME Format, NEW n \in 0 .. PosInf - 1, NEW b, Base(b)
  PROVE  /\ n + 1 \in 0 .. PosInf /\ n \in 0 .. PosInf
         /\ Val(n + 1, b) = Val(n, b) + 2 * HalfPlace(n, b)
         /\ HalfPlace(n + 1, b) \in {HalfPlace(n, b), 2 * HalfPlace(n, b)}
         /\ Mid(n, b) < Val(n + 1, b) /\ Val(n, b) < Mid(n, b)
<1>1. /\ n \in 0 .. PosInf /\ n + 1 \in 0 .. PosInf
      /\ n \in 0 .. SignMask - 1 /\ n + 1 \in 0 .. SignMask - 1
      /\ Mantissas \in Nat /\ Mantissas >= 2 /\ Fields \in Nat /\ MinExp \in Int
  BY Sizes
<1>2. PICK s \in Nat, h \in Nat \ {0} :
        /\ s = Significand(n) /\ h = HalfPlace(n, b)
        /\ Val(n, b) = (2 * s) * h /\ Mid(n, b) = (2 * s) * h + h
  BY <1>1, MagnitudeValue
<1>3. PICK t \in Nat, g \in Nat \ {0} :
        t = Significand(n + 1) /\ g = HalfPlace(n + 1, b) /\ Val(n + 1, b) = (2 * t) * g
  BY <1>1, MagnitudeValue
<1>4. PICK f1 \in 0 .. Fields - 1, m1 \in 0 .. Mantissas - 1 : n = (Mantissas * f1) + m1
  BY <1>1, MagnitudeApart
<1>5. n = WithSign(0, n) /\ n + 1 = WithSign(0, n + 1) /\ 0 \in 0 .. 1
  BY <1>1, Sizes DEF WithSign
<1>6. /\ s = IF f1 = 0 THEN m1 ELSE Mantissas + m1
      /\ Exponent(n) = IF f1 = 0 THEN MinExp ELSE MinExp + f1 - 1
  BY <1>2, <1>4, <1>5, MagnitudeParts
<1>7. CASE m1 < Mantissas - 1
  <2>1. m1 + 1 \in 0 .. Mantissas - 1 /\ n + 1 = (Mantissas * f1) + (m1 + 1)
    BY <1>1, <1>4, <1>7
  <2>2. /\ t = IF f1 = 0 THEN m1 + 1 ELSE Mantissas + (m1 + 1)
        /\ Exponent(n + 1) = IF f1 = 0 THEN MinExp ELSE MinExp + f1 - 1
    BY <1>3, <1>5, <2>1, MagnitudeParts
  <2>3. t = s + 1
    BY <1>1, <1>6, <2>2
  <2>4. g = h
    BY <1>2, <1>3, <1>6, <2>2 DEF HalfPlace
  <2>5. (2 * (s + 1)) * h = (2 * s) * h + 2 * h
    OBVIOUS
  <2>6. QED
    BY <1>1, <1>2, <1>3, <2>3, <2>4, <2>5
<1>8. CASE m1 = Mantissas - 1
  <2>1. PICK m \in Nat : m = Mantissas /\ m >= 2
    BY <1>1
  <2>2. m * (f1 + 1) = m * f1 + m /\ m * f1 \in Int
    OBVIOUS
  <2>3. n + 1 = (Mantissas * (f1 + 1)) + 0 /\ 0 \in 0 .. Mantissas - 1
    BY <1>4, <1>8, <2>1, <2>2
  <2>4. f1 + 1 \in 0 .. Fields - 1
    <3>1. SUFFICES ASSUME f1 = Fields - 1 PROVE FALSE
      BY <1>1
    <3>2. n = m * (Fields - 1) + (m - 1) /\ PosInf = (Fields - 1) * m
      BY <1>4, <1>8, <2>1, <3>1, Sizes
    <3>3. m * (Fields - 1) = (Fields - 1) * m /\ (Fields - 1) * m \in Int
      BY <1>1
    <3>4. QED
      BY <2>1, <3>2, <3>3
  <2>5. t = Mantissas /\ Exponent(n + 1) = MinExp + f1
    <3>1. /\ t = IF f1 + 1 = 0 THEN 0 ELSE Mantissas + 0
          /\ Exponent(n + 1) = IF f1 + 1 = 0 THEN MinExp ELSE MinExp + (f1 + 1) - 1
      BY <1>3, <1>5, <2>3, <2>4, MagnitudeParts
    <3>2. QED
      BY <1>1, <3>1
  <2>6. CASE f1 = 0
    <3>1. s = m - 1 /\ t = s + 1 /\ Exponent(n + 1) = Exponent(n)
      BY <1>1, <1>6, <1>8, <2>1, <2>5, <2>6
    <3>2. g = h
      BY <1>2, <1>3, <3>1 DEF HalfPlace
    <3>3. (2 * (s + 1)) * h = (2 * s) * h + 2 * h
      OBVIOUS
    <3>4. QED
      BY <1>1, <1>2, <1>3, <3>1, <3>2, <3>3
  <2>7. CASE f1 # 0
    <3>1. s = 2 * m - 1 /\ t = m /\ Exponent(n + 1) = Exponent(n) + 1
      BY <1>1, <1>6, <1>8, <2>1, <2>5, <2>7
    <3>2. g = 2 * h
      <4>1. Exponent(n) \in Int /\ b \in Int /\ 2^(Exponent(n) - b) = 2 * h
        BY <1>1, <1>2, MagnitudeValue
      <4>2. Exponent(n + 1) - 1 - b = Exponent(n) - b
        BY <3>1, <4>1
      <4>3. QED
        BY <1>3, <4>1, <4>2 DEF HalfPlace
    <3>3. (2 * m) * (2 * h) = (2 * (s + 1)) * h
      BY <2>1, <3>1
    <3>4. (2 * (s + 1)) * h = (2 * s) * h + 2 * h /\ (2 * s) * h \in Int
      OBVIOUS
    <3>5. QED
      BY <1>1, <1>2, <1>3, <3>1, <3>2, <3>3, <3>4
  <2>8. QED
    BY <2>6, <2>7
<1>9. QED
  BY <1>1, <1>7, <1>8

(* Magnitudes are in the order of their values: there is no first one that   *)
(* is not.                                                                  *)
LEMMA ValuesGrow ==
  ASSUME Format, NEW b, Base(b), NEW m \in 0 .. PosInf, NEW n \in 0 .. PosInf, m <= n
  PROVE  Val(m, b) <= Val(n, b)
<1> DEFINE T == {r \in 0 .. PosInf : m <= r /\ ~ (Val(m, b) <= Val(r, b))}
           R == OpToRel(<, Nat)
<1>1. SUFFICES ASSUME T # {} PROVE FALSE
  OBVIOUS
<1>2. PICK r \in T : \A j \in T : ~ (<<j, r>> \in R)
  <2>1. T \subseteq Nat
    BY Sizes
  <2>2. IsWellFoundedOn(R, Nat)
    BY NatLessThanWellFounded
  <2>3. QED
    BY <1>1, <2>1, <2>2, WFMin, Zenon
<1>3. r \in 0 .. PosInf /\ m <= r /\ ~ (Val(m, b) <= Val(r, b))
  OBVIOUS
<1>4. r # m
  BY <1>3, MagnitudeValue
<1>5. PICK e \in 0 .. PosInf - 1 : r = e + 1 /\ m <= e /\ e \in Nat
  BY <1>3, <1>4, Sizes
<1>6. /\ e \in 0 .. PosInf /\ e + 1 \in 0 .. PosInf
      /\ Mid(e, b) < Val(e + 1, b) /\ Val(e, b) < Mid(e, b)
  BY NextValue
<1>7. /\ Val(e, b) \in Nat /\ Mid(e, b) \in Nat /\ Val(e + 1, b) \in Nat /\ Val(m, b) \in Nat
  BY <1>6, MagnitudeValue
<1>8. ~ (Val(m, b) <= Val(e, b))
  BY <1>3, <1>5, <1>6, <1>7
<1>9. e \in T
  BY <1>5, <1>6, <1>8
<1>10. <<e, r>> \in R
  <2>1. r \in Nat /\ e < r
    BY <1>5
  <2>2. QED
    BY <1>5, <2>1 DEF OpToRel
<1>11. QED
  BY <1>2, <1>9, <1>10

-----------------------------------------------------------------------------
(* The nearest magnitude.                                                   *)

(* Midpoints and values in turn. *)
LEMMA MidsGrow ==
  ASSUME Format, NEW b, Base(b), NEW m \in 0 .. PosInf, NEW n \in 0 .. PosInf, m < n
  PROVE  /\ Mid(m, b) < Val(n, b) /\ Mid(m, b) < Mid(n, b)
         /\ m \in 0 .. PosInf - 1 /\ n - 1 \in 0 .. PosInf /\ m <= n - 1
         /\ Mid(m, b) <= Mid(n - 1, b)
         /\ m < n - 1 => Mid(m, b) < Mid(n - 1, b)
<1>1. /\ m \in 0 .. PosInf - 1 /\ n - 1 \in 0 .. PosInf /\ m <= n - 1 /\ n - 1 \in 0 .. PosInf - 1
      /\ m + 1 \in 0 .. PosInf /\ m + 1 <= n /\ (n - 1) + 1 = n
  BY Sizes
<1>2. Mid(m, b) < Val(m + 1, b)
  BY <1>1, NextValue
<1>3. Val(m + 1, b) <= Val(n, b)
  BY <1>1, ValuesGrow
<1>4. \A r \in 0 .. PosInf : Val(r, b) \in Nat /\ Mid(r, b) \in Nat /\ Val(r, b) < Mid(r, b)
  BY MagnitudeValue
<1>5. Mid(m, b) < Val(n, b) /\ Mid(m, b) < Mid(n, b)
  BY <1>1, <1>2, <1>3, <1>4
<1>6. ASSUME m < n - 1 PROVE Mid(m, b) < Mid(n - 1, b)
  <2>1. m + 1 <= n - 1
    BY <1>1, <1>6
  <2>2. Val(m + 1, b) <= Val(n - 1, b)
    BY <1>1, <2>1, ValuesGrow
  <2>3. QED
    BY <1>1, <1>2, <1>4, <2>2
<1>7. Mid(m, b) <= Mid(n - 1, b)
  <2>1. CASE m = n - 1
    BY <1>1, <1>4, <2>1
  <2>2. CASE m < n - 1
    BY <1>1, <1>4, <1>6, <2>2
  <2>3. QED
    BY <1>1, <2>1, <2>2
<1>8. QED
  BY <1>1, <1>5, <1>6, <1>7

(* There is one.                                                            *)
LEMMA NearestUnique ==
  ASSUME Format, NEW b, Base(b), NEW v \in Nat, NEW r, NEW s, Nearest(v, b, r), Nearest(v, b, s)
  PROVE  r = s
<1>1. \A x, y : Nearest(v, b, x) /\ Nearest(v, b, y) => ~ (x < y)
  <2>1. SUFFICES ASSUME NEW x, NEW y, Nearest(v, b, x), Nearest(v, b, y), x < y PROVE FALSE
    OBVIOUS
  <2>2. /\ x \in 0 .. PosInf /\ y \in 0 .. PosInf /\ y # 0 /\ x # PosInf /\ x \in Nat /\ y \in Nat
    BY <2>1, Sizes DEF Nearest
  <2>3. /\ v <= Mid(x, b) /\ (x % 2 = 1 => v < Mid(x, b))
        /\ Mid(y - 1, b) <= v /\ (y % 2 = 1 => Mid(y - 1, b) < v)
    BY <2>1, <2>2 DEF Nearest
  <2>4. /\ Mid(x, b) <= Mid(y - 1, b) /\ (x < y - 1 => Mid(x, b) < Mid(y - 1, b))
        /\ y - 1 \in 0 .. PosInf
    BY <2>1, <2>2, MidsGrow
  <2>5. Mid(x, b) \in Nat /\ Mid(y - 1, b) \in Nat
    BY <2>2, <2>4, MagnitudeValue
  <2>6. CASE x < y - 1
    BY <2>3, <2>4, <2>5, <2>6
  <2>7. CASE x = y - 1
    <3>1. x % 2 = 1 \/ y % 2 = 1
      BY <2>2, <2>7
    <3>2. QED
      BY <2>3, <2>5, <2>7, <3>1
  <2>8. QED
    BY <2>1, <2>2, <2>6, <2>7
<1>2. r \in Int /\ s \in Int
  BY Sizes DEF Nearest
<1>3. QED
  BY <1>1, <1>2

(* Being the nearest is what the relation RoundsTo says.                    *)
LEMMA NearestRounds ==
  ASSUME Format, NEW num \in Nat, NEW ex \in Int, NEW b, Base(b), ex - b \in 0 .. MaxBits,
         NEW r \in 0 .. PosInf
  PROVE  Nearest(At(num, ex, b), b, r) <=> RoundsTo(num, ex, r)
<1>1. /\ \A p \in 0 .. PosInf :
           /\ 2 * Significand(p) + 1 \in Nat /\ Exponent(p) - 1 \in Int
           /\ (Exponent(p) - 1) - b \in 0 .. MaxBits
           /\ Mid(p, b) = At(2 * Significand(p) + 1, Exponent(p) - 1, b)
           /\ Mid(p, b) \in Nat
      /\ b \in Int
  BY MagnitudeValue DEF Mid, At
<1>2. PICK v : v = At(num, ex, b)
  OBVIOUS
<1>3. \A p \in 0 .. PosInf :
        /\ LeqAt(num, ex, 2 * Significand(p) + 1, Exponent(p) - 1) <=> v <= Mid(p, b)
        /\ LeqAt(2 * Significand(p) + 1, Exponent(p) - 1, num, ex) <=> Mid(p, b) <= v
        /\ v \in Nat
  <2>1. SUFFICES ASSUME NEW p \in 0 .. PosInf
                 PROVE  /\ LeqAt(num, ex, 2 * Significand(p) + 1, Exponent(p) - 1) <=> v <= Mid(p, b)
                        /\ LeqAt(2 * Significand(p) + 1, Exponent(p) - 1, num, ex) <=> Mid(p, b) <= v
                        /\ v \in Nat
    OBVIOUS
  <2>2. PICK n \in Nat, e \in Int : /\ n = 2 * Significand(p) + 1 /\ e = Exponent(p) - 1
                                    /\ e - b \in 0 .. MaxBits /\ Mid(p, b) = At(n, e, b)
    BY <1>1
  <2>3. LeqAt(num, ex, n, e) <=> v <= At(n, e, b)
    BY <1>1, <1>2, <2>2, InUnits
  <2>4. LeqAt(n, e, num, ex) <=> At(n, e, b) <= v
    BY <1>1, <1>2, <2>2, InUnits
  <2>5. v \in Nat
    BY <1>1, <1>2, <2>2, InUnits
  <2>6. QED
    BY <2>2, <2>3, <2>4, <2>5
<1>4. r \in Nat /\ r <= PosInf /\ v \in Nat
  BY <1>3, Sizes
<1>5. r % 2 \in {0, 1}
  BY <1>4
<1>6. (r # PosInf => v <= Mid(r, b) /\ (r % 2 = 1 => v < Mid(r, b)))
      <=> (r # PosInf =>
             IF r % 2 = 0 THEN LeqAt(num, ex, 2 * Significand(r) + 1, Exponent(r) - 1)
                          ELSE LessAt(num, ex, 2 * Significand(r) + 1, Exponent(r) - 1))
  <2>1. Mid(r, b) \in Nat
    BY <1>1
  <2>2. CASE r % 2 = 0
    BY <1>3, <2>2
  <2>3. CASE r % 2 = 1
    <3>1. LessAt(num, ex, 2 * Significand(r) + 1, Exponent(r) - 1) <=> v < Mid(r, b)
      BY <1>3, <1>4, <2>1 DEF LessAt
    <3>2. v < Mid(r, b) => v <= Mid(r, b)
      BY <1>4, <2>1
    <3>3. QED
      BY <2>3, <3>1, <3>2
  <2>4. QED
    BY <1>5, <2>2, <2>3
<1>7. (r # 0 => Mid(r - 1, b) <= v /\ (r % 2 = 1 => Mid(r - 1, b) < v))
      <=> (r # 0 =>
             IF r % 2 = 0 THEN LeqAt(2 * Significand(r - 1) + 1, Exponent(r - 1) - 1, num, ex)
                          ELSE LessAt(2 * Significand(r - 1) + 1, Exponent(r - 1) - 1, num, ex))
  <2>1. SUFFICES ASSUME r # 0
                 PROVE  (Mid(r - 1, b) <= v /\ (r % 2 = 1 => Mid(r - 1, b) < v))
                        <=> IF r % 2 = 0
                            THEN LeqAt(2 * Significand(r - 1) + 1, Exponent(r - 1) - 1, num, ex)
                            ELSE LessAt(2 * Significand(r - 1) + 1, Exponent(r - 1) - 1, num, ex)
    OBVIOUS
  <2>2. r - 1 \in 0 .. PosInf
    BY <1>4, <2>1, Sizes
  <2>3. Mid(r - 1, b) \in Nat
    BY <1>1, <2>2
  <2>4. CASE r % 2 = 0
    BY <1>3, <2>2, <2>4
  <2>5. CASE r % 2 = 1
    <3>1. LessAt(2 * Significand(r - 1) + 1, Exponent(r - 1) - 1, num, ex) <=> Mid(r - 1, b) < v
      BY <1>3, <1>4, <2>2, <2>3 DEF LessAt
    <3>2. Mid(r - 1, b) < v => Mid(r - 1, b) <= v
      BY <1>4, <2>3
    <3>3. QED
      BY <2>5, <3>1, <3>2
  <2>6. QED
    BY <1>5, <2>4, <2>5
<1>8. QED
  BY <1>2, <1>4, <1>6, <1>7 DEF Nearest, RoundsTo

(* A magnitude and the rest of the value, less than a place; past the last   *)
(* magnitude there is only infinity.                                        *)
LEMMA NearestAbove ==
  ASSUME Format, NEW b, Base(b), NEW m \in 0 .. PosInf - 1, NEW v \in Nat,
         Val(m, b) <= v, v < Val(m, b) + 2 * HalfPlace(m, b), NEW r,
         r = IF v > Mid(m, b) \/ (v = Mid(m, b) /\ m % 2 = 1) THEN m + 1 ELSE m
  PROVE  Nearest(v, b, r)
<1>1. /\ m \in 0 .. PosInf /\ m + 1 \in 0 .. PosInf /\ m \in Nat
      /\ Val(m + 1, b) = Val(m, b) + 2 * HalfPlace(m, b)
  BY NextValue, Sizes
<1>2. /\ Mid(m, b) \in Nat /\ Val(m, b) \in Nat /\ HalfPlace(m, b) \in Nat
      /\ Val(m + 1, b) \in Nat /\ Mid(m + 1, b) \in Nat /\ Val(m + 1, b) <= Mid(m + 1, b)
  BY <1>1, MagnitudeValue
<1>3. m % 2 \in {0, 1} /\ (m + 1) % 2 = 1 - (m % 2)
  BY <1>1
<1>4. CASE v > Mid(m, b) \/ (v = Mid(m, b) /\ m % 2 = 1)
  <2>1. r = m + 1 /\ r # 0 /\ r - 1 = m /\ r \in 0 .. PosInf
    BY <1>1, <1>4
  <2>2. Mid(r - 1, b) <= v /\ (r % 2 = 1 => Mid(r - 1, b) < v)
    BY <1>2, <1>3, <1>4, <2>1
  <2>3. v < Mid(r, b)
    BY <1>1, <1>2, <2>1
  <2>4. QED
    BY <1>2, <2>1, <2>2, <2>3 DEF Nearest
<1>5. CASE ~ (v > Mid(m, b) \/ (v = Mid(m, b) /\ m % 2 = 1))
  <2>1. r = m /\ r \in 0 .. PosInf
    BY <1>1, <1>5
  <2>2. v <= Mid(r, b) /\ (r % 2 = 1 => v < Mid(r, b))
    BY <1>2, <1>5, <2>1
  <2>3. ASSUME r # 0 PROVE Mid(r - 1, b) < v
    <3>1. r - 1 \in 0 .. PosInf /\ r - 1 < r
      BY <1>1, <2>1, <2>3, Sizes
    <3>2. Mid(r - 1, b) < Val(r, b) /\ Mid(r - 1, b) \in Nat
      BY <2>1, <3>1, MidsGrow, MagnitudeValue
    <3>3. QED
      BY <1>2, <2>1, <3>2
  <2>4. ASSUME r # 0 PROVE Mid(r - 1, b) \in Nat
    <3>1. r - 1 \in 0 .. PosInf
      BY <1>1, <2>1, <2>4, Sizes
    <3>2. QED
      BY <3>1, MagnitudeValue
  <2>5. QED
    BY <2>1, <2>2, <2>3, <2>4 DEF Nearest
<1>6. QED
  BY <1>4, <1>5

LEMMA NearestOverflow ==
  ASSUME Format, NEW b, Base(b), NEW v \in Nat, v >= Val(PosInf, b)
  PROVE  Nearest(v, b, PosInf)
<1>1. PosInf \in 0 .. PosInf /\ PosInf - 1 \in 0 .. PosInf - 1 /\ PosInf # 0 /\ PosInf - 1 \in 0 .. PosInf
      /\ PosInf - 1 < PosInf
  <2>1. /\ Mantissas \in Nat /\ Mantissas >= 2 /\ Fields - 1 \in Nat /\ Fields - 1 >= 3
        /\ PosInf = (Fields - 1) * Mantissas
    BY Sizes
  <2>2. (Fields - 1) * Mantissas >= 3 * Mantissas
    BY <2>1
  <2>3. QED
    BY <2>1, <2>2
<1>2. Mid(PosInf - 1, b) < Val(PosInf, b) /\ Mid(PosInf - 1, b) \in Nat /\ Val(PosInf, b) \in Nat
  BY <1>1, MidsGrow, MagnitudeValue
<1>3. QED
  BY <1>1, <1>2 DEF Nearest

-----------------------------------------------------------------------------
(* Rounding onto a grid.                                                    *)

(* The magnitude with significand q on the grid of 2^g.                     *)
LEMMA Place ==
  ASSUME Format, NEW g \in Int, g >= MinExp, NEW q \in 0 .. 2 * Mantissas - 1,
         q >= Mantissas \/ g = MinExp, NEW m, m = (g - MinExp) * Mantissas + q
  PROVE  /\ m \in Nat
         /\ m < PosInf => Significand(m) = q /\ Exponent(m) = g
         /\ m >= PosInf => q >= Mantissas /\ g >= MinExp + Fields - 2
<1>1. PICK n \in Nat, f \in Nat :
        /\ n = Mantissas /\ n >= 2 /\ f = Fields /\ f >= 4 /\ PosInf = (f - 1) * n
        /\ SignMask = f * n /\ MinExp \in Int
  <2>1. /\ Mantissas \in Nat /\ Mantissas >= 2 /\ Fields \in Nat /\ Fields >= 4
        /\ PosInf = (Fields - 1) * Mantissas /\ SignMask = Fields * Mantissas /\ MinExp \in Int
    BY Sizes
  <2>2. QED
    BY <2>1
<1>2. PICK d \in Nat : d = g - MinExp
  BY <1>1
<1>3. d * n \in Nat /\ m = d * n + q /\ m \in Nat
  BY <1>1, <1>2
<1>4. ASSUME m < PosInf PROVE Significand(m) = q /\ Exponent(m) = g
  <2>1. 0 \in 0 .. 1 /\ m = WithSign(0, m)
    BY <1>3, Sizes DEF WithSign
  <2>2. CASE q < n
    <3>1. d = 0 /\ m = q /\ m = (Mantissas * 0) + m /\ 0 \in 0 .. Fields - 1 /\ m \in 0 .. Mantissas - 1
      BY <1>1, <1>2, <1>3, <2>2
    <3>2. /\ Significand(m) = IF 0 = 0 THEN m ELSE Mantissas + m
          /\ Exponent(m) = IF 0 = 0 THEN MinExp ELSE MinExp + 0 - 1
      BY <2>1, <3>1, MagnitudeParts
    <3>3. QED
      BY <1>1, <1>2, <3>1, <3>2
  <2>3. CASE q >= n
    <3>1. q - n \in 0 .. Mantissas - 1
      BY <1>1, <2>3
    <3>2. m = (Mantissas * (d + 1)) + (q - n)
      <4>1. n * (d + 1) = d * n + n
        BY <1>1
      <4>2. QED
        BY <1>1, <1>3, <4>1
    <3>3. d + 1 \in 0 .. Fields - 1
      <4>1. SUFFICES ASSUME d >= f - 1 PROVE FALSE
        BY <1>1
      <4>2. d * n >= (f - 1) * n /\ (f - 1) * n \in Int
        BY <1>1, <4>1
      <4>3. QED
        BY <1>1, <1>3, <1>4, <4>2
    <3>4. /\ Significand(m) = IF d + 1 = 0 THEN q - n ELSE Mantissas + (q - n)
          /\ Exponent(m) = IF d + 1 = 0 THEN MinExp ELSE MinExp + (d + 1) - 1
      BY <2>1, <3>1, <3>2, <3>3, MagnitudeParts
    <3>5. QED
      BY <1>1, <1>2, <3>4
  <2>4. QED
    BY <1>1, <2>2, <2>3
<1>5. ASSUME m >= PosInf PROVE q >= Mantissas /\ g >= MinExp + Fields - 2
  <2>1. d >= f - 2
    <3>1. SUFFICES ASSUME d <= f - 3 PROVE FALSE
      BY <1>1
    <3>2. d * n <= (f - 3) * n /\ (f - 3) * n = (f - 1) * n - 2 * n /\ (f - 1) * n \in Int
      BY <1>1, <3>1
    <3>3. QED
      BY <1>1, <1>3, <1>5, <3>2
  <2>2. QED
    BY <1>1, <1>2, <2>1
<1>6. QED
  BY <1>3, <1>4, <1>5

(* The value of infinity's pattern, the first that overflows.               *)
LEMMA OverflowValue ==
  ASSUME Format, NEW b, Base(b)
  PROVE  /\ Val(PosInf, b) = Mantissas * 2^(MinExp + Fields - 2 - b)
         /\ PosInf \in 0 .. PosInf /\ MinExp + Fields - 2 - b \in 0 .. MaxBits
<1>1. /\ Mantissas \in Nat /\ Mantissas >= 2 /\ Fields \in Nat /\ Fields >= 4
      /\ PosInf = (Fields - 1) * Mantissas /\ PosInf \in Nat /\ MinExp \in Int /\ MaxBits \in Nat
  BY Sizes
<1>2. PosInf = (Mantissas * (Fields - 1)) + 0 /\ PosInf = WithSign(0, PosInf)
  <2>1. (Fields - 1) * Mantissas = (Mantissas * (Fields - 1)) + 0
    BY <1>1
  <2>2. QED
    BY <1>1, <2>1, Sizes DEF WithSign
<1>3. PICK field \in 0 .. Fields - 1, man \in 0 .. Mantissas - 1, s \in 0 .. 1 :
        field = Fields - 1 /\ man = 0 /\ s = 0 /\ field # 0
  BY <1>1
<1>4. /\ Significand(PosInf) = IF field = 0 THEN man ELSE Mantissas + man
      /\ Exponent(PosInf) = IF field = 0 THEN MinExp ELSE MinExp + field - 1
  <2>1. PosInf = (Mantissas * field) + man /\ PosInf = WithSign(s, PosInf)
    BY <1>2, <1>3
  <2>2. QED
    BY <2>1, MagnitudeParts
<1>5. Significand(PosInf) = Mantissas /\ Exponent(PosInf) - b = MinExp + Fields - 2 - b
  BY <1>1, <1>3, <1>4 DEF Base
<1>6. MinExp + Fields - 2 - b \in 0 .. MaxBits
  BY <1>1 DEF Base
<1>7. QED
  BY <1>1, <1>5, <1>6 DEF Val

(* A value in a place of the grid 2^g: q whole places and the rest of one,   *)
(* compared with half a place.  The value overflows when the place does.     *)
LEMMA NearestOnGrid ==
  ASSUME Format, NEW b, Base(b), NEW g \in Int, g >= MinExp, g - b <= MaxBits,
         NEW q \in 0 .. 2 * Mantissas - 1, q >= Mantissas \/ g = MinExp,
         NEW h \in Nat \ {0}, 2^(g - b) = 2 * h,
         NEW rest \in 0 .. 2 * h - 1, NEW v, v = q * (2 * h) + rest,
         NEW up \in 0 .. 1, up = 1 <=> rest > h \/ (rest = h /\ q % 2 = 1),
         NEW m, m = (g - MinExp) * Mantissas + q
  PROVE  /\ m \in Nat
         /\ m < PosInf => Nearest(v, b, m + up) /\ m + up \in 0 .. PosInf
         /\ m >= PosInf => Nearest(v, b, PosInf)
         /\ v \in Nat
<1>1. /\ m \in Nat
      /\ m < PosInf => Significand(m) = q /\ Exponent(m) = g
      /\ m >= PosInf => q >= Mantissas /\ g >= MinExp + Fields - 2
  BY Place
<1>2. v \in Nat
  OBVIOUS
<1>3. ASSUME m < PosInf PROVE Nearest(v, b, m + up) /\ m + up \in 0 .. PosInf
  <2>1. m \in 0 .. PosInf /\ m \in 0 .. PosInf - 1 /\ m + up \in 0 .. PosInf
    BY <1>1, <1>3, Sizes
  <2>2. /\ 2^(g - b) = 2 * HalfPlace(m, b) /\ HalfPlace(m, b) \in Nat /\ q % 2 = m % 2
        /\ Val(m, b) = (2 * q) * HalfPlace(m, b) /\ Mid(m, b) = Val(m, b) + HalfPlace(m, b)
    BY <1>1, <1>3, <2>1, MagnitudeValue
  <2>3. HalfPlace(m, b) = h
    <3>1. 2 * HalfPlace(m, b) = 2 * h
      BY <2>2, Zenon
    <3>2. PICK x \in Nat : x = HalfPlace(m, b)
      BY <2>2
    <3>3. QED
      BY <3>1, <3>2
  <2>4. PICK a \in Nat : a = q * (2 * h) /\ a = (2 * q) * h
    OBVIOUS
  <2>5. Val(m, b) = a /\ Mid(m, b) = a + h /\ v = a + rest
    BY <2>2, <2>3, <2>4
  <2>6. Val(m, b) <= v /\ v < Val(m, b) + 2 * HalfPlace(m, b)
    BY <2>3, <2>5
  <2>7. m + up = IF v > Mid(m, b) \/ (v = Mid(m, b) /\ m % 2 = 1) THEN m + 1 ELSE m
    <3>1. v > Mid(m, b) <=> rest > h
      BY <2>5
    <3>2. v = Mid(m, b) <=> rest = h
      BY <2>5
    <3>3. up = 1 <=> v > Mid(m, b) \/ (v = Mid(m, b) /\ m % 2 = 1)
      BY <2>2, <3>1, <3>2
    <3>4. up = 1 \/ up = 0
      OBVIOUS
    <3>5. m + 1 = m + up \/ m = m + up
      BY <1>1, <3>4
    <3>6. CASE up = 1
      BY <3>3, <3>6
    <3>7. CASE up = 0
      BY <1>1, <3>3, <3>7
    <3>8. QED
      BY <3>4, <3>6, <3>7
  <2>8. Nearest(v, b, m + up)
    BY <1>2, <2>1, <2>6, <2>7, NearestAbove
  <2>9. QED
    BY <2>1, <2>8
<1>4. ASSUME m >= PosInf PROVE Nearest(v, b, PosInf)
  <2>1. PICK top \in Int : top = MinExp + Fields - 2
    BY Sizes
  <2>2. Val(PosInf, b) = Mantissas * 2^(top - b) /\ top - b \in 0 .. MaxBits
    <3>1. /\ Val(PosInf, b) = Mantissas * 2^(MinExp + Fields - 2 - b)
          /\ MinExp + Fields - 2 - b \in 0 .. MaxBits
      BY OverflowValue
    <3>2. MinExp + Fields - 2 - b = top - b
      <4>1. MinExp \in Int /\ Fields \in Int /\ b \in Int
        BY Sizes DEF Base
      <4>2. QED
        BY <2>1, <4>1
    <3>3. QED
      BY <3>1, <3>2, Zenon
  <2>3. g - b \in 0 .. MaxBits /\ top - b <= g - b /\ b \in Int
    BY <1>1, <1>4, <2>1, <2>2 DEF Base
  <2>4. 2^(top - b) <= 2^(g - b) /\ 2^(top - b) \in Nat
    BY <2>2, <2>3, PowersGrow
  <2>5. PICK x \in Nat : x = 2^(top - b) /\ x <= 2 * h
    BY <2>4
  <2>6. Mantissas \in Nat /\ q >= Mantissas
    BY <1>1, <1>4, Sizes
  <2>7. q * (2 * h) >= Mantissas * (2 * h) /\ Mantissas * (2 * h) >= Mantissas * x
    BY <2>5, <2>6
  <2>8. q * (2 * h) \in Int /\ Mantissas * (2 * h) \in Int /\ Mantissas * x \in Int
    BY <2>5, <2>6
  <2>9. v >= Val(PosInf, b)
    BY <2>2, <2>5, <2>7, <2>8
  <2>10. QED
    BY <1>2, <2>9, NearestOverflow
<1>5. QED
  BY <1>1, <1>2, <1>3, <1>4

(* A quotient rounded to nearest, ties to even: whole places and up or not.  *)
LEMMA QuotientRounds ==
  ASSUME NEW n \in Nat, NEW d \in Nat \ {0}
  PROVE  /\ n \div d \in Nat /\ (n % d) \in 0 .. d - 1 /\ n = (d * (n \div d)) + (n % d)
         /\ \E up \in 0 .. 1 :
              /\ RoundedQuotient(n, d) = n \div d + up
              /\ up = 1 <=> 2 * (n % d) > d \/ (2 * (n % d) = d /\ (n \div d) % 2 = 1)
<1>1. PICK q \in Int, r \in 0 .. d - 1 : q = n \div d /\ r = n % d /\ n = (d * q) + r
  BY Division
<1>2. q >= 0
  <2>1. SUFFICES ASSUME q <= -1 PROVE FALSE
    BY <1>1
  <2>2. d * q <= d * (-1)
    BY <2>1
  <2>3. QED
    BY <1>1, <2>2
<1>3. RoundedQuotient(n, d) = IF 2 * r > d \/ (2 * r = d /\ q % 2 = 1) THEN q + 1 ELSE q
  BY <1>1 DEF RoundedQuotient
<1>4. PICK up \in 0 .. 1 : up = 1 <=> 2 * r > d \/ (2 * r = d /\ q % 2 = 1)
  <2>1. CASE 2 * r > d \/ (2 * r = d /\ q % 2 = 1)
    BY <2>1
  <2>2. CASE ~ (2 * r > d \/ (2 * r = d /\ q % 2 = 1))
    BY <2>2
  <2>3. QED
    BY <2>1, <2>2
<1>5. RoundedQuotient(n, d) = q + up
  <2>1. CASE up = 1
    BY <1>3, <1>4, <2>1
  <2>2. CASE up = 0
    BY <1>3, <1>4, <2>2
  <2>3. QED
    BY <2>1, <2>2
<1>6. QED
  BY <1>1, <1>2, <1>4, <1>5

(* The grid of a number's binade leaves a significand of the format.        *)
Grid(num, ex) == IF ex + BitLength(num) - 1 - ManBits > MinExp
                 THEN ex + BitLength(num) - 1 - ManBits ELSE MinExp

LEMMA GridFits ==
  ASSUME Format, NEW num \in 1 .. 2^MaxBits - 1, NEW ex \in Int, ex >= MinExp - MaxBits,
         NEW g, g = Grid(num, ex)
  PROVE  /\ g \in Int /\ g >= MinExp /\ MinExp \in Int
         /\ ex >= g => /\ ex - g \in 0 .. MaxBits /\ 2^(ex - g) \in Nat \ {0}
                       /\ num * 2^(ex - g) \in 0 .. 2 * Mantissas - 1
                       /\ num * 2^(ex - g) >= Mantissas \/ g = MinExp
         /\ ex < g => /\ g - ex \in 1 .. MaxBits /\ 2^(g - ex) \in Nat \ {0}
                      /\ num \div 2^(g - ex) \in 0 .. 2 * Mantissas - 1
                      /\ num \div 2^(g - ex) >= Mantissas \/ g = MinExp
<1>1. PICK len \in 1 .. MaxBits : /\ len = BitLength(num) /\ 2^(len - 1) <= num /\ num < 2^len
                                  /\ len \in Nat
  BY Bits, Sizes
<1>2. PICK M \in Nat : M = ManBits /\ M >= 1 /\ MaxBits \in Nat /\ MinExp \in Int /\ M + 1 <= MaxBits
  BY Sizes DEF Format
<1>3. PICK lo \in Int : lo = MinExp
  BY <1>2
<1>4. g = IF ex + len - 1 - M > lo THEN ex + len - 1 - M ELSE lo
  BY <1>1, <1>2, <1>3 DEF Grid
<1>5. g \in Int /\ g >= lo /\ g >= ex + len - 1 - M
  BY <1>4
<1>6. 2^(M + 1) = 2 * Mantissas /\ Mantissas = 2^M /\ Mantissas \in Nat \ {0}
  <2>1. M + 1 \in Nat /\ M + 1 >= 1 /\ M + 1 <= MaxBits /\ (M + 1) - 1 = M
    BY <1>2
  <2>2. 2^(M + 1) = 2 * 2^M
    BY <2>1, PowerHalved
  <2>3. QED
    BY <1>2, <2>2, Sizes DEF Mantissas
<1>7. /\ 2^len \in Nat \ {0} /\ 2^(len - 1) \in Nat \ {0}
  BY <1>1, <1>2, PowersGrow
<1>8. ASSUME ex >= g
      PROVE  /\ ex - g \in 0 .. MaxBits /\ 2^(ex - g) \in Nat \ {0}
             /\ num * 2^(ex - g) \in 0 .. 2 * Mantissas - 1
             /\ num * 2^(ex - g) >= Mantissas \/ g = MinExp
  <2>1. PICK d \in Nat : d = ex - g /\ d + len <= M + 1 /\ d <= MaxBits
    BY <1>1, <1>2, <1>5, <1>8
  <2>2. PICK y \in Nat \ {0} : y = 2^d
    BY <1>2, <2>1, PowersGrow
  <2>3. num * y < 2 * Mantissas
    <3>1. 2^(len + d) = 2^len * 2^d /\ 2^(len + d) \in Nat
      BY <1>1, <1>2, <2>1, PowersAdd
    <3>2. 2^(len + d) <= 2^(M + 1)
      <4>1. len + d \in 0 .. MaxBits /\ M + 1 \in 0 .. MaxBits /\ len + d <= M + 1
        BY <1>1, <1>2, <2>1
      <4>2. QED
        BY <4>1, PowersGrow
    <3>3. PICK x \in Nat : x = 2^len /\ num < x
      BY <1>1, <1>7
    <3>4. num * y < x * y
      BY <2>2, <3>3, Cancel
    <3>5. x * y <= 2 * Mantissas /\ x * y \in Int
      BY <1>6, <2>2, <3>1, <3>2, <3>3
    <3>6. num * y \in Int /\ 2 * Mantissas \in Int
      BY <1>6
    <3>7. QED
      BY <3>4, <3>5, <3>6
  <2>4. g = lo \/ num * y >= Mantissas
    <3>1. SUFFICES ASSUME g # lo PROVE num * y >= Mantissas
      OBVIOUS
    <3>2. d + (len - 1) = M /\ len - 1 \in Nat
      <4>1. g = ex + len - 1 - M /\ len \in Int /\ g \in Int /\ len >= 1
        BY <1>1, <1>2, <1>3, <1>4, <1>5, <3>1
      <4>2. QED
        BY <2>1, <4>1
    <3>3. 2^(d + (len - 1)) = 2^d * 2^(len - 1)
      BY <1>2, <3>2, PowersAdd
    <3>4. PICK x \in Nat : x = 2^(len - 1) /\ x <= num
      BY <1>1, <1>7
    <3>5. y * x = Mantissas
      BY <1>6, <2>2, <3>2, <3>3, <3>4
    <3>6. y * num >= y * x /\ y * num = num * y
      BY <3>4
    <3>7. QED
      BY <3>5, <3>6
  <2>5. num * y \in Nat /\ 2 * Mantissas \in Nat
    BY <1>6
  <2>6. QED
    BY <1>2, <1>3, <2>1, <2>2, <2>3, <2>4, <2>5
<1>9. ASSUME ex < g
      PROVE  /\ g - ex \in 1 .. MaxBits /\ 2^(g - ex) \in Nat \ {0}
             /\ num \div 2^(g - ex) \in 0 .. 2 * Mantissas - 1
             /\ num \div 2^(g - ex) >= Mantissas \/ g = MinExp
  <2>1. PICK d \in Nat : d = g - ex /\ d >= 1 /\ d <= MaxBits /\ d + (M + 1) >= len
    <3>1. g - ex \in Nat /\ g - ex >= 1 /\ (g - ex) + (M + 1) >= len
      BY <1>1, <1>2, <1>5, <1>9
    <3>2. g - ex <= MaxBits
      <4>1. CASE g = lo
        BY <1>2, <1>3, <4>1
      <4>2. CASE g = ex + len - 1 - M
        BY <1>1, <1>2, <4>2
      <4>3. QED
        BY <1>4, <4>1, <4>2
    <3>3. QED
      BY <3>1, <3>2
  <2>2. PICK y \in Nat \ {0} : y = 2^d
    BY <1>2, <2>1, PowersGrow
  <2>3. PICK q \in Nat, r \in 0 .. y - 1 : q = num \div y /\ num = (y * q) + r
    <3>1. num \in Nat
      BY <1>1, <1>7
    <3>2. num \div y \in Nat /\ (num % y) \in 0 .. y - 1 /\ num = (y * (num \div y)) + (num % y)
      BY <3>1, QuotientRounds
    <3>3. QED
      BY <3>2
  <2>4. q < 2 * Mantissas
    <3>1. CASE len <= d
      <4>1. 2^len <= 2^d
        BY <1>1, <1>2, <2>1, <3>1, PowersGrow
      <4>2. num < y /\ num \in Nat
        BY <1>1, <1>7, <2>2, <4>1
      <4>3. q = 0
        <5>1. SUFFICES ASSUME q >= 1 PROVE FALSE
          OBVIOUS
        <5>2. y * q >= y * 1
          BY <5>1
        <5>3. QED
          BY <2>3, <4>2, <5>2
      <4>4. QED
        BY <1>6, <4>3
    <3>2. CASE len > d
      <4>1. PICK j \in Nat : len = d + j /\ j <= M + 1
        <5>1. len - d \in Nat /\ len - d <= M + 1 /\ len = d + (len - d)
          BY <1>1, <1>2, <2>1, <3>2
        <5>2. QED
          BY <5>1
      <4>2. 2^(d + j) = 2^d * 2^j /\ 2^j \in Nat
        BY <1>1, <4>1, PowersAdd
      <4>3. 2^j <= 2^(M + 1)
        <5>1. j \in 0 .. MaxBits /\ M + 1 \in 0 .. MaxBits
          BY <1>1, <1>2, <4>1
        <5>2. QED
          BY <4>1, <5>1, PowersGrow
      <4>4. PICK z \in Nat : z = 2^j /\ z <= 2 * Mantissas /\ num < y * z
        BY <1>1, <1>6, <2>2, <4>1, <4>2, <4>3
      <4>5. q < z
        <5>1. SUFFICES ASSUME q >= z PROVE FALSE
          OBVIOUS
        <5>2. y * q >= y * z
          BY <5>1
        <5>3. QED
          BY <2>3, <4>4, <5>2
      <4>6. QED
        BY <1>6, <4>4, <4>5
    <3>3. QED
      BY <1>1, <2>1, <3>1, <3>2
  <2>5. g = lo \/ q >= Mantissas
    <3>1. SUFFICES ASSUME g # lo PROVE q >= Mantissas
      OBVIOUS
    <3>2. len - 1 = d + M
      BY <1>1, <1>4, <2>1, <3>1
    <3>3. 2^(d + M) = 2^d * 2^M
      BY <1>1, <1>2, <2>1, <3>2, PowersAdd
    <3>4. PICK m \in Nat : m = Mantissas /\ y * m <= num
      <4>1. y * Mantissas <= num
        BY <1>1, <1>6, <2>2, <3>2, <3>3
      <4>2. QED
        BY <1>6, <4>1
    <3>5. SUFFICES ASSUME q + 1 <= m PROVE FALSE
      BY <3>4
    <3>6. y * (q + 1) <= y * m /\ y * (q + 1) = y * q + y
      BY <3>5
    <3>7. QED
      BY <2>3, <3>4, <3>6
  <2>6. QED
    BY <1>3, <1>6, <2>1, <2>2, <2>3, <2>4, <2>5
<1>10. QED
  BY <1>2, <1>3, <1>5, <1>8, <1>9

-----------------------------------------------------------------------------
(* Rounding onto the grid gives the nearest magnitude.                      *)

LEMMA RoundMagnitudeIs ==
  ASSUME NEW num, NEW ex, num # 0, NEW g, g = Grid(num, ex), NEW sig,
         sig = IF ex >= g THEN num * 2^(ex - g) ELSE RoundedQuotient(num, 2^(g - ex)),
         NEW m, m = (g - MinExp) * Mantissas + sig
  PROVE  RoundMagnitude(num, ex) = IF m > PosInf THEN PosInf ELSE m
BY DEF RoundMagnitude, Grid, Mantissas

LEMMA RoundedNearest ==
  ASSUME Format, NEW num \in 0 .. 2^MaxBits - 1, NEW ex \in Int, NEW b, Base(b),
         ex - b \in 0 .. MaxBits
  PROVE  /\ RoundMagnitude(num, ex) \in 0 .. PosInf
         /\ Nearest(At(num, ex, b), b, RoundMagnitude(num, ex))
<1>1. /\ b \in Int /\ MinExp \in Int /\ MaxBits \in Nat /\ PosInf \in Nat
      /\ Fields \in Nat /\ Fields >= 4 /\ Mantissas \in Nat /\ Mantissas >= 2
      /\ b <= MinExp - 1 /\ MinExp + Fields - b <= MaxBits
  BY Sizes DEF Base
<1>2. 2^MaxBits \in Nat \ {0} /\ 2^(ex - b) \in Nat \ {0}
  <2>1. MaxBits \in 0 .. MaxBits
    BY <1>1
  <2>2. QED
    BY <2>1, PowersGrow
<1>3. CASE num = 0
  <2>1. RoundMagnitude(num, ex) = 0
    BY <1>3 DEF RoundMagnitude
  <2>2. At(num, ex, b) = 0
    BY <1>2, <1>3 DEF At
  <2>3. 0 \in 0 .. PosInf
    BY <1>1
  <2>4. Mid(0, b) \in Nat
    BY <2>3, MagnitudeValue
  <2>5. 0 % 2 # 1
    OBVIOUS
  <2>6. Nearest(0, b, 0)
    BY <2>3, <2>4, <2>5 DEF Nearest
  <2>7. QED
    BY <2>1, <2>2, <2>3, <2>6
<1>4. CASE num # 0
  <2>1. num \in 1 .. 2^MaxBits - 1 /\ ex >= MinExp - MaxBits
    BY <1>1, <1>2, <1>4
  <2>2. PICK g : g = Grid(num, ex)
    OBVIOUS
  <2>3. /\ g \in Int /\ g >= MinExp
        /\ ex >= g => /\ ex - g \in 0 .. MaxBits /\ 2^(ex - g) \in Nat \ {0}
                      /\ num * 2^(ex - g) \in 0 .. 2 * Mantissas - 1
                      /\ num * 2^(ex - g) >= Mantissas \/ g = MinExp
        /\ ex < g => /\ g - ex \in 1 .. MaxBits /\ 2^(g - ex) \in Nat \ {0}
                     /\ num \div 2^(g - ex) \in 0 .. 2 * Mantissas - 1
                     /\ num \div 2^(g - ex) >= Mantissas \/ g = MinExp
    BY <2>1, <2>2, GridFits
  <2>4. PICK v : v = At(num, ex, b)
    OBVIOUS
  <2>5. CASE ex >= g
    <3>1. PICK q \in 0 .. 2 * Mantissas - 1 : q = num * 2^(ex - g) /\ (q >= Mantissas \/ g = MinExp)
      BY <2>3, <2>5
    <3>2. g - b \in Nat /\ g - b >= 1 /\ g - b <= MaxBits
      BY <1>1, <2>3, <2>5
    <3>3. PICK h \in Nat \ {0} : 2^(g - b) = 2 * h
      BY <3>2, PowerHalved
    <3>4. v = q * (2 * h) + 0
      <4>1. PICK d \in Nat : d = ex - g /\ g + d = ex /\ g + d - b <= MaxBits /\ g >= b
        BY <1>1, <2>3, <2>5, <3>2
      <4>2. 2^(g + d - b) = 2^d * 2^(g - b) /\ 2^d \in Nat
        BY <1>1, <2>3, <4>1, Units
      <4>3. PICK y \in Nat : y = 2^d
        BY <4>2
      <4>4. num * (y * (2 * h)) = (num * y) * (2 * h) /\ num \in Nat
        BY <2>1
      <4>5. v = num * (y * (2 * h)) /\ q = num * y
        <5>1. 2^(ex - b) = y * (2 * h)
          <6>1. 2^(ex - b) = 2^d * 2^(g - b)
            <7>1. g + d - b = ex - b
              BY <1>1, <2>3, <4>1
            <7>2. QED
              BY <4>2, <7>1, Zenon
          <6>2. 2^d * 2^(g - b) = y * (2 * h)
            BY <3>3, <4>3, Zenon
          <6>3. QED
            BY <6>1, <6>2, Zenon
        <5>2. QED
          BY <2>4, <3>1, <4>1, <4>3, <5>1 DEF At
      <4>6. QED
        BY <3>1, <4>4, <4>5
    <3>5. PICK m : m = (g - MinExp) * Mantissas + q
      OBVIOUS
    <3>6. PICK rest \in 0 .. 2 * h - 1 : rest = 0
      OBVIOUS
    <3>61. PICK up \in 0 .. 1 : up = 0
      OBVIOUS
    <3>62. up = 1 <=> rest > h \/ (rest = h /\ q % 2 = 1)
      BY <3>6, <3>61
    <3>7. /\ m \in Nat
          /\ m < PosInf => Nearest(v, b, m + up) /\ m + up \in 0 .. PosInf
          /\ m >= PosInf => Nearest(v, b, PosInf)
      <4>1. v = q * (2 * h) + rest
        BY <3>4, <3>6
      <4>2. QED
        <5>1. g \in Int /\ g >= MinExp /\ g - b <= MaxBits
          BY <2>3, <3>2
        <5>2. QED
          BY <3>1, <3>3, <3>5, <3>62, <4>1, <5>1, NearestOnGrid
    <3>8. RoundMagnitude(num, ex) = IF m > PosInf THEN PosInf ELSE m
      BY <1>4, <2>2, <2>5, <3>1, <3>5, RoundMagnitudeIs
    <3>9. QED
      BY <1>1, <2>4, <3>61, <3>7, <3>8
  <2>6. CASE ex < g
    <3>1. PICK d \in Nat : d = g - ex /\ d >= 1 /\ d <= MaxBits /\ g = ex + d
      BY <1>1, <2>3, <2>6
    <3>2. PICK c \in Nat \ {0} : 2^d = 2 * c
      BY <3>1, PowerHalved
    <3>3. /\ num \div (2 * c) \in Nat /\ (num % (2 * c)) \in 0 .. 2 * c - 1
          /\ num = ((2 * c) * (num \div (2 * c))) + (num % (2 * c))
          /\ \E up \in 0 .. 1 :
               /\ RoundedQuotient(num, 2 * c) = num \div (2 * c) + up
               /\ up = 1 <=> 2 * (num % (2 * c)) > 2 * c
                             \/ (2 * (num % (2 * c)) = 2 * c /\ (num \div (2 * c)) % 2 = 1)
      <4>1. num \in Nat /\ 2 * c \in Nat \ {0}
        BY <2>1
      <4>2. QED
        BY <4>1, QuotientRounds
    <3>4. PICK q \in Nat, r \in 0 .. 2 * c - 1, up \in 0 .. 1 :
            /\ q = num \div (2 * c) /\ num = ((2 * c) * q) + r
            /\ RoundedQuotient(num, 2 * c) = q + up
            /\ up = 1 <=> 2 * r > 2 * c \/ (2 * r = 2 * c /\ q % 2 = 1)
      BY <3>3, Zenon
    <3>5. q \in 0 .. 2 * Mantissas - 1 /\ (q >= Mantissas \/ g = MinExp)
      BY <2>3, <2>6, <3>1, <3>2, <3>4
    <3>6. PICK m : m = (g - MinExp) * Mantissas + q
      OBVIOUS
    <3>7. RoundMagnitude(num, ex) = IF m + up > PosInf THEN PosInf ELSE m + up
      <4>1. m + up = (g - MinExp) * Mantissas + (q + up)
        <5>1. (g - MinExp) * Mantissas \in Int
          BY <1>1, <2>3
        <5>2. QED
          BY <3>6, <5>1
      <4>2. q + up = RoundedQuotient(num, 2^(g - ex))
        BY <3>1, <3>2, <3>4
      <4>3. ~ (ex >= g)
        BY <2>3, <2>6
      <4>4. QED
        BY <1>4, <2>2, <4>1, <4>2, <4>3, RoundMagnitudeIs
    <3>8. PICK u \in Nat \ {0} : u = 2^(ex - b)
      BY <1>2
    <3>9. PICK rest \in Int : rest = r * u /\ rest >= 0
      OBVIOUS
    <3>10. PICK h \in Nat \ {0} : h = c * u /\ (2 * c) * u = 2 * h
      OBVIOUS
    <3>11. v = q * (2 * h) + rest
      <4>1. (((2 * c) * q) + r) * u = (((2 * c) * q) * u) + (r * u)
        OBVIOUS
      <4>2. ((2 * c) * q) * u = q * ((2 * c) * u)
        OBVIOUS
      <4>3. v = (((2 * c) * q) + r) * u
        BY <2>4, <3>4, <3>8 DEF At
      <4>4. QED
        BY <3>9, <3>10, <4>1, <4>2, <4>3
    <3>12. /\ rest < 2 * h
           /\ rest > h <=> 2 * r > 2 * c
           /\ rest = h <=> 2 * r = 2 * c
      <4>1. r * u < (2 * c) * u
        BY Cancel
      <4>2. c * u < r * u <=> c < r
        BY Cancel
      <4>3. r * u <= c * u <=> r <= c
        BY Cancel
      <4>4. c * u <= r * u <=> c <= r
        BY Cancel
      <4>5. QED
        BY <3>9, <3>10, <4>1, <4>2, <4>3, <4>4
    <3>13. CASE g - b <= MaxBits
      <4>1. 2^(g - b) = 2 * h
        <5>1. 2^(ex + d - b) = 2^d * 2^(ex - b)
          <6>1. ex >= b /\ ex + d - b <= MaxBits
            BY <1>1, <3>1, <3>13
          <6>2. QED
            BY <1>1, <6>1, Units
        <5>2. 2^(g - b) = 2^d * 2^(ex - b)
          <6>1. ex + d - b = g - b
            BY <1>1, <3>1
          <6>2. QED
            BY <5>1, <6>1, Zenon
        <5>3. 2^d * 2^(ex - b) = (2 * c) * u
          BY <3>2, <3>8, Zenon
        <5>4. QED
          BY <3>10, <5>2, <5>3, Zenon
      <4>2. /\ m \in Nat
            /\ m < PosInf => Nearest(v, b, m + up) /\ m + up \in 0 .. PosInf
            /\ m >= PosInf => Nearest(v, b, PosInf)
        <5>1. rest \in 0 .. 2 * h - 1
          BY <3>9, <3>12
        <5>2. up = 1 <=> rest > h \/ (rest = h /\ q % 2 = 1)
          BY <3>4, <3>12
        <5>3. QED
          BY <2>3, <3>5, <3>6, <3>11, <3>13, <4>1, <5>1, <5>2, NearestOnGrid
      <4>3. QED
        BY <1>1, <2>4, <3>7, <4>2
    <3>14. CASE g - b > MaxBits
      <4>1. g > MinExp + Fields /\ q >= Mantissas
        BY <1>1, <2>3, <3>5, <3>14
      <4>2. m > PosInf /\ m \in Int
        <5>1. PICK j \in Nat, n \in Nat : j = g - MinExp /\ n = Mantissas /\ j >= Fields
          BY <1>1, <2>3, <4>1
        <5>2. j * n >= Fields * n /\ Fields * n = (Fields - 1) * n + n /\ j * n \in Int /\ (Fields - 1) * n \in Int
          BY <1>1, <5>1
        <5>3. PosInf = (Fields - 1) * n /\ m = j * n + q
          BY <3>6, <5>1, Sizes
        <5>4. QED
          BY <1>1, <4>1, <5>1, <5>2, <5>3
      <4>3. RoundMagnitude(num, ex) = PosInf
        BY <1>1, <3>7, <4>2
      <4>4. PICK top \in Int : /\ top = MinExp + Fields - 2 /\ top - b \in 0 .. MaxBits
                               /\ Val(PosInf, b) = Mantissas * 2^(top - b)
        <5>1. PICK top \in Int : top = MinExp + Fields - 2 /\ top - b = MinExp + Fields - 2 - b
          BY <1>1
        <5>2. /\ Val(PosInf, b) = Mantissas * 2^(MinExp + Fields - 2 - b)
              /\ MinExp + Fields - 2 - b \in 0 .. MaxBits
          BY OverflowValue
        <5>3. QED
          BY <5>1, <5>2, Zenon
      <4>5. 2^(top - b) \in Nat /\ 2^(top - b) <= 2 * h
        <5>1. CASE ex >= top
          <6>1. 2^(top - b) <= u /\ 2^(top - b) \in Nat
            <7>1. ex - b \in 0 .. MaxBits /\ top - b <= ex - b
              BY <1>1, <4>4, <5>1
            <7>2. QED
              BY <3>8, <4>4, <7>1, PowersGrow
          <6>2. u <= (2 * c) * u
            OBVIOUS
          <6>3. QED
            BY <3>10, <6>1, <6>2
        <5>2. CASE ex < top
          <6>1. PICK j \in Nat : /\ top = ex + j /\ j <= d /\ j <= MaxBits /\ ex >= b
                                 /\ ex + j - b = top - b
            <7>1. top - ex \in Nat /\ top - ex <= d /\ ex >= b /\ top = ex + (top - ex)
              BY <1>1, <2>3, <3>1, <4>1, <4>4, <5>2
            <7>2. PICK j \in Nat : j = top - ex
              BY <7>1
            <7>3. QED
              BY <1>1, <3>1, <4>4, <7>1, <7>2
          <6>2. 2^(ex + j - b) = 2^j * 2^(ex - b) /\ 2^j \in Nat /\ 2^(ex + j - b) \in Nat
            <7>1. ex + j - b <= MaxBits
              BY <1>1, <4>4, <6>1
            <7>2. QED
              BY <1>1, <6>1, <7>1, Units
          <6>3. 2^j <= 2^d
            BY <1>1, <3>1, <6>1, PowersGrow
          <6>4. PICK x \in Nat : x = 2^j /\ x <= 2 * c
            BY <3>2, <6>2, <6>3
          <6>5. x * u <= (2 * c) * u
            BY <6>4
          <6>6. QED
            BY <3>8, <3>10, <6>1, <6>2, <6>4, <6>5
        <5>3. QED
          BY <4>4, <5>1, <5>2
      <4>6. PICK x \in Nat, n \in Nat : x = 2^(top - b) /\ x <= 2 * h /\ n = Mantissas /\ q >= n
        BY <1>1, <4>1, <4>5
      <4>7. q * (2 * h) >= n * (2 * h) /\ n * (2 * h) >= n * x
        BY <4>6
      <4>8. q * (2 * h) \in Nat /\ n * (2 * h) \in Int /\ n * x \in Int
        BY <4>6
      <4>9. v \in Nat /\ v >= Val(PosInf, b)
        BY <3>9, <3>11, <4>4, <4>6, <4>7, <4>8
      <4>10. Nearest(v, b, PosInf)
        BY <4>9, NearestOverflow
      <4>11. QED
        BY <1>1, <2>4, <4>3, <4>10
    <3>15. QED
      BY <1>1, <2>3, <3>13, <3>14
  <2>7. QED
    BY <2>3, <2>5, <2>6
<1>5. QED
  BY <1>3, <1>4

-----------------------------------------------------------------------------
(* Scaling a real, and reals the format holds exactly.                      *)

LEMMA BitsUnique ==
  ASSUME Format, NEW n \in 1 .. 2^MaxBits - 1, NEW len \in 1 .. MaxBits,
         2^(len - 1) <= n, n < 2^len
  PROVE  BitLength(n) = len
<1>1. PICK l \in 1 .. MaxBits : l = BitLength(n) /\ 2^(l - 1) <= n /\ n < 2^l
  BY Bits
<1>2. \A i, j \in 1 .. MaxBits : 2^(i - 1) <= n /\ n < 2^j => i <= j
  <2>1. SUFFICES ASSUME NEW i \in 1 .. MaxBits, NEW j \in 1 .. MaxBits,
                        2^(i - 1) <= n, n < 2^j, i > j
                 PROVE  FALSE
    BY Sizes
  <2>2. j \in 0 .. MaxBits /\ i - 1 \in 0 .. MaxBits /\ j <= i - 1
    BY <2>1, Sizes
  <2>3. 2^j <= 2^(i - 1) /\ 2^j \in Nat /\ 2^(i - 1) \in Nat
    BY <2>2, PowersGrow
  <2>4. n \in Nat
    <3>1. MaxBits \in 0 .. MaxBits
      BY Sizes
    <3>2. 2^MaxBits \in Nat
      BY <3>1, PowersGrow
    <3>3. QED
      BY <3>2
  <2>5. QED
    BY <2>1, <2>3, <2>4
<1>3. l <= len /\ len <= l
  BY <1>1, <1>2
<1>4. MaxBits \in Nat
  BY Sizes
<1>5. l = len
  BY <1>3, <1>4
<1>6. QED
  BY <1>1, <1>5

LEMMA RoundedScaled ==
  ASSUME Format, NEW num \in 0 .. 2^MaxBits - 1, NEW ex \in Int, NEW t \in 0 .. MaxBits,
         num * 2^t \in 0 .. 2^MaxBits - 1, ex - t >= MinExp - MaxBits
  PROVE  RoundMagnitude(num * 2^t, ex - t) = RoundMagnitude(num, ex)
<1>1. /\ MinExp \in Int /\ MaxBits \in Nat /\ PosInf \in Nat /\ ManBits \in Nat
      /\ Mantissas \in Nat /\ 2^MaxBits \in Nat \ {0} /\ 2^t \in Nat \ {0}
  <2>1. MaxBits \in 0 .. MaxBits
    BY Sizes
  <2>2. QED
    BY <2>1, PowersGrow, Sizes
<1>2. PICK T \in Nat \ {0} : T = 2^t
  BY <1>1
<1>3. CASE num = 0
  <2>1. num * 2^t = 0
    BY <1>2, <1>3
  <2>2. QED
    BY <1>3, <2>1 DEF RoundMagnitude
<1>4. CASE num # 0
  <2>1. num \in 1 .. 2^MaxBits - 1 /\ num \in Nat /\ num \in Nat \ {0} /\ t \in Nat
    BY <1>1, <1>4
  <2>2. PICK n \in 1 .. 2^MaxBits - 1 : n = num * T /\ n # 0
    <3>1. num * T >= 1 * T
      BY <2>1
    <3>2. QED
      BY <1>1, <1>2, <3>1
  <2>3. PICK len \in 1 .. MaxBits : /\ len = BitLength(num)
                                    /\ 2^(len - 1) <= num /\ num < 2^len
    BY <2>1, Bits
  <2>4. PICK x \in Nat \ {0}, y \in Nat \ {0} : x = 2^(len - 1) /\ y = 2^len
    <3>1. len - 1 \in 0 .. MaxBits /\ len \in 0 .. MaxBits
      BY <1>1
    <3>2. 2^(len - 1) \in Nat \ {0} /\ 2^len \in Nat \ {0}
      BY <3>1, PowersGrow
    <3>3. QED
      BY <3>2
  <2>5. BitLength(n) = len + t
    <3>1. x * T <= n
      BY <2>1, <2>2, <2>3, <2>4, Cancel
    <3>2. n < y * T
      BY <2>1, <2>2, <2>3, <2>4, Cancel
    <3>3. (len - 1) + t <= MaxBits - 1 /\ (len - 1) + t \in Nat /\ len - 1 \in Nat
      <4>1. SUFFICES ASSUME (len - 1) + t >= MaxBits PROVE FALSE
        BY <1>1, <2>1
      <4>2. PICK j \in Nat : j + t = MaxBits /\ j <= len - 1
        <5>1. MaxBits - t \in Nat /\ (MaxBits - t) + t = MaxBits /\ MaxBits - t <= len - 1
          BY <1>1, <4>1
        <5>2. QED
          BY <5>1
      <4>3. 2^(j + t) = 2^j * 2^t /\ 2^j \in Nat
        BY <1>1, <2>1, <4>2, PowersAdd
      <4>4. 2^j <= 2^(len - 1)
        <5>1. j \in 0 .. MaxBits /\ len - 1 \in 0 .. MaxBits
          BY <1>1, <4>2
        <5>2. QED
          BY <4>2, <5>1, PowersGrow
      <4>5. PICK z \in Nat : z = 2^j /\ z <= x /\ 2^MaxBits = z * T
        BY <1>2, <2>4, <4>2, <4>3, <4>4
      <4>6. z * T <= x * T /\ z * T \in Int /\ x * T \in Int
        BY <4>5
      <4>7. QED
        BY <2>2, <3>1, <4>5, <4>6
    <3>4. 2^((len - 1) + t) = x * T
      <4>1. (len - 1) + t <= MaxBits
        BY <1>1, <3>3
      <4>2. QED
        BY <1>2, <2>1, <2>4, <3>3, <4>1, PowersAdd
    <3>5. 2^(len + t) = y * T
      <4>1. len + t <= MaxBits /\ len \in Nat
        BY <1>1, <3>3
      <4>2. QED
        BY <1>2, <2>1, <2>4, <4>1, PowersAdd
    <3>6. len + t \in 1 .. MaxBits /\ (len + t) - 1 = (len - 1) + t
      BY <1>1, <2>1, <3>3
    <3>7. QED
      BY <3>1, <3>2, <3>4, <3>5, <3>6, BitsUnique
  <2>6. PICK g : g = Grid(num, ex) /\ g = Grid(n, ex - t)
    <3>1. (ex - t) + BitLength(n) - 1 - ManBits = ex + BitLength(num) - 1 - ManBits
      BY <1>1, <2>1, <2>3, <2>5
    <3>2. QED
      BY <3>1 DEF Grid
  <2>7. /\ g \in Int /\ g >= MinExp
        /\ ex >= g => ex - g \in 0 .. MaxBits /\ 2^(ex - g) \in Nat \ {0}
        /\ ex < g => g - ex \in 1 .. MaxBits /\ 2^(g - ex) \in Nat \ {0}
        /\ ex - t >= g => (ex - t) - g \in 0 .. MaxBits /\ 2^((ex - t) - g) \in Nat \ {0}
        /\ ex - t < g => g - (ex - t) \in 1 .. MaxBits /\ 2^(g - (ex - t)) \in Nat \ {0}
    <3>1. ex >= MinExp - MaxBits /\ ex - t \in Int
      BY <1>1, <2>1
    <3>2. /\ g \in Int /\ g >= MinExp
          /\ ex >= g => ex - g \in 0 .. MaxBits /\ 2^(ex - g) \in Nat \ {0}
          /\ ex < g => g - ex \in 1 .. MaxBits /\ 2^(g - ex) \in Nat \ {0}
      BY <2>1, <2>6, <3>1, GridFits
    <3>3. /\ ex - t >= g => (ex - t) - g \in 0 .. MaxBits /\ 2^((ex - t) - g) \in Nat \ {0}
          /\ ex - t < g => g - (ex - t) \in 1 .. MaxBits /\ 2^(g - (ex - t)) \in Nat \ {0}
      BY <2>2, <2>6, <3>1, GridFits
    <3>4. QED
      BY <3>2, <3>3
  <2>8. PICK sig : sig = IF ex >= g THEN num * 2^(ex - g) ELSE RoundedQuotient(num, 2^(g - ex))
    OBVIOUS
  <2>9. sig = IF ex - t >= g THEN n * 2^((ex - t) - g) ELSE RoundedQuotient(n, 2^(g - (ex - t)))
    <3>1. CASE ex - t >= g
      <4>1. PICK j \in Nat : j = (ex - t) - g /\ t + j = ex - g
        BY <1>1, <2>1, <2>7, <3>1
      <4>2. ex >= g /\ t + j <= MaxBits
        BY <1>1, <2>1, <2>7, <3>1, <4>1
      <4>3. 2^(t + j) = 2^t * 2^j /\ 2^j \in Nat
        BY <2>1, <4>1, <4>2, PowersAdd
      <4>4. PICK z \in Nat : z = 2^j /\ 2^(ex - g) = T * z
        BY <1>2, <4>1, <4>3
      <4>5. num * (T * z) = (num * T) * z
        BY <2>1
      <4>6. QED
        BY <2>2, <2>8, <3>1, <4>1, <4>2, <4>4, <4>5
    <3>2. CASE ex - t < g /\ ex >= g
      <4>1. PICK j \in Nat, i \in Nat : /\ j = g - (ex - t) /\ i = ex - g /\ i + j = t
                                        /\ i \in 0 .. MaxBits /\ j \in 0 .. MaxBits
        <5>1. g - (ex - t) \in Nat /\ ex - g \in Nat /\ (ex - g) + (g - (ex - t)) = t
          BY <1>1, <2>1, <2>7, <3>2
        <5>2. QED
          BY <1>1, <2>7, <3>2, <5>1
      <4>2. 2^(i + j) = 2^i * 2^j /\ 2^i \in Nat \ {0} /\ 2^j \in Nat \ {0}
        BY <1>1, <2>1, <4>1, PowersAdd
      <4>3. PICK a \in Nat \ {0}, c \in Nat \ {0} : a = 2^i /\ c = 2^j /\ T = a * c
        BY <1>2, <4>1, <4>2
      <4>4. PICK q \in Nat : q = num * a
        BY <2>1
      <4>5. n = (c * q) + 0
        <5>1. num * (a * c) = c * (num * a)
          BY <2>1
        <5>2. QED
          BY <2>2, <4>3, <4>4, <5>1
      <4>6. n \div c = q /\ n % c = 0
        <5>1. n \in Int /\ 0 \in 0 .. c - 1 /\ q \in Int
          BY <4>5
        <5>2. QED
          BY <4>5, <5>1, DivisionUnique
      <4>7. RoundedQuotient(n, c) = q
        BY <4>6 DEF RoundedQuotient
      <4>8. ~ (ex - t >= g)
        BY <1>1, <2>1, <2>7, <3>2
      <4>9. QED
        BY <2>8, <3>2, <4>1, <4>3, <4>4, <4>7, <4>8
    <3>3. CASE ex < g
      <4>1. PICK j \in Nat : j = g - ex /\ j + t = g - (ex - t) /\ j + t <= MaxBits
        <5>1. ex - t < g
          BY <1>1, <2>1, <2>7, <3>3
        <5>2. g - ex \in Nat /\ (g - ex) + t = g - (ex - t)
          BY <1>1, <2>1, <2>7, <3>3
        <5>3. QED
          BY <1>1, <2>7, <5>1, <5>2
      <4>2. 2^(j + t) = 2^j * 2^t /\ 2^j \in Nat \ {0}
        BY <2>1, <4>1, PowersAdd
      <4>3. PICK d \in Nat \ {0} : d = 2^j /\ 2^(g - (ex - t)) = d * T /\ d * T \in Nat \ {0}
        BY <1>2, <4>1, <4>2
      <4>4. /\ num \div d \in Nat /\ (num % d) \in 0 .. d - 1
            /\ num = (d * (num \div d)) + (num % d)
        BY <2>1, QuotientRounds
      <4>5. PICK q \in Nat, r \in 0 .. d - 1 : q = num \div d /\ r = num % d /\ num = (d * q) + r
        BY <4>4
      <4>6. PICK R \in Nat : R = r * T
        <5>1. r \in Nat
          OBVIOUS
        <5>2. r * T \in Nat
          BY <5>1
        <5>3. QED
          BY <5>2
      <4>7. R < d * T /\ (2 * R > d * T <=> 2 * r > d) /\ (2 * R = d * T <=> 2 * r = d)
        <5>1. r * T < d * T
          BY Cancel
        <5>2. (2 * r) * T = 2 * R /\ 2 * r \in Int /\ d \in Int
          BY <4>6
        <5>3. (2 * r) * T <= d * T <=> 2 * r <= d
          BY <5>2, Cancel
        <5>4. d * T <= (2 * r) * T <=> d <= 2 * r
          BY <5>2, Cancel
        <5>5. QED
          BY <4>3, <4>6, <5>1, <5>2, <5>3, <5>4
      <4>8. n \div (d * T) = q /\ n % (d * T) = R
        <5>1. n = ((d * T) * q) + R
          <6>1. ((d * q) + r) * T = ((d * q) * T) + (r * T) /\ (d * q) * T = (d * T) * q
            OBVIOUS
          <6>2. QED
            BY <2>2, <4>5, <4>6, <6>1
        <5>2. n \in Int /\ q \in Int /\ R \in 0 .. (d * T) - 1
          BY <4>3, <4>6, <4>7, <5>1
        <5>3. QED
          BY <4>3, <5>1, <5>2, DivisionUnique
      <4>9. RoundedQuotient(n, d * T) = RoundedQuotient(num, d)
        BY <4>5, <4>7, <4>8 DEF RoundedQuotient
      <4>10. ~ (ex - t >= g) /\ ~ (ex >= g)
        BY <1>1, <2>1, <2>7, <3>3
      <4>11. QED
        BY <2>8, <4>1, <4>3, <4>9, <4>10
    <3>4. QED
      BY <1>1, <2>1, <2>7, <3>1, <3>2, <3>3
  <2>10. PICK m : m = (g - MinExp) * Mantissas + sig
    OBVIOUS
  <2>11. RoundMagnitude(num, ex) = IF m > PosInf THEN PosInf ELSE m
    BY <1>4, <2>6, <2>8, <2>10, RoundMagnitudeIs
  <2>12. RoundMagnitude(n, ex - t) = IF m > PosInf THEN PosInf ELSE m
    BY <2>2, <2>6, <2>9, <2>10, RoundMagnitudeIs
  <2>13. QED
    BY <1>2, <2>2, <2>11, <2>12
<1>5. QED
  BY <1>3, <1>4

(* A number of no more bits than a significand is held as it is.             *)
LEMMA RoundedExactly ==
  ASSUME Format, NEW num \in 1 .. 2^MaxBits - 1, BitLength(num) <= ManBits + 1,
         NEW ex \in Int, ex >= MinExp, ex + BitLength(num) - 1 - ManBits <= MinExp + Fields - 3
  PROVE  LET r == RoundMagnitude(num, ex)
         IN \E t \in 0 .. MaxBits :
              Significand(r) = num * 2^t /\ Exponent(r) = ex - t /\ ex - t >= MinExp
              /\ num * 2^t \in 0 .. 2 * Mantissas - 1
<1>1. PICK g : g = Grid(num, ex)
  OBVIOUS
<1>2. BitLength(num) \in Int /\ MinExp \in Int /\ Fields \in Nat /\ Fields >= 4 /\ ManBits \in Nat /\ MaxBits \in Nat
  BY Bits, Sizes
<1>3. ex >= g /\ g <= MinExp + Fields - 3 /\ ex >= MinExp - MaxBits
  BY <1>1, <1>2 DEF Grid
<1>4. /\ g \in Int /\ g >= MinExp /\ ex - g \in 0 .. MaxBits /\ 2^(ex - g) \in Nat \ {0}
      /\ num * 2^(ex - g) \in 0 .. 2 * Mantissas - 1
      /\ num * 2^(ex - g) >= Mantissas \/ g = MinExp
  BY <1>1, <1>3, GridFits
<1>5. PICK q \in 0 .. 2 * Mantissas - 1 : q = num * 2^(ex - g) /\ (q >= Mantissas \/ g = MinExp)
  BY <1>4
<1>6. PICK m : m = (g - MinExp) * Mantissas + q
  OBVIOUS
<1>7. /\ m \in Nat
      /\ m < PosInf => Significand(m) = q /\ Exponent(m) = g
      /\ m >= PosInf => q >= Mantissas /\ g >= MinExp + Fields - 2
  BY <1>4, <1>5, <1>6, Place
<1>8. m < PosInf /\ PosInf \in Nat
  BY <1>2, <1>3, <1>4, <1>7, Sizes
<1>9. num # 0
  OBVIOUS
<1>10. RoundMagnitude(num, ex) = m
  <2>1. RoundMagnitude(num, ex) = IF m > PosInf THEN PosInf ELSE m
    BY <1>1, <1>3, <1>5, <1>6, <1>9, RoundMagnitudeIs
  <2>2. QED
    BY <1>7, <1>8, <2>1
<1>11. PICK t \in 0 .. MaxBits : t = ex - g /\ g = ex - t
  BY <1>4
<1>12. QED
  BY <1>4, <1>5, <1>7, <1>8, <1>10, <1>11

-----------------------------------------------------------------------------
(* The datapath of fpnew_fma.                                               *)

(* The powers of two that a product's exponent and the vector's width need.  *)
Room == /\ Format /\ 4 * Bias <= MaxBits /\ 3 * Bias + 2 * ManBits + 2 <= MaxBits
        /\ 3 * ManBits + 8 <= MaxBits

(* The round bit's place in the vector: the significand is above it.         *)
RoundBit == 2^(2 * P + 3)

(* A unit finer than a quarter of the last place of every product.           *)
Fine == 2 * MinExp - 2
-----------------------------------------------------------------------------
(* Sizes.                                                                   *)

LEMMA VectorSizes ==
  ASSUME Room
  PROVE  /\ P \in Nat /\ P = ManBits + 1 /\ ManBits \in Nat /\ ManBits >= 1 /\ MaxBits \in Nat
         /\ 3 * P + 5 <= MaxBits /\ Mantissas \in Nat /\ Mantissas >= 2
         /\ RoundBit \in Nat \ {0} /\ 2^P = 2 * Mantissas /\ 2^(P + 1) = 4 * Mantissas
         /\ 2^(P + 2) = 8 * Mantissas
         /\ RoundBit = (16 * Mantissas) * (2 * Mantissas)
         /\ 2^(2 * P + 4) = 2 * RoundBit
         /\ 2^(3 * P + 3) = (2 * Mantissas) * RoundBit
         /\ 2^(3 * P + 4) = (4 * Mantissas) * RoundBit
         /\ 2^(3 * P + 5) = (8 * Mantissas) * RoundBit
<1>1. /\ ManBits \in Nat /\ ManBits >= 1 /\ MaxBits \in Nat /\ Format
      /\ 3 * P + 5 <= MaxBits /\ P \in Nat /\ P = ManBits + 1
      /\ P - 1 = ManBits /\ (P + 1) - 1 = P /\ (P + 2) - 1 = P + 1 /\ (P + 3) - 1 = P + 2
  BY DEF Room, Format, P
<1>2. PICK m \in Nat : m = Mantissas /\ m >= 2
  BY <1>1, Sizes
<1>3. 2^P = 2 * m
  <2>1. P >= 1 /\ P <= MaxBits
    BY <1>1
  <2>2. QED
    BY <1>1, <1>2, <2>1, PowerHalved DEF Mantissas
<1>4. 2^(P + 1) = 4 * m
  <2>1. P + 1 \in Nat /\ P + 1 >= 1 /\ P + 1 <= MaxBits
    BY <1>1
  <2>2. 2^(P + 1) = 2 * 2^P
    BY <1>1, <2>1, PowerHalved
  <2>3. QED
    BY <1>3, <2>2
<1>5. 2^(P + 2) = 8 * m /\ 2^(P + 3) = 16 * m
  <2>1. P + 2 \in Nat /\ P + 2 >= 1 /\ P + 2 <= MaxBits /\ P + 3 \in Nat /\ P + 3 >= 1 /\ P + 3 <= MaxBits
    BY <1>1
  <2>2. 2^(P + 2) = 2 * 2^(P + 1) /\ 2^(P + 3) = 2 * 2^(P + 2)
    BY <1>1, <2>1, PowerHalved
  <2>3. QED
    BY <1>4, <2>2
<1>6. PICK r \in Nat \ {0} : r = RoundBit /\ r = (16 * m) * (2 * m)
  <2>1. P + 3 \in Nat /\ (P + 3) + P = 2 * P + 3 /\ (P + 3) + P <= MaxBits
    BY <1>1
  <2>2. 2^((P + 3) + P) = 2^(P + 3) * 2^P /\ 2^((P + 3) + P) \in Nat \ {0}
    BY <1>1, <2>1, PowersAdd
  <2>3. QED
    BY <1>3, <1>5, <2>1, <2>2 DEF RoundBit
<1>7. 2^(2 * P + 4) = 2 * r
  <2>1. 2 * P + 4 \in Nat /\ 2 * P + 4 >= 1 /\ 2 * P + 4 <= MaxBits /\ (2 * P + 4) - 1 = 2 * P + 3
    BY <1>1
  <2>2. QED
    BY <1>1, <1>6, <2>1, PowerHalved DEF RoundBit
<1>8. 2^(3 * P + 3) = (2 * m) * r
  <2>1. 2 * P + 3 \in Nat /\ P + (2 * P + 3) = 3 * P + 3 /\ P + (2 * P + 3) <= MaxBits
    BY <1>1
  <2>2. 2^(P + (2 * P + 3)) = 2^P * 2^(2 * P + 3)
    BY <1>1, <2>1, PowersAdd
  <2>3. QED
    BY <1>3, <1>6, <2>1, <2>2 DEF RoundBit
<1>9. 2^(3 * P + 4) = (4 * m) * r /\ 2^(3 * P + 5) = (8 * m) * r
  <2>1. /\ 3 * P + 4 \in Nat /\ 3 * P + 4 >= 1 /\ 3 * P + 4 <= MaxBits /\ (3 * P + 4) - 1 = 3 * P + 3
        /\ 3 * P + 5 \in Nat /\ 3 * P + 5 >= 1 /\ 3 * P + 5 <= MaxBits /\ (3 * P + 5) - 1 = 3 * P + 4
    BY <1>1
  <2>2. 2^(3 * P + 4) = 2 * 2^(3 * P + 3) /\ 2^(3 * P + 5) = 2 * 2^(3 * P + 4)
    BY <1>1, <2>1, PowerHalved
  <2>3. 2 * ((2 * m) * r) = (4 * m) * r /\ 2 * ((4 * m) * r) = (8 * m) * r
    OBVIOUS
  <2>4. QED
    BY <1>8, <2>2, <2>3
<1>10. QED
  BY <1>1, <1>2, <1>3, <1>4, <1>5, <1>6, <1>7, <1>8, <1>9

(* Units of Fine measure every half place, and every product.                *)
LEMMA FineBase ==
  ASSUME Room
  PROVE  /\ Base(Fine) /\ Fine \in Int /\ MinExp \in Int /\ Bias \in Nat
         /\ MinExp = 1 - Bias - ManBits /\ Fine = 2 * MinExp - 2 /\ Fields = 2 * (Bias + 1)
         /\ Bias >= 1
<1>1. /\ ManBits \in Nat /\ ManBits >= 1 /\ MaxBits \in Nat /\ Format
      /\ 3 * Bias + 2 * ManBits + 2 <= MaxBits
  BY DEF Room, Format
<1>2. /\ MinExp \in Int /\ Bias \in Nat \ {0} /\ MinExp = 1 - Bias - ManBits
      /\ Fields \in Nat /\ Fields = 2 * (Bias + 1)
  BY <1>1, Sizes
<1>3. Fine \in Int /\ Fine = 2 * MinExp - 2
  BY <1>2 DEF Fine
<1>4. Base(Fine)
  BY <1>1, <1>2, <1>3 DEF Base
<1>5. QED
  BY <1>2, <1>3, <1>4

(* A finite operand: its significand and its exponents, also in the biased   *)
(* form the unit computes with.                                             *)
LEMMA Operand ==
  ASSUME Room, NEW u \in Patterns, Field(u) # ExpOnes
  PROVE  /\ Sign(u) \in 0 .. 1
         /\ Significand(u) \in 0 .. 2 * Mantissas - 1 /\ Significand(u) \in Nat
         /\ Exponent(u) \in MinExp .. MinExp + 2 * Bias - 1 /\ Exponent(u) \in Int
         /\ Exponent(u) > MinExp => Significand(u) >= Mantissas
         /\ IsZero(u) <=> Significand(u) = 0
         /\ ExponentAddend(u) = Exponent(u) + Bias + ManBits
         /\ Significand(u) # 0 => Biased(u) = Exponent(u) + Bias + ManBits
         /\ Magnitude(u) \in 0 .. PosInf - 1 /\ Magnitude(u) \in 0 .. PosInf
         /\ Significand(Magnitude(u)) = Significand(u) /\ Exponent(Magnitude(u)) = Exponent(u)
         /\ Magnitude(u) % 2 = Significand(u) % 2
         /\ Magnitude(u) = (Exponent(u) - MinExp) * Mantissas + Significand(u)
<1>1. Format
  BY DEF Room
<1>2. /\ MinExp \in Int /\ Bias \in Nat /\ ManBits \in Nat /\ MinExp = 1 - Bias - ManBits /\ Bias >= 1
      /\ Fields = 2 * (Bias + 1) /\ ExpOnes = Fields - 1 /\ Mantissas \in Nat /\ Mantissas >= 2
      /\ PosInf = (Fields - 1) * Mantissas
  BY <1>1, Sizes, FineBase
<1>3. PICK field \in 0 .. Fields - 1, man \in 0 .. Mantissas - 1 :
        /\ Magnitude(u) = (Mantissas * field) + man
        /\ Field(u) = field /\ Mantissa(u) = man
        /\ Significand(u) = IF field = 0 THEN man ELSE Mantissas + man
        /\ Exponent(u) = IF field = 0 THEN MinExp ELSE MinExp + field - 1
  BY <1>1, PatternParts
<1>4. field \in 0 .. 2 * Bias
  BY <1>2, <1>3
<1>5. /\ Significand(u) \in 0 .. 2 * Mantissas - 1 /\ Significand(u) \in Nat
      /\ Exponent(u) \in MinExp .. MinExp + 2 * Bias - 1 /\ Exponent(u) \in Int
      /\ Exponent(u) > MinExp => Significand(u) >= Mantissas
  BY <1>2, <1>3, <1>4
<1>6. IsZero(u) <=> Significand(u) = 0
  <2>1. CASE field = 0
    <3>1. Mantissas * 0 = 0
      BY <1>2
    <3>2. QED
      BY <1>3, <2>1, <3>1 DEF IsZero
  <2>2. CASE field >= 1
    <3>1. Mantissas * field >= Mantissas
      BY <1>2, <2>2
    <3>2. QED
      BY <1>2, <1>3, <2>2, <3>1 DEF IsZero
  <2>3. QED
    BY <2>1, <2>2
<1>7. /\ ExponentAddend(u) = Exponent(u) + Bias + ManBits
      /\ Significand(u) # 0 => Biased(u) = Exponent(u) + Bias + ManBits
  <2>1. CASE field = 0
    BY <1>2, <1>3, <2>1 DEF ExponentAddend, Biased, IsNormal, IsSubnormal, Bool
  <2>2. CASE field >= 1
    BY <1>2, <1>3, <1>4, <2>2 DEF ExponentAddend, Biased, IsNormal, IsSubnormal, Bool
  <2>3. QED
    BY <2>1, <2>2
<1>8. Sign(u) \in 0 .. 1
  BY <1>1, SignApart
<1>9. PICK r \in 0 .. PosInf - 1 : r = Magnitude(u)
  <2>1. (Mantissas * field) + man <= PosInf - 1 /\ (Mantissas * field) + man \in Nat
    <3>1. Mantissas * field <= Mantissas * (Fields - 2) /\ Mantissas * field \in Nat
      BY <1>2, <1>4
    <3>2. Mantissas * (Fields - 2) + Mantissas = (Fields - 1) * Mantissas
      BY <1>2
    <3>3. QED
      BY <1>2, <3>1, <3>2
  <2>2. QED
    BY <1>2, <1>3, <2>1
<1>10. /\ Significand(r) = Significand(u) /\ Exponent(r) = Exponent(u)
  <2>1. r = WithSign(0, r) /\ 0 \in 0 .. 1
    BY <1>1, <1>9, Sizes DEF WithSign
  <2>2. QED
    BY <1>1, <1>3, <1>9, <2>1, MagnitudeParts
<1>11. r \in 0 .. PosInf /\ r % 2 = Significand(r) % 2
  <2>1. r \in 0 .. PosInf
    BY <1>1, <1>9, Sizes
  <2>2. QED
    BY <1>1, <2>1, FineBase, MagnitudeValue
<1>12. r = (Exponent(u) - MinExp) * Mantissas + Significand(u)
  <2>1. CASE field = 0
    <3>1. Mantissas * 0 = 0 /\ 0 * Mantissas = 0 /\ Exponent(u) - MinExp = 0
      BY <1>2, <1>3, <2>1
    <3>2. QED
      BY <1>2, <1>3, <1>9, <2>1, <3>1
  <2>2. CASE field >= 1
    <3>1. Mantissas * field = (field - 1) * Mantissas + Mantissas /\ (field - 1) * Mantissas \in Int
      BY <1>2, <2>2
    <3>2. Exponent(u) - MinExp = field - 1
      BY <1>2, <1>3, <2>2
    <3>3. QED
      BY <1>2, <1>3, <1>9, <2>2, <3>1, <3>2
  <2>3. QED
    BY <2>1, <2>2
<1>13. QED
  BY <1>5, <1>6, <1>7, <1>8, <1>9, <1>10, <1>11, <1>12

-----------------------------------------------------------------------------
(* The last step: a normalised vector rounded.                              *)

(* The exponent of the last retained place, from the biased one.            *)
PlaceOf(exp) == IF exp = 0 THEN MinExp ELSE MinExp + exp - 1

(* The rounder's view of a vector z: the significand q, the round bit and    *)
(* what is below it, and whether it rounds up.                               *)
RoundedAs(z, x, below, sign, subtract, q, round, low, up) ==
  /\ z = (2 * q + round) * RoundBit + low
  /\ x >= 1 <=> q >= Mantissas
  /\ up = 1 <=> round = 1 /\ (low # 0 \/ below \/ q % 2 = 1)
  /\ LET m == (PlaceOf(x) - MinExp) * Mantissas + q
     IN Rounded(z, x, below, sign, subtract) =
          IF x >= ExpOnes THEN WithSign(sign, PosInf)
          ELSE WithSign(IF m = 0 /\ round = 0 /\ low = 0 /\ ~ below /\ subtract
                        THEN 0 ELSE sign, m + up)

(* What rounding does with a vector z below 2^(3p+4) and a biased exponent   *)
(* of a normal number, or zero: the significand, the round bit and the rest. *)
LEMMA RoundedIs ==
  ASSUME Room, NEW z \in Nat, z < (4 * Mantissas) * RoundBit,
         NEW x \in Nat, x >= 1 <=> z >= (2 * Mantissas) * RoundBit,
         NEW below \in BOOLEAN, NEW sign \in 0 .. 1, NEW subtract \in BOOLEAN
  PROVE  \E q \in 0 .. 2 * Mantissas - 1, round \in 0 .. 1, low \in 0 .. RoundBit - 1, up \in 0 .. 1 :
           RoundedAs(z, x, below, sign, subtract, q, round, low, up)
<1>1. Format /\ MinExp \in Int /\ PosInf \in Nat
  BY Sizes DEF Room
<1>2. PICK m \in Nat : m = Mantissas /\ m >= 2 /\ m % 2 = 0
  <2>1. PICK j \in Nat : Mantissas = 2 * j /\ Mantissas >= 2
    BY <1>1, Sizes
  <2>2. QED
    BY <2>1
<1>3. PICK r \in Nat \ {0} : r = RoundBit
  BY VectorSizes
<1>4. PICK f \in 0 .. 4 * m - 1, low \in 0 .. r - 1 : f = z \div r /\ low = z % r /\ z = (r * f) + low
  <2>1. z \in 0 .. (r * (4 * m)) - 1
    <3>1. (4 * m) * r = r * (4 * m) /\ r * (4 * m) \in Int
      OBVIOUS
    <3>2. QED
      BY <1>2, <1>3, <3>1
  <2>2. 4 * m \in Nat
    BY <1>2
  <2>3. QED
    BY <2>1, <2>2, QuotientBelow
<1>5. PICK q \in 0 .. 2 * m - 1, round \in 0 .. 1 : q = f \div 2 /\ round = f % 2 /\ f = 2 * q + round
  BY <1>2, <1>4
<1>6. z = (2 * q + round) * r + low
  <2>1. r * f = f * r
    BY <1>4
  <2>2. QED
    BY <1>4, <1>5, <2>1
<1>7. x >= 1 <=> q >= m
  <2>1. f >= 2 * m => r * f >= r * (2 * m)
    BY <1>2, <1>3, <1>4
  <2>2. f <= 2 * m - 1 => r * f <= r * (2 * m - 1)
    BY <1>2, <1>3, <1>4
  <2>3. r * (2 * m - 1) = r * (2 * m) - r /\ (2 * m) * r = r * (2 * m) /\ r * (2 * m) \in Int
    BY <1>2, <1>3
  <2>4. f >= 2 * m <=> z >= (2 * m) * r
    BY <1>2, <1>3, <1>4, <2>1, <2>2, <2>3
  <2>5. f >= 2 * m <=> q >= m
    BY <1>2, <1>5
  <2>6. QED
    BY <1>2, <1>3, <2>4, <2>5
<1>8. PICK mag \in Int : mag = (PlaceOf(x) - MinExp) * m + q
  <2>1. PlaceOf(x) - MinExp \in Int
    BY <1>1 DEF PlaceOf
  <2>2. (PlaceOf(x) - MinExp) * m \in Int
    BY <2>1
  <2>3. QED
    BY <2>2
<1>9. x * m + (q % m) = mag
  <2>1. CASE x = 0
    <3>1. q < m /\ q % m = q /\ PlaceOf(x) - MinExp = 0 /\ 0 * m = 0
      BY <1>1, <1>7, <2>1 DEF PlaceOf
    <3>2. QED
      BY <1>8, <2>1, <3>1
  <2>2. CASE x >= 1
    <3>1. q = m * 1 + (q - m) /\ q - m \in 0 .. m - 1
      BY <1>7, <2>2
    <3>2. q % m = q - m
      <4>1. m \in Nat \ {0} /\ q \in Int /\ 1 \in Int
        BY <1>2
      <4>2. QED
        BY <3>1, <4>1, DivisionUnique
    <3>3. PlaceOf(x) - MinExp = x - 1 /\ (x - 1) * m = x * m - m /\ x * m \in Int
      BY <1>1, <2>2 DEF PlaceOf
    <3>4. QED
      BY <1>8, <3>2, <3>3
  <2>3. QED
    BY <2>1, <2>2
<1>10. PICK up \in 0 .. 1 : up = 1 <=> round = 1 /\ (low # 0 \/ below \/ q % 2 = 1)
  OBVIOUS
<1>11. mag % 2 = q % 2
  <2>1. PICK i \in Int : i = PlaceOf(x) - MinExp
    BY <1>1 DEF PlaceOf
  <2>2. PICK j \in Nat : m = 2 * j
    BY <1>2
  <2>3. i * (2 * j) = 2 * (i * j) /\ i * j \in Int
    OBVIOUS
  <2>4. PICK n \in Int : n = i * j
    BY <2>3
  <2>5. mag = 2 * n + q
    BY <1>8, <2>1, <2>2, <2>3, <2>4
  <2>6. QED
    BY <2>5
<1>12. Rounded(z, x, below, sign, subtract) =
         IF x >= ExpOnes THEN WithSign(sign, PosInf)
         ELSE WithSign(IF mag = 0 /\ round = 0 /\ low = 0 /\ ~ below /\ subtract THEN 0 ELSE sign,
                       mag + up)
  <2>1. CASE x >= ExpOnes
    <3>1. Rounded(z, x, below, sign, subtract) =
            WithSign(IF PosInf - 1 = 0 /\ FALSE /\ subtract THEN 0 ELSE sign, PosInf - 1 + 1)
      BY <2>1 DEF Rounded, RoundUp, Bool
    <3>2. PosInf - 1 + 1 = PosInf
      BY <1>1
    <3>3. QED
      BY <2>1, <3>1, <3>2
  <2>2. CASE ~ (x >= ExpOnes)
    <3>1. /\ z \div 2^(2 * P + 3) = f /\ z % 2^(2 * P + 3) = low /\ f \div 2 = q /\ f % 2 = round
          /\ 2^ManBits = m
      BY <1>2, <1>3, <1>4, <1>5 DEF RoundBit, Mantissas
    <3>2. Rounded(z, x, below, sign, subtract) =
            LET s == round = 1
                t == low # 0 \/ below
            IN WithSign(IF (mag = 0 /\ ~ s /\ ~ t) /\ subtract THEN 0 ELSE sign,
                        mag + Bool(s /\ (t \/ mag % 2 = 1)))
      BY <1>9, <2>2, <3>1, Zenon DEF Rounded, RoundUp
    <3>3. Bool((round = 1) /\ ((low # 0 \/ below) \/ mag % 2 = 1)) = up
      BY <1>10, <1>11 DEF Bool
    <3>4. ~ (round = 1) <=> round = 0
      BY <1>5
    <3>5. QED
      BY <2>2, <3>2, <3>3, <3>4, Zenon
  <2>3. QED
    BY <2>1, <2>2
<1>13. q \in 0 .. 2 * Mantissas - 1 /\ low \in 0 .. RoundBit - 1
  BY <1>2, <1>3
<1>14. z = (2 * q + round) * RoundBit + low /\ (x >= 1 <=> q >= Mantissas)
       /\ mag = (PlaceOf(x) - MinExp) * Mantissas + q
  BY <1>2, <1>3, <1>6, <1>7, <1>8
<1>15. RoundedAs(z, x, below, sign, subtract, q, round, low, up)
  BY <1>10, <1>12, <1>14, Zenon DEF RoundedAs
<1>16. QED
  BY <1>13, <1>15

(* What is rounded is the exact value v, of which the vector holds s units,  *)
(* scaled by k; what is below them only decides on the sticky bit.           *)
Scaled(s, k, unit, r, v, bit, f, low, h) ==
  /\ s \in Nat /\ k \in Nat \ {0} /\ unit \in Nat \ {0} /\ r \in 0 .. unit - 1
  /\ v \in Nat /\ v = s * unit + r
  /\ bit \in Nat \ {0} /\ f \in Nat /\ low \in 0 .. bit - 1 /\ s * k = f * bit + low
  /\ r # 0 => \E j \in Nat : bit = j * k
  /\ h \in Nat \ {0} /\ h * k = bit * unit

LEMMA ScaledParts ==
  ASSUME NEW s, NEW k, NEW unit, NEW r, NEW v, NEW bit, NEW f, NEW low, NEW h,
         Scaled(s, k, unit, r, v, bit, f, low, h)
  PROVE  \E rest \in 0 .. h - 1 : v = f * h + rest /\ (rest = 0 <=> low = 0 /\ r = 0)
<1> USE DEF Scaled
<1>1. v * k = (f * h) * k + (low * unit + r * k)
  <2>1. v * k = (s * k) * unit + r * k
    OBVIOUS
  <2>2. (s * k) * unit = (f * bit) * unit + low * unit
    <3>1. PICK fb \in Int : fb = f * bit
      OBVIOUS
    <3>2. (fb + low) * unit = fb * unit + low * unit
      OBVIOUS
    <3>3. QED
      BY <3>1, <3>2
  <2>3. (f * bit) * unit = (f * h) * k
    <3>1. (f * bit) * unit = f * (bit * unit) /\ f * (h * k) = (f * h) * k
      OBVIOUS
    <3>2. QED
      BY <3>1, Zenon
  <2>4. QED
    BY <2>1, <2>2, <2>3
<1>2. PICK rest \in Int : rest = v - f * h
  OBVIOUS
<1>3. rest * k = low * unit + r * k
  <2>1. (v - f * h) * k = v * k - (f * h) * k /\ (f * h) * k \in Int /\ low * unit \in Int /\ r * k \in Int
    OBVIOUS
  <2>2. QED
    BY <1>1, <1>2, <2>1
<1>4. rest >= 0 /\ (rest = 0 <=> low = 0 /\ r = 0)
  <2>1. low * unit >= 0 /\ r * k >= 0 /\ (low * unit = 0 <=> low = 0) /\ (r * k = 0 <=> r = 0)
    OBVIOUS
  <2>2. rest * k >= 0 /\ (rest * k = 0 <=> low = 0 /\ r = 0)
    BY <1>3, <2>1
  <2>3. (rest * k >= 0 <=> rest >= 0) /\ (rest * k = 0 <=> rest = 0)
    OBVIOUS
  <2>4. QED
    BY <2>2, <2>3
<1>5. rest < h
  <2>1. CASE r = 0
    <3>1. low * unit < bit * unit
      OBVIOUS
    <3>2. rest * k < h * k
      BY <1>3, <2>1, <3>1
    <3>3. QED
      BY <3>2
  <2>2. CASE r # 0
    <3>1. PICK j \in Nat : bit = j * k
      BY <2>2
    <3>2. PICK l \in Int : l = s - f * j
      OBVIOUS
    <3>3. low = l * k
      <4>1. (s - f * j) * k = s * k - f * (j * k)
        OBVIOUS
      <4>2. QED
        BY <3>1, <3>2, <4>1
    <3>4. l < j
      <4>1. l * k < j * k
        BY <3>1, <3>3
      <4>2. QED
        BY <4>1
    <3>5. rest = l * unit + r
      <4>1. (l * unit + r) * k = (l * k) * unit + r * k
        OBVIOUS
      <4>2. rest * k = (l * unit + r) * k
        BY <1>3, <3>3, <4>1
      <4>3. QED
        BY <4>2
    <3>6. h = j * unit
      <4>1. (j * unit) * k = (j * k) * unit
        OBVIOUS
      <4>2. h * k = (j * unit) * k
        BY <3>1, <4>1
      <4>3. QED
        BY <4>2
    <3>7. l * unit + unit <= j * unit
      <4>1. (l + 1) * unit <= j * unit
        BY <3>4
      <4>2. QED
        BY <4>1
    <3>8. QED
      BY <3>5, <3>6, <3>7
  <2>3. QED
    BY <2>1, <2>2
<1>6. v = f * h + rest
  BY <1>2
<1>7. QED
  BY <1>4, <1>5, <1>6

(* A value in a place of the grid 2^g, in one piece.                         *)
OnGrid(b, g, q, h, rest, v, up, m) ==
  /\ Base(b) /\ g \in Int /\ g >= MinExp /\ g - b <= MaxBits
  /\ q \in 0 .. 2 * Mantissas - 1 /\ (q >= Mantissas \/ g = MinExp)
  /\ h \in Nat \ {0} /\ 2^(g - b) = 2 * h
  /\ rest \in 0 .. 2 * h - 1 /\ v = q * (2 * h) + rest
  /\ up \in 0 .. 1 /\ (up = 1 <=> rest > h \/ (rest = h /\ q % 2 = 1))
  /\ m = (g - MinExp) * Mantissas + q

LEMMA OnGridNearest ==
  ASSUME Format, NEW b, NEW g, NEW q, NEW h, NEW rest, NEW v, NEW up, NEW m,
         OnGrid(b, g, q, h, rest, v, up, m)
  PROVE  m < PosInf => Nearest(v, b, m + up) /\ m + up \in 0 .. PosInf
<1>1. /\ Base(b) /\ g \in Int /\ g >= MinExp /\ g - b <= MaxBits
      /\ q \in 0 .. 2 * Mantissas - 1 /\ (q >= Mantissas \/ g = MinExp)
      /\ h \in Nat \ {0} /\ 2^(g - b) = 2 * h
      /\ rest \in 0 .. 2 * h - 1 /\ v = q * (2 * h) + rest
      /\ up \in 0 .. 1 /\ (up = 1 <=> rest > h \/ (rest = h /\ q % 2 = 1))
      /\ m = (g - MinExp) * Mantissas + q
  BY DEF OnGrid
<1>2. QED
  BY <1>1, NearestOnGrid

ToRound(b, s, k, z, x, unit, r, v, below) ==
  /\ Base(b) /\ s \in Nat /\ k \in Nat \ {0} /\ z = s * k /\ z < (4 * Mantissas) * RoundBit
  /\ x \in Nat /\ (x >= 1 <=> z >= (2 * Mantissas) * RoundBit)
  /\ unit \in Nat \ {0} /\ r \in 0 .. unit - 1 /\ v = s * unit + r
  /\ r # 0 => \E j \in Nat : RoundBit = j * k
  /\ below \in BOOLEAN /\ (below <=> r # 0)
  /\ x < ExpOnes => \E h \in Nat \ {0} : h * k = RoundBit * unit /\ 2^(PlaceOf(x) - b) = 2 * h
  /\ x >= ExpOnes => v >= Val(PosInf, b)

LEMMA VectorRounds ==
  ASSUME Room, NEW b, NEW s, NEW k, NEW z, NEW x, NEW unit, NEW r, NEW v, NEW below,
         ToRound(b, s, k, z, x, unit, r, v, below), NEW sign \in 0 .. 1, NEW subtract \in BOOLEAN
  PROVE  \E n \in 0 .. PosInf :
           /\ Nearest(v, b, n)
           /\ Rounded(z, x, below, sign, subtract) = WithSign(IF v = 0 /\ subtract THEN 0 ELSE sign, n)
<1>0. /\ Base(b) /\ s \in Nat /\ k \in Nat \ {0} /\ z = s * k /\ z < (4 * Mantissas) * RoundBit
      /\ x \in Nat /\ (x >= 1 <=> z >= (2 * Mantissas) * RoundBit)
      /\ unit \in Nat \ {0} /\ r \in 0 .. unit - 1 /\ v = s * unit + r
      /\ r # 0 => \E j \in Nat : RoundBit = j * k
      /\ below \in BOOLEAN /\ (below <=> r # 0)
      /\ x < ExpOnes => \E h \in Nat \ {0} : h * k = RoundBit * unit /\ 2^(PlaceOf(x) - b) = 2 * h
      /\ x >= ExpOnes => v >= Val(PosInf, b)
  BY DEF ToRound
<1> USE <1>0
<1>1. Format /\ MinExp \in Int /\ PosInf \in Nat /\ Fields \in Nat /\ Fields >= 4 /\ MaxBits \in Nat
      /\ ExpOnes = Fields - 1 /\ PosInf = (Fields - 1) * Mantissas
  BY Sizes DEF Room
<1>2. PICK m \in Nat : m = Mantissas /\ m >= 2
  BY <1>1, Sizes
<1>3. PICK bit \in Nat \ {0} : bit = RoundBit
  BY VectorSizes
<1>4. z \in Nat /\ v \in Nat /\ b \in Int
  <2>1. s * k \in Nat /\ s * unit \in Nat
    OBVIOUS
  <2>2. QED
    BY <2>1 DEF Base
<1>as. PICK q \in 0 .. 2 * Mantissas - 1, round \in 0 .. 1, low \in 0 .. RoundBit - 1, up \in 0 .. 1 :
        RoundedAs(z, x, below, sign, subtract, q, round, low, up)
  <2>1. z \in Nat /\ z < (4 * Mantissas) * RoundBit /\ x \in Nat /\ sign \in 0 .. 1
        /\ (x >= 1 <=> z >= (2 * Mantissas) * RoundBit) /\ subtract \in BOOLEAN /\ below \in BOOLEAN
    BY <1>4
  <2>2. QED
    BY <2>1, RoundedIs
<1>5. /\ z = (2 * q + round) * RoundBit + low
      /\ x >= 1 <=> q >= Mantissas
      /\ up = 1 <=> round = 1 /\ (low # 0 \/ below \/ q % 2 = 1)
      /\ LET g == (PlaceOf(x) - MinExp) * Mantissas + q
         IN Rounded(z, x, below, sign, subtract) =
              IF x >= ExpOnes THEN WithSign(sign, PosInf)
              ELSE WithSign(IF g = 0 /\ round = 0 /\ low = 0 /\ ~ below /\ subtract
                            THEN 0 ELSE sign, g + up)
  BY <1>as DEF RoundedAs
<1>10. /\ q \in 0 .. 2 * m - 1 /\ round \in 0 .. 1 /\ low \in 0 .. bit - 1 /\ up \in 0 .. 1
       /\ z = (2 * q + round) * bit + low
       /\ x >= 1 <=> q >= m
       /\ up = 1 <=> round = 1 /\ (low # 0 \/ below \/ q % 2 = 1)
  BY <1>2, <1>3, <1>5
<1>6. v = 0 <=> q = 0 /\ round = 0 /\ low = 0 /\ ~ below
  <2>1. v = 0 <=> s = 0 /\ r = 0
    <3>1. s * unit >= 0 /\ (s * unit = 0 <=> s = 0)
      OBVIOUS
    <3>2. QED
      BY <3>1
  <2>2. s = 0 <=> z = 0
    OBVIOUS
  <2>3. z = 0 <=> q = 0 /\ round = 0 /\ low = 0
    <3>1. PICK f \in Nat : f = 2 * q + round /\ (f = 0 <=> q = 0 /\ round = 0)
      OBVIOUS
    <3>2. f * bit >= 0 /\ (f * bit = 0 <=> f = 0)
      OBVIOUS
    <3>3. QED
      BY <1>10, <3>1, <3>2
  <2>4. QED
    BY <2>1, <2>2, <2>3
<1>7. CASE x >= ExpOnes
  <2>1. Nearest(v, b, PosInf)
    BY <1>1, <1>4, <1>7, NearestOverflow
  <2>2. v # 0
    BY <1>1, <1>2, <1>10, <1>6, <1>7
  <2>3. Rounded(z, x, below, sign, subtract) = WithSign(sign, PosInf)
    BY <1>5, <1>7, Zenon
  <2>4. PosInf \in 0 .. PosInf
    BY <1>1
  <2>5. QED
    BY <2>1, <2>2, <2>3, <2>4
<1>8. CASE ~ (x >= ExpOnes)
  <2>1. x < ExpOnes /\ x \in 0 .. Fields - 2
    BY <1>1, <1>8
  <2>2. PICK h \in Nat \ {0} : h * k = bit * unit /\ 2^(PlaceOf(x) - b) = 2 * h
    BY <1>3, <2>1
  <2>3. PICK f \in Nat : f = 2 * q + round
    OBVIOUS
  <2>4. PICK rest \in 0 .. h - 1 : v = f * h + rest /\ (rest = 0 <=> low = 0 /\ r = 0)
    <3>1. s * k = f * bit + low
      BY <1>10, <2>3
    <3>2. r # 0 => \E j \in Nat : bit = j * k
      BY <1>3
    <3>3. /\ s \in Nat /\ k \in Nat \ {0} /\ unit \in Nat \ {0} /\ r \in 0 .. unit - 1
          /\ v \in Nat /\ v = s * unit + r /\ bit \in Nat \ {0} /\ f \in Nat /\ low \in 0 .. bit - 1
          /\ h \in Nat \ {0} /\ h * k = bit * unit
      BY <1>4, <1>10, <2>2
    <3>4. Scaled(s, k, unit, r, v, bit, f, low, h)
      BY <3>1, <3>2, <3>3 DEF Scaled
    <3>5. QED
      BY <3>4, ScaledParts
  <2>5. PICK g \in Int : g = PlaceOf(x) /\ g >= MinExp /\ g - b <= MaxBits /\ g - MinExp = (IF x = 0 THEN 0 ELSE x - 1)
    <3>1. MinExp + Fields - b <= MaxBits
      BY DEF Base
    <3>2. PICK g \in Int : g = PlaceOf(x)
      BY <1>1 DEF PlaceOf
    <3>3. g = (IF x = 0 THEN MinExp ELSE MinExp + x - 1) /\ b \in Int /\ MinExp \in Int /\ MaxBits \in Nat
      BY <1>1, <1>4, <3>2 DEF PlaceOf
    <3>4. g >= MinExp /\ g - b <= MaxBits /\ g - MinExp = (IF x = 0 THEN 0 ELSE x - 1)
      BY <1>1, <2>1, <3>1, <3>3
    <3>5. QED
      BY <3>2, <3>4
  <2>6. PICK full \in 0 .. 2 * h - 1 : full = round * h + rest
    BY <2>4
  <2>7. v = q * (2 * h) + full
    <3>1. (2 * q + round) * h = q * (2 * h) + round * h
      BY <1>10, <2>2
    <3>2. round * h \in Int /\ q * (2 * h) \in Int
      BY <1>10, <2>2
    <3>3. QED
      BY <2>3, <2>4, <2>6, <3>1, <3>2
  <2>8. up = 1 <=> full > h \/ (full = h /\ q % 2 = 1)
    <3>1. round = 0 => full = rest
      BY <2>4, <2>6
    <3>2. round = 1 => full = h + rest
      BY <2>4, <2>6
    <3>3. rest = 0 <=> low = 0 /\ ~ below
      BY <2>4
    <3>4. QED
      BY <1>10, <2>4, <3>1, <3>2, <3>3
  <2>9. PICK n \in Int : n = (g - MinExp) * m + q
    BY <1>2, <2>5
  <2>10. n < PosInf /\ (q >= m \/ g = MinExp) /\ (n = 0 <=> q = 0)
    <3>1. CASE x = 0
      <4>1. g - MinExp = 0 /\ 0 * m = 0 /\ q < m
        BY <1>10, <2>5, <3>1
      <4>2. m <= PosInf
        <5>1. 1 * m <= (Fields - 1) * m
          BY <1>1, <1>2
        <5>2. QED
          BY <1>1, <1>2, <5>1
      <4>3. n = q
        <5>1. (g - MinExp) * m = 0
          BY <4>1
        <5>2. QED
          BY <2>9, <5>1
      <4>4. QED
        BY <1>1, <1>2, <2>5, <3>1, <4>1, <4>2, <4>3
    <3>2. CASE x >= 1
      <4>1. g - MinExp = x - 1 /\ q >= m
        BY <1>10, <2>5, <3>2
      <4>2. (x - 1) * m <= (Fields - 3) * m /\ (Fields - 3) * m = (Fields - 1) * m - 2 * m /\ (x - 1) * m >= 0
        BY <1>1, <1>2, <2>1, <3>2
      <4>3. QED
        BY <1>1, <1>2, <2>9, <4>1, <4>2
    <3>3. QED
      BY <3>1, <3>2
  <2>11. Nearest(v, b, n + up) /\ n + up \in 0 .. PosInf
    <3>1. n = (g - MinExp) * Mantissas + q /\ q \in 0 .. 2 * Mantissas - 1 /\ (q >= Mantissas \/ g = MinExp)
      BY <1>2, <2>9, <2>10
    <3>2. 2^(g - b) = 2 * h
      BY <2>2, <2>5
    <3>3. /\ Format /\ Base(b) /\ g \in Int /\ g >= MinExp /\ g - b <= MaxBits
          /\ h \in Nat \ {0} /\ full \in 0 .. 2 * h - 1 /\ v = q * (2 * h) + full /\ up \in 0 .. 1
          /\ up = 1 <=> full > h \/ (full = h /\ q % 2 = 1)
      BY <1>1, <1>10, <2>2, <2>5, <2>6, <2>7, <2>8
    <3>4. OnGrid(b, g, q, h, full, v, up, n)
      BY <3>1, <3>2, <3>3 DEF OnGrid
    <3>6. n < PosInf => Nearest(v, b, n + up) /\ n + up \in 0 .. PosInf
      BY <1>1, <3>4, OnGridNearest
    <3>5. QED
      BY <2>10, <3>6
  <2>12. Rounded(z, x, below, sign, subtract) =
            WithSign(IF n = 0 /\ round = 0 /\ low = 0 /\ ~ below /\ subtract THEN 0 ELSE sign, n + up)
    BY <1>2, <1>5, <1>8, <2>5, <2>9, Zenon
  <2>13. Rounded(z, x, below, sign, subtract) = WithSign(IF v = 0 /\ subtract THEN 0 ELSE sign, n + up)
    BY <1>6, <2>10, <2>12
  <2>14. QED
    BY <2>11, <2>13
<1>9. QED
  BY <1>7, <1>8

-----------------------------------------------------------------------------
(* The exact sum.                                                           *)

(* The sum of two reals in units of 2^b: of their values, or the difference  *)
(* with the sign of the larger.                                             *)
IsSum(s1, n1, e1, s2, n2, e2, b, t, v, p, y) ==
  /\ s1 \in 0 .. 1 /\ n1 \in Nat /\ e1 \in Int /\ s2 \in 0 .. 1 /\ n2 \in Nat /\ e2 \in Int
  /\ b \in Int /\ e1 - b \in 0 .. MaxBits /\ e2 - b \in 0 .. MaxBits
  /\ t = SumOf(s1, n1, e1, s2, n2, e2) /\ v = At(t.num, t.exp, b)
  /\ p = At(n1, e1, b) /\ y = At(n2, e2, b)

LEMMA SumValue ==
  ASSUME Format, NEW s1, NEW n1, NEW e1, NEW s2, NEW n2, NEW e2, NEW b, NEW t, NEW v, NEW p, NEW y,
         IsSum(s1, n1, e1, s2, n2, e2, b, t, v, p, y)
  PROVE  /\ t.num \in Nat /\ t.exp \in Int /\ t.exp - b \in 0 .. MaxBits
         /\ t.exp = (IF e1 < e2 THEN e1 ELSE e2) /\ t.sign \in 0 .. 1
         /\ v \in Nat /\ p \in Nat /\ y \in Nat
         /\ v = IF s1 = s2 THEN p + y ELSE IF p >= y THEN p - y ELSE y - p
         /\ t.num = 0 <=> v = 0
         /\ v # 0 => t.sign = IF s1 = s2 \/ p >= y THEN s1 ELSE s2
<1> USE DEF IsSum
<1>1. PICK low \in Int, d1 \in Nat, d2 \in Nat, j \in Nat :
        /\ low = (IF e1 < e2 THEN e1 ELSE e2) /\ d1 = e1 - low /\ d2 = e2 - low /\ j = low - b
        /\ j + d1 = e1 - b /\ j + d2 = e2 - b
  OBVIOUS
<1>2. j + d1 <= MaxBits /\ j + d2 <= MaxBits /\ j \in 0 .. MaxBits /\ MaxBits \in Nat
  BY <1>1 DEF Format
<1>3. /\ 2^(j + d1) = 2^j * 2^d1 /\ 2^(j + d2) = 2^j * 2^d2
      /\ 2^j \in Nat \ {0} /\ 2^d1 \in Nat \ {0} /\ 2^d2 \in Nat \ {0}
  BY <1>1, <1>2, PowersAdd
<1>4. PICK w \in Nat \ {0}, x1 \in Nat \ {0}, x2 \in Nat \ {0} : w = 2^j /\ x1 = 2^d1 /\ x2 = 2^d2
  BY <1>3
<1>5. PICK a1 \in Nat, a2 \in Nat : a1 = n1 * x1 /\ a2 = n2 * x2
  <2>1. n1 * x1 \in Nat /\ n2 * x2 \in Nat
    OBVIOUS
  <2>2. QED
    BY <2>1
<1>6. p = a1 * w /\ y = a2 * w
  <2>1. 2^(e1 - b) = w * x1 /\ 2^(e2 - b) = w * x2
    BY <1>1, <1>3, <1>4
  <2>2. n1 * (w * x1) = (n1 * x1) * w /\ n2 * (w * x2) = (n2 * x2) * w
    OBVIOUS
  <2>3. QED
    BY <1>5, <2>1, <2>2 DEF At
<1>7. PICK total \in Int : total = (IF s1 = 1 THEN -a1 ELSE a1) + (IF s2 = 1 THEN -a2 ELSE a2)
  OBVIOUS
<1>8. /\ t.sign = (IF total < 0 THEN 1 ELSE 0) /\ t.num = (IF total < 0 THEN -total ELSE total)
      /\ t.exp = low
  <2>1. (-n1) * x1 = -(n1 * x1) /\ (-n2) * x2 = -(n2 * x2)
    OBVIOUS
  <2>2. total = (IF s1 = 1 THEN -n1 ELSE n1) * 2^d1 + (IF s2 = 1 THEN -n2 ELSE n2) * 2^d2
    BY <1>4, <1>5, <1>7, <2>1
  <2>3. total = (IF s1 = 1 THEN -n1 ELSE n1) * 2^(e1 - low) + (IF s2 = 1 THEN -n2 ELSE n2) * 2^(e2 - low)
    BY <1>1, <2>2
  <2>4. t = [sign |-> IF total < 0 THEN 1 ELSE 0, num |-> IF total < 0 THEN -total ELSE total, exp |-> low]
    BY <1>1, <2>3, Zenon DEF SumOf
  <2>5. QED
    BY <2>4
<1>9. t.num \in Nat /\ t.sign \in 0 .. 1 /\ v = t.num * w
  <2>1. t.num \in Nat /\ t.sign \in 0 .. 1
    BY <1>8
  <2>2. 2^(t.exp - b) = w
    BY <1>1, <1>4, <1>8
  <2>3. QED
    BY <2>1, <2>2 DEF At
<1>10. v \in Nat /\ p \in Nat /\ y \in Nat
  <2>1. t.num * w \in Nat /\ a1 * w \in Nat /\ a2 * w \in Nat
    BY <1>9
  <2>2. QED
    BY <1>6, <1>9, <2>1
<1>11. /\ t.num = 0 <=> v = 0
       /\ p >= y <=> a1 >= a2
  <2>1. PICK c \in Nat : c = t.num
    BY <1>9
  <2>2. c * w = 0 <=> c = 0
    OBVIOUS
  <2>3. a2 * w <= a1 * w <=> a2 <= a1
    BY Cancel
  <2>4. QED
    BY <1>6, <1>9, <1>10, <2>1, <2>2, <2>3
<1>12. v = IF s1 = s2 THEN p + y ELSE IF p >= y THEN p - y ELSE y - p
  <2>1. (a1 + a2) * w = a1 * w + a2 * w /\ (a1 - a2) * w = a1 * w - a2 * w /\ (a2 - a1) * w = a2 * w - a1 * w
    OBVIOUS
  <2>2. t.num = IF s1 = s2 THEN a1 + a2 ELSE IF a1 >= a2 THEN a1 - a2 ELSE a2 - a1
    BY <1>7, <1>8
  <2>3. CASE s1 = s2
    BY <1>6, <1>9, <2>1, <2>2, <2>3
  <2>4. CASE s1 # s2 /\ a1 >= a2
    BY <1>6, <1>9, <1>11, <2>1, <2>2, <2>4
  <2>5. CASE s1 # s2 /\ ~ (a1 >= a2)
    BY <1>6, <1>9, <1>11, <2>1, <2>2, <2>5
  <2>6. QED
    BY <2>3, <2>4, <2>5
<1>13. v # 0 => t.sign = IF s1 = s2 \/ p >= y THEN s1 ELSE s2
  <2>1. t.num # 0 => t.sign = IF s1 = s2 \/ a1 >= a2 THEN s1 ELSE s2
    BY <1>7, <1>8
  <2>2. QED
    BY <1>11, <2>1
<1>14. t.exp \in Int /\ t.exp - b \in 0 .. MaxBits /\ t.exp = (IF e1 < e2 THEN e1 ELSE e2)
  BY <1>1, <1>2, <1>8
<1>15. QED
  BY <1>9, <1>10, <1>11, <1>12, <1>13, <1>14

-----------------------------------------------------------------------------
(* The exponents of product and addend, and their distance.                 *)

(* The exponent of the product's last place, as the unit takes it; a zero    *)
(* product is given the lowest.                                             *)
ProductPlace(a, b) == ExponentProduct(a, b) - Bias - 2 * ManBits

FiniteOperands(a, b, c) == /\ a \in Patterns /\ b \in Patterns /\ c \in Patterns
                           /\ Field(a) # ExpOnes /\ Field(b) # ExpOnes /\ Field(c) # ExpOnes

LEMMA ProductExponent ==
  ASSUME Room, NEW a, NEW b, NEW c, FiniteOperands(a, b, c),
         NEW n, n = Significand(a) * Significand(b), NEW ep, ep = ProductPlace(a, b)
  PROVE  /\ n \in Nat /\ n < (2 * Mantissas) * (2 * Mantissas)
         /\ ep \in Int /\ ep >= 2 * MinExp /\ ep <= 2 * MinExp + 4 * Bias - 2
         /\ Exponent(a) + Exponent(b) \in Int
         /\ Exponent(a) + Exponent(b) - Fine \in 0 .. MaxBits
         /\ n # 0 => ep = Exponent(a) + Exponent(b)
         /\ n # 0 /\ ep > 2 * MinExp => n >= Mantissas
         /\ n = 0 => ep = 2 * MinExp
         /\ ExponentProduct(a, b) = ep + Bias + 2 * ManBits
         /\ ExponentDifference(a, b, c) = Exponent(c) - ep - ManBits
         /\ At(n, Exponent(a) + Exponent(b), Fine) = n * 2^(ep - Fine)
<1>1. /\ MinExp \in Int /\ Bias \in Nat /\ ManBits \in Nat /\ MinExp = 1 - Bias - ManBits /\ Bias >= 1
      /\ Fine = 2 * MinExp - 2 /\ MaxBits \in Nat /\ 4 * Bias <= MaxBits
      /\ Mantissas \in Nat /\ Mantissas >= 2
  BY FineBase, Sizes DEF Room, Format
<1>2. /\ a \in Patterns /\ b \in Patterns /\ c \in Patterns
      /\ Field(a) # ExpOnes /\ Field(b) # ExpOnes /\ Field(c) # ExpOnes
  BY DEF FiniteOperands
<1>3. PICK m \in Nat, na \in Nat, nb \in Nat, ea \in Int, eb \in Int :
        /\ m = Mantissas /\ na = Significand(a) /\ nb = Significand(b)
        /\ ea = Exponent(a) /\ eb = Exponent(b)
        /\ na <= 2 * m - 1 /\ nb <= 2 * m - 1
        /\ ea >= MinExp /\ ea <= MinExp + 2 * Bias - 1 /\ eb >= MinExp /\ eb <= MinExp + 2 * Bias - 1
        /\ ea > MinExp => na >= m
        /\ eb > MinExp => nb >= m
  <2>1. /\ Significand(a) \in 0 .. 2 * Mantissas - 1 /\ Significand(a) \in Nat
        /\ Exponent(a) \in MinExp .. MinExp + 2 * Bias - 1 /\ Exponent(a) \in Int
        /\ Exponent(a) > MinExp => Significand(a) >= Mantissas
    BY <1>2, Operand
  <2>2. /\ Significand(b) \in 0 .. 2 * Mantissas - 1 /\ Significand(b) \in Nat
        /\ Exponent(b) \in MinExp .. MinExp + 2 * Bias - 1 /\ Exponent(b) \in Int
        /\ Exponent(b) > MinExp => Significand(b) >= Mantissas
    BY <1>2, Operand
  <2>3. QED
    BY <1>1, <2>1, <2>2
<1>4. /\ n \in Nat /\ n < (2 * m) * (2 * m) /\ (n = 0 <=> na = 0 \/ nb = 0)
      /\ na >= m /\ nb >= 1 => n >= m
      /\ nb >= m /\ na >= 1 => n >= m
  <2>1. na * nb \in Nat /\ na * nb <= (2 * m) * nb /\ (2 * m) * nb < (2 * m) * (2 * m)
    BY <1>1, <1>3
  <2>2. na * nb = 0 <=> na = 0 \/ nb = 0
    BY <1>3
  <2>3. na >= m /\ nb >= 1 => na * nb >= m
    <3>1. na >= m /\ nb >= 1 => na * nb >= na * 1
      BY <1>3
    <3>2. QED
      BY <1>3, <2>1, <3>1
  <2>4. nb >= m /\ na >= 1 => na * nb >= m
    <3>1. nb >= m /\ na >= 1 => nb * na >= nb * 1 /\ nb * na = na * nb
      BY <1>3
    <3>2. QED
      BY <1>3, <2>1, <3>1
  <2>5. n = na * nb
    BY <1>3
  <2>6. (2 * m) * nb \in Int /\ (2 * m) * (2 * m) \in Int
    BY <1>3
  <2>7. QED
    BY <2>1, <2>2, <2>3, <2>4, <2>5, <2>6
<1>5. /\ na # 0 => Biased(a) = ea + Bias + ManBits
      /\ nb # 0 => Biased(b) = eb + Bias + ManBits
      /\ IsZero(a) <=> na = 0
      /\ IsZero(b) <=> nb = 0
  BY <1>2, <1>3, Operand
<1>6. ExponentProduct(a, b) = IF n = 0 THEN 2 - Bias ELSE ea + eb + Bias + 2 * ManBits
  <2>1. CASE n = 0
    BY <1>4, <1>5, <2>1 DEF ExponentProduct
  <2>2. CASE n # 0
    <3>1. ExponentProduct(a, b) = (ea + Bias + ManBits) + (eb + Bias + ManBits) - Bias
      BY <1>4, <1>5, <2>2 DEF ExponentProduct
    <3>2. QED
      BY <1>1, <2>2, <3>1
  <2>3. QED
    BY <2>1, <2>2
<1>7. /\ ep \in Int /\ (n # 0 => ep = ea + eb) /\ (n = 0 => ep = 2 * MinExp)
      /\ ExponentProduct(a, b) = ep + Bias + 2 * ManBits
  BY <1>1, <1>3, <1>6 DEF ProductPlace
<1>8. ep >= 2 * MinExp /\ ep <= 2 * MinExp + 4 * Bias - 2 /\ ea + eb - Fine \in 0 .. MaxBits
  BY <1>1, <1>3, <1>7
<1>9. n # 0 /\ ep > 2 * MinExp => n >= m
  BY <1>1, <1>3, <1>4, <1>7
<1>10. ExponentDifference(a, b, c) = Exponent(c) - ep - ManBits
  <2>1. ExponentAddend(c) = Exponent(c) + Bias + ManBits /\ Exponent(c) \in Int
    BY <1>2, Operand
  <2>2. QED
    BY <1>1, <1>7, <2>1 DEF ExponentDifference
<1>11. At(n, ea + eb, Fine) = n * 2^(ep - Fine)
  <2>1. CASE n = 0
    <3>1. (ea + eb) - Fine \in 0 .. MaxBits /\ ep - Fine \in 0 .. MaxBits
      BY <1>1, <1>8, <1>7
    <3>2. 2^((ea + eb) - Fine) \in Nat /\ 2^(ep - Fine) \in Nat
      BY <3>1 DEF PowersOfTwo, Room, Format
    <3>3. PICK i \in Nat, j \in Nat : i = 2^((ea + eb) - Fine) /\ j = 2^(ep - Fine)
      BY <3>2
    <3>4. n * i = n * j
      BY <2>1
    <3>5. n * 2^((ea + eb) - Fine) = n * i /\ n * 2^(ep - Fine) = n * j
      BY <3>3
    <3>6. QED
      BY <3>4, <3>5 DEF At
  <2>2. CASE n # 0
    BY <1>7, <2>2 DEF At
  <2>3. QED
    BY <2>1, <2>2
<1>12. QED
  BY <1>3, <1>4, <1>7, <1>8, <1>9, <1>10, <1>11

-----------------------------------------------------------------------------
(* The aligned addition.                                                    *)

(* The addend shifted into the vector, in units two places below the         *)
(* product's: its whole units, and whether any of it is below them.          *)
Shifted(nc, d) == (nc * 2^(3 * P + 4)) \div 2^AddendShift(d)

(* Up to P + 1 units below the addend's last place nothing is lost.          *)
LEMMA ShiftedWhole ==
  ASSUME Room, NEW nc \in 0 .. 2 * Mantissas - 1, NEW d \in Int, -P - 1 <= d, d <= P + 2
  PROVE  /\ Shifted(nc, d) \div 2^P = nc * 2^(P + 1 + d) /\ Shifted(nc, d) % 2^P = 0
         /\ 2^(P + 1 + d) \in Nat \ {0}
<1>1. Format /\ P \in Nat /\ MaxBits \in Nat /\ 3 * P + 5 <= MaxBits /\ P >= 1
  BY VectorSizes DEF Room
<1>2. PICK i \in Nat, j \in Nat : i = P + 1 + d /\ j = P + 3 - d
  BY <1>1
<1>3. AddendShift(d) = j
  BY <1>1, <1>2 DEF AddendShift
<1>4. /\ P + i \in Nat /\ j + (P + i) = 3 * P + 4 /\ j + (P + i) <= MaxBits /\ P + i <= MaxBits
  BY <1>1, <1>2
<1>5. /\ 2^(j + (P + i)) = 2^j * 2^(P + i) /\ 2^(P + i) = 2^P * 2^i
      /\ 2^j \in Nat \ {0} /\ 2^P \in Nat \ {0} /\ 2^i \in Nat \ {0}
  BY <1>1, <1>2, <1>4, PowersAdd
<1>6. PICK u \in Nat \ {0}, w \in Nat \ {0}, x \in Nat \ {0} : u = 2^j /\ w = 2^P /\ x = 2^i
  BY <1>5
<1>7. nc \in Nat
  BY VectorSizes
<1>8. nc * 2^(3 * P + 4) = u * (w * (nc * x)) + 0
  <2>1. 2^(3 * P + 4) = u * (w * x)
    BY <1>4, <1>5, <1>6
  <2>2. nc * (u * (w * x)) = u * (w * (nc * x)) + 0
    BY <1>7
  <2>3. QED
    BY <2>1, <2>2
<1>9. w * (nc * x) \in Nat /\ nc * x \in Nat
  BY <1>7
<1>10. Shifted(nc, d) = w * (nc * x) + 0
  <2>1. PICK t \in Int, q \in Int : t = nc * 2^(3 * P + 4) /\ q = w * (nc * x) /\ t = (u * q) + 0
    BY <1>8, <1>9
  <2>2. t \div u = q
    BY <2>1
  <2>3. QED
    BY <1>3, <1>6, <1>9, <2>1, <2>2 DEF Shifted
<1>11. (w * (nc * x) + 0) \div w = nc * x /\ (w * (nc * x) + 0) % w = 0
  <2>1. PICK q \in Nat : q = nc * x
    BY <1>9
  <2>2. (w * q + 0) \div w = q /\ (w * q + 0) % w = 0
    BY DivisionUnique
  <2>3. QED
    BY <2>1, <2>2
<1>12. QED
  BY <1>2, <1>6, <1>10, <1>11

(* Further down the low bits are shifted out.                               *)
LEMMA ShiftedOut ==
  ASSUME Room, NEW nc \in 0 .. 2 * Mantissas - 1, NEW d \in Int, d <= -P - 2,
         NEW i, i = -P - 1 - d, i <= MaxBits
  PROVE  /\ i \in Nat /\ i >= 1 /\ 2^i \in Nat \ {0} /\ 2^i >= 2
         /\ Shifted(nc, d) \div 2^P = nc \div 2^i
         /\ Shifted(nc, d) % 2^P = 0 <=> nc % 2^i = 0
<1>1. /\ Format /\ P \in Nat /\ MaxBits \in Nat /\ 3 * P + 5 <= MaxBits /\ P >= 1
      /\ 2^P = 2 * Mantissas /\ Mantissas \in Nat
  BY VectorSizes DEF Room
<1>2. i \in Nat /\ i >= 1 /\ i \in 0 .. MaxBits /\ 1 \in 0 .. MaxBits
  BY <1>1
<1>3. 2^i \in Nat \ {0} /\ 2^i >= 2
  <2>1. 2^1 <= 2^i /\ 2^i \in Nat \ {0}
    BY <1>1, <1>2, PowersGrow
  <2>2. 2^1 = 2
    OBVIOUS
  <2>3. QED
    BY <2>1, <2>2
<1>4. CASE d >= -2 * P
  <2>1. PICK j \in Nat, l \in Nat : j = P + 3 - d /\ l = P - i /\ AddendShift(d) = j
    <3>1. P + 3 - d \in Nat /\ P - i \in Nat /\ AddendShift(d) = P + 3 - d
      BY <1>1, <1>4 DEF AddendShift
    <3>2. QED
      BY <3>1
  <2>2. j + l = 3 * P + 4 /\ j + l <= MaxBits /\ i + l = P /\ i + l <= MaxBits
    BY <1>1, <1>2, <2>1
  <2>3. /\ 2^(j + l) = 2^j * 2^l /\ 2^(i + l) = 2^i * 2^l
        /\ 2^j \in Nat \ {0} /\ 2^l \in Nat \ {0}
    BY <1>1, <1>2, <2>1, <2>2, PowersAdd
  <2>4. PICK u \in Nat \ {0}, w \in Nat \ {0}, x \in Nat \ {0} :
          /\ u = 2^j /\ w = 2^l /\ x = 2^i /\ 2^(3 * P + 4) = u * w /\ 2^P = x * w
    BY <1>3, <2>2, <2>3
  <2>5. nc \in Nat
    BY <1>1
  <2>6. Shifted(nc, d) = nc * w
    <3>1. nc * (u * w) = u * (nc * w) /\ nc * w \in Nat
      BY <2>5
    <3>2. PICK q \in Nat : q = nc * w
      BY <3>1
    <3>3. (u * q) \div u = q
      OBVIOUS
    <3>4. Shifted(nc, d) = (nc * (u * w)) \div u
      BY <2>1, <2>4 DEF Shifted
    <3>5. QED
      BY <3>1, <3>2, <3>3, <3>4
  <2>7. PICK q \in Int, r \in Int : /\ nc = (x * q) + r /\ q = nc \div x /\ r = nc % x
                                   /\ r \in 0 .. x - 1 /\ r >= 0 /\ r <= x - 1
    <3>1. nc \in Int /\ x \in Nat \ {0}
      BY <2>5
    <3>2. /\ nc \div x \in Int /\ (nc % x) \in 0 .. x - 1
          /\ nc = (x * (nc \div x)) + (nc % x)
      BY <3>1, Division
    <3>3. QED
      BY <3>2
  <2>8. nc * w = ((x * w) * q) + r * w
    <3>1. PICK g \in Int : g = x * q
      OBVIOUS
    <3>2. (g + r) * w = g * w + r * w /\ (x * q) * w = (x * w) * q
      OBVIOUS
    <3>3. QED
      BY <2>7, <3>1, <3>2
  <2>9. r * w \in 0 .. (x * w) - 1 /\ (r * w = 0 <=> r = 0) /\ x * w \in Nat \ {0}
    <3>1. r * w <= (x - 1) * w /\ (x - 1) * w = x * w - w /\ r * w >= 0 /\ x * w \in Nat
      BY <2>7
    <3>2. r * w = 0 <=> r = 0
      BY <2>7
    <3>3. r * w \in Int
      BY <2>7
    <3>4. QED
      BY <3>1, <3>2, <3>3
  <2>10. (nc * w) \div (x * w) = q /\ (nc * w) % (x * w) = r * w
    <3>1. PICK t \in Int, e \in Nat \ {0}, g \in Int : t = nc * w /\ e = x * w /\ g = r * w /\ g \in 0 .. e - 1
      BY <2>5, <2>9
    <3>2. t = (e * q) + g
      BY <2>8, <3>1
    <3>3. t \div e = q /\ t % e = g
      <4>1. t \in Int /\ e \in Nat \ {0} /\ q \in Int /\ g \in 0 .. e - 1 /\ t = (e * q) + g
        BY <3>1, <3>2
      <4>2. QED
        BY <4>1, DivisionUnique
    <3>4. QED
      BY <3>1, <3>3
  <2>11. QED
    BY <1>2, <1>3, <2>4, <2>6, <2>7, <2>9, <2>10
<1>5. CASE d <= -2 * P - 1
  <2>1. AddendShift(d) = 3 * P + 4 /\ i >= P /\ 3 * P + 4 \in Nat /\ 3 * P + 4 <= MaxBits /\ P \in 0 .. MaxBits
    BY <1>1, <1>5 DEF AddendShift
  <2>2. 2^(3 * P + 4) \in Nat \ {0} /\ 2^P <= 2^i /\ 2^P \in Nat \ {0}
    BY <1>1, <1>2, <2>1, PowersGrow DEF PowersOfTwo, Format
  <2>3. PICK u \in Nat \ {0}, w \in Nat \ {0}, x \in Nat \ {0} :
          u = 2^(3 * P + 4) /\ w = 2^P /\ x = 2^i /\ nc < w /\ w <= x /\ nc \in Nat
    BY <1>1, <1>3, <2>2
  <2>4. (nc * u) \div u = nc
    BY <2>3
  <2>5. Shifted(nc, d) = nc
    BY <2>1, <2>3, <2>4 DEF Shifted
  <2>6. /\ nc = (w * 0) + nc /\ nc \in 0 .. w - 1 /\ nc = (x * 0) + nc /\ nc \in 0 .. x - 1 /\ 0 \in Int
    BY <2>3
  <2>7. nc \div w = 0 /\ nc % w = nc /\ nc \div x = 0 /\ nc % x = nc
    BY <2>3, <2>6, DivisionUnique
  <2>8. QED
    BY <1>2, <1>3, <2>3, <2>5, <2>7
<1>6. QED
  BY <1>1, <1>4, <1>5

(* The unit of the vector while the product decides its place: two places    *)
(* below the product's last.                                                *)
Unit(a, b) == 2^(ProductPlace(a, b) - 2 - Fine)

(* The values of product and addend in these units.                         *)
LEMMA OperandsInUnits ==
  ASSUME Room, NEW a, NEW b, NEW c, FiniteOperands(a, b, c),
         NEW n, n = Significand(a) * Significand(b), NEW nc, nc = Significand(c),
         NEW d, d = ExponentDifference(a, b, c), d <= P + 2,
         NEW unit, unit = Unit(a, b), NEW ad, ad = Shifted(nc, d) \div 2^P
  PROVE  /\ unit \in Nat \ {0} /\ ad \in Nat /\ d \in Int
         /\ At(n, Exponent(a) + Exponent(b), Fine) = (4 * n) * unit
         /\ \E r \in 0 .. unit - 1 :
              /\ At(nc, Exponent(c), Fine) = ad * unit + r
              /\ r = 0 <=> Shifted(nc, d) % 2^P = 0
              /\ r # 0 => n >= Mantissas /\ ad < Mantissas
         /\ d >= -P - 1 => ad = nc * 2^(P + 1 + d) /\ Shifted(nc, d) % 2^P = 0
         /\ d < -P - 1 => ad < Mantissas
<1>1. /\ MinExp \in Int /\ Bias \in Nat /\ ManBits \in Nat /\ MinExp = 1 - Bias - ManBits /\ Bias >= 1
      /\ Fine \in Int /\ Fine = 2 * MinExp - 2 /\ MaxBits \in Nat /\ 4 * Bias <= MaxBits
      /\ P \in Nat /\ P = ManBits + 1 /\ ManBits >= 1 /\ Format
      /\ Mantissas \in Nat /\ Mantissas >= 2 /\ 3 * Bias + 2 * ManBits + 2 <= MaxBits
  BY FineBase, VectorSizes DEF Room
<1>2. PICK ep \in Int :
        /\ ep = ProductPlace(a, b) /\ n \in Nat
        /\ ep >= 2 * MinExp /\ ep <= 2 * MinExp + 4 * Bias - 2
        /\ n # 0 /\ ep > 2 * MinExp => n >= Mantissas
        /\ n = 0 => ep = 2 * MinExp
        /\ d = Exponent(c) - ep - ManBits
        /\ At(n, Exponent(a) + Exponent(b), Fine) = n * 2^(ep - Fine)
  BY ProductExponent
<1>3. PICK ec \in Int : /\ ec = Exponent(c) /\ ec >= MinExp /\ ec <= MinExp + 2 * Bias - 1
                        /\ nc \in 0 .. 2 * Mantissas - 1 /\ nc \in Nat
  <2>1. c \in Patterns /\ Field(c) # ExpOnes
    BY DEF FiniteOperands
  <2>2. QED
    BY <1>1, <2>1, Operand
<1>4. d \in Int /\ d = ec - ep - ManBits
  BY <1>1, <1>2, <1>3
<1>5. PICK j \in Nat : j = ep - 2 - Fine /\ j + 2 = ep - Fine /\ j + 2 <= MaxBits /\ j <= MaxBits
  BY <1>1, <1>2
<1>6. unit = 2^j /\ unit \in Nat \ {0} /\ 2^(j + 2) = 4 * unit
  <2>1. unit = 2^j
    BY <1>2, <1>5 DEF Unit
  <2>2. 2^(j + 2) = 2 * 2^(j + 1) /\ 2^(j + 1) = 2 * 2^j /\ 2^j \in Nat \ {0}
    <3>1. j + 2 \in Nat /\ j + 2 >= 1 /\ (j + 2) - 1 = j + 1 /\ j + 1 \in Nat /\ j + 1 >= 1
          /\ j + 1 <= MaxBits /\ (j + 1) - 1 = j
      BY <1>1, <1>5
    <3>2. QED
      BY <1>1, <1>5, <3>1, PowerHalved
  <2>3. QED
    BY <2>1, <2>2
<1>7. At(n, Exponent(a) + Exponent(b), Fine) = (4 * n) * unit
  <2>1. n * (4 * unit) = (4 * n) * unit
    BY <1>2, <1>6
  <2>2. QED
    BY <1>2, <1>5, <1>6, <2>1
<1>8. CASE d >= -P - 1
  <2>1. PICK i \in Nat : i = P + 1 + d /\ i + j = ec - Fine /\ i + j <= MaxBits
    BY <1>1, <1>2, <1>3, <1>4, <1>5, <1>8
  <2>2. 2^(i + j) = 2^i * 2^j /\ 2^i \in Nat \ {0}
    BY <1>1, <1>5, <2>1, PowersAdd
  <2>3. ad = nc * 2^i /\ Shifted(nc, d) % 2^P = 0
    BY <1>1, <1>3, <1>4, <1>8, <2>1, ShiftedWhole
  <2>4. PICK x \in Nat \ {0} : x = 2^i
    BY <2>2
  <2>5. At(nc, ec, Fine) = ad * unit + 0 /\ ad \in Nat
    <3>1. nc * (x * unit) = (nc * x) * unit + 0 /\ nc * x \in Nat
      BY <1>3, <1>6
    <3>2. At(nc, ec, Fine) = nc * (x * unit)
      BY <1>6, <2>1, <2>2, <2>4 DEF At
    <3>3. ad = nc * x
      BY <2>3, <2>4
    <3>4. QED
      BY <3>1, <3>2, <3>3
  <2>6. 0 \in 0 .. unit - 1
    BY <1>6
  <2>7. ~ (d < -P - 1) /\ 2^i = 2^(P + 1 + d)
    BY <1>1, <1>4, <1>8, <2>1
  <2>8. QED
    BY <1>3, <1>4, <1>6, <1>7, <2>3, <2>5, <2>6, <2>7
<1>9. CASE d < -P - 1
  <2>1. PICK i \in Nat, l \in Nat : /\ i = -P - 1 - d /\ i <= MaxBits /\ d <= -P - 2
                                    /\ l = ec - Fine /\ i + l = j /\ i >= 1
    BY <1>1, <1>2, <1>3, <1>4, <1>5, <1>9
  <2>2. /\ 2^i \in Nat \ {0} /\ 2^i >= 2 /\ ad = nc \div 2^i
        /\ Shifted(nc, d) % 2^P = 0 <=> nc % 2^i = 0
    BY <1>3, <1>4, <2>1, ShiftedOut
  <2>3. 2^(i + l) = 2^i * 2^l /\ 2^l \in Nat \ {0}
    BY <1>1, <1>5, <2>1, PowersAdd
  <2>4. PICK x \in Nat \ {0}, w \in Nat \ {0} : x = 2^i /\ x >= 2 /\ w = 2^l /\ unit = x * w
    BY <1>6, <2>1, <2>2, <2>3
  <2>5. PICK q \in Int, r \in Int : /\ nc = (x * q) + r /\ q = nc \div x /\ r = nc % x
                                    /\ r >= 0 /\ r <= x - 1
    <3>1. nc \in Int /\ x \in Nat \ {0}
      BY <1>3
    <3>2. /\ nc \div x \in Int /\ (nc % x) \in 0 .. x - 1
          /\ nc = (x * (nc \div x)) + (nc % x)
      BY <3>1, Division
    <3>3. QED
      BY <3>2
  <2>6. q >= 0 /\ q < Mantissas
    <3>1. PICK m \in Nat : m = Mantissas /\ nc <= 2 * m - 1
      BY <1>1, <1>3
    <3>2. q <= -1 => x * q <= x * (-1)
      BY <2>5
    <3>3. q >= m => x * q >= x * m /\ x * m >= 2 * m
      BY <2>4, <2>5, <3>1
    <3>4. q >= m => x * m \in Int
      BY <3>1
    <3>5. QED
      BY <1>3, <2>5, <3>1, <3>2, <3>3, <3>4
  <2>7. PICK y \in Int : y = r * w /\ y \in 0 .. unit - 1 /\ (y = 0 <=> r = 0)
    <3>1. r * w \in Int /\ r * w >= 0 /\ (r * w = 0 <=> r = 0)
      BY <2>5
    <3>2. r * w <= (x - 1) * w /\ (x - 1) * w = x * w - w /\ x * w \in Int
      BY <2>5
    <3>3. r * w <= x * w - 1
      BY <3>1, <3>2
    <3>4. QED
      BY <2>4, <3>1, <3>3
  <2>8. At(nc, ec, Fine) = ad * unit + y
    <3>1. PICK g \in Int : g = x * q
      BY <2>5
    <3>2. (g + r) * w = g * w + r * w
      BY <2>5
    <3>3. (x * q) * w = q * (x * w)
      <4>1. x * q = q * x /\ (q * x) * w = q * (x * w)
        BY <2>5
      <4>2. QED
        BY <4>1, Zenon
    <3>4. At(nc, ec, Fine) = nc * w
      BY <2>1, <2>4 DEF At
    <3>5. ad = q
      BY <2>2, <2>4, <2>5
    <3>6. nc * w = q * (x * w) + r * w
      BY <2>5, <3>1, <3>2, <3>3
    <3>7. QED
      BY <2>4, <2>7, <3>4, <3>5, <3>6, Zenon
  <2>9. y = 0 <=> Shifted(nc, d) % 2^P = 0
    BY <2>2, <2>4, <2>5, <2>7
  <2>10. n >= Mantissas /\ ad < Mantissas /\ ad \in Nat
    <3>1. ep > 2 * MinExp
      BY <1>1, <1>3, <1>4, <1>9
    <3>2. n # 0
      BY <1>1, <1>2, <3>1
    <3>3. QED
      BY <1>2, <2>2, <2>4, <2>5, <2>6, <3>1, <3>2
  <2>11. ~ (d >= -P - 1)
    BY <1>1, <1>4, <1>9
  <2>12. QED
    BY <1>3, <1>4, <1>6, <1>7, <2>7, <2>8, <2>9, <2>10, <2>11
<1>10. QED
  BY <1>1, <1>4, <1>8, <1>9

(* The sum as the vector holds it, when the addend is not far above.         *)
Sticky(nc, d) == Shifted(nc, d) % 2^P # 0

LEMMA AdderIs ==
  ASSUME Room, NEW a, NEW b, NEW c, FiniteOperands(a, b, c),
         NEW n, n = Significand(a) * Significand(b), NEW nc, nc = Significand(c),
         NEW d, d = ExponentDifference(a, b, c),
         NEW ad \in Nat, ad = Shifted(nc, d) \div 2^P,
         NEW s, s = (Sign(a) + Sign(b)) % 2,
         4 * n + ad < (4 * Mantissas) * RoundBit, n \in Nat,
         Sticky(nc, d) => 4 * n > ad
  PROVE  /\ Adder(a, b, c).sticky = Sticky(nc, d) /\ s \in 0 .. 1
         /\ Adder(a, b, c).sum = IF ~ EffectiveSubtraction(a, b, c) THEN 4 * n + ad
                                 ELSE IF Sticky(nc, d) THEN 4 * n - ad - 1
                                 ELSE IF 4 * n >= ad THEN 4 * n - ad ELSE ad - 4 * n
         /\ Adder(a, b, c).sign = IF EffectiveSubtraction(a, b, c) /\ ~ (4 * n >= ad)
                                  THEN 1 - s ELSE s
         /\ EffectiveSubtraction(a, b, c) <=> s # Sign(c)
         /\ Sign(c) \in 0 .. 1
<1>1. PICK t \in Nat \ {0} : t = 2^(3 * P + 4) /\ t = (4 * Mantissas) * RoundBit
  <2>1. (4 * Mantissas) * RoundBit \in Nat \ {0}
    <3>1. PICK m \in Nat, r \in Nat \ {0} : m = Mantissas /\ m >= 2 /\ r = RoundBit
      BY VectorSizes
    <3>2. (4 * m) * r >= 1 /\ (4 * m) * r \in Int
      BY <3>1
    <3>3. QED
      BY <3>1, <3>2
  <2>2. QED
    BY <2>1, VectorSizes
<1>2. Sign(a) \in 0 .. 1 /\ Sign(b) \in 0 .. 1 /\ Sign(c) \in 0 .. 1
  BY Operand DEF FiniteOperands
<1>3. s \in 0 .. 1 /\ (EffectiveSubtraction(a, b, c) <=> s # Sign(c))
  BY <1>2 DEF EffectiveSubtraction
<1>4. PICK sub \in BOOLEAN, sticky \in BOOLEAN :
        sub = EffectiveSubtraction(a, b, c) /\ sticky = Sticky(nc, d)
  BY DEF EffectiveSubtraction, Sticky
<1>5. PICK raw \in Int : raw = IF sub THEN n * 4 + (t - 1 - ad) + Bool(~ sticky) ELSE n * 4 + ad
  BY DEF Bool
<1>6. Adder(a, b, c) = [sum |-> Lower(IF sub /\ raw \div t = 0 THEN -raw ELSE raw, 3 * P + 4),
                        sign |-> IF sub THEN Bool(raw \div t = s) ELSE s, sticky |-> sticky]
  BY <1>1, <1>4, <1>5, Zenon DEF Adder, Shifted, Sticky
<1>7. /\ Adder(a, b, c).sticky = sticky
      /\ Adder(a, b, c).sum = (IF sub /\ raw \div t = 0 THEN -raw ELSE raw) % t
      /\ Adder(a, b, c).sign = (IF sub THEN Bool(raw \div t = s) ELSE s)
  BY <1>1, <1>6 DEF Lower
<1>8. CASE ~ sub
  <2>1. raw = 4 * n + ad /\ raw \in 0 .. t - 1 /\ raw = (t * 0) + raw /\ 0 \in Int
    BY <1>1, <1>5, <1>8
  <2>2. raw % t = raw
    BY <2>1, DivisionUnique
  <2>3. QED
    BY <1>2, <1>3, <1>4, <1>7, <1>8, <2>1, <2>2
<1>9. CASE sub /\ sticky
  <2>1. raw = (t * 1) + (4 * n - ad - 1) /\ 4 * n - ad - 1 \in 0 .. t - 1 /\ 1 \in Int
    BY <1>1, <1>4, <1>5, <1>9 DEF Bool
  <2>2. raw % t = 4 * n - ad - 1 /\ raw \div t = 1
    BY <2>1, DivisionUnique
  <2>3. Bool(1 = s) = s
    BY <1>3 DEF Bool
  <2>4. QED
    BY <1>2, <1>3, <1>4, <1>7, <1>9, <2>2, <2>3
<1>10. CASE sub /\ ~ sticky /\ 4 * n >= ad
  <2>1. raw = (t * 1) + (4 * n - ad) /\ 4 * n - ad \in 0 .. t - 1 /\ 1 \in Int
    BY <1>1, <1>4, <1>5, <1>10 DEF Bool
  <2>2. raw % t = 4 * n - ad /\ raw \div t = 1
    BY <2>1, DivisionUnique
  <2>3. Bool(1 = s) = s
    BY <1>3 DEF Bool
  <2>4. QED
    BY <1>2, <1>3, <1>4, <1>7, <1>10, <2>2, <2>3
<1>11. CASE sub /\ ~ sticky /\ ~ (4 * n >= ad)
  <2>1. raw = t + (4 * n - ad) /\ raw \in 0 .. t - 1 /\ raw = (t * 0) + raw /\ 0 \in Int
    BY <1>1, <1>4, <1>5, <1>11 DEF Bool
  <2>2. raw \div t = 0
    BY <2>1, DivisionUnique
  <2>3. PICK neg \in Int : neg = -raw /\ neg = (t * (-1)) + (ad - 4 * n) /\ ad - 4 * n \in 0 .. t - 1
    BY <1>1, <2>1, <1>11
  <2>4. neg % t = ad - 4 * n
    <3>1. PICK e \in 0 .. t - 1 : e = ad - 4 * n /\ neg = (t * (-1)) + e /\ -1 \in Int
      BY <2>3
    <3>2. neg % t = e
      BY <3>1, DivisionUnique
    <3>3. QED
      BY <3>1, <3>2
  <2>5. Bool(0 = s) = 1 - s
    BY <1>3 DEF Bool
  <2>6. QED
    BY <1>2, <1>3, <1>4, <1>7, <1>11, <2>2, <2>3, <2>4, <2>5
<1>12. QED
  BY <1>8, <1>9, <1>10, <1>11

(* The exact value in the vector's units: s of them and a rest r below one.  *)
Aligned(a, b, c, n, nc, d, unit, ad, psign, t, v) ==
  /\ FiniteOperands(a, b, c) /\ n = Significand(a) * Significand(b) /\ nc = Significand(c)
  /\ d = ExponentDifference(a, b, c) /\ d <= P + 2
  /\ unit = Unit(a, b) /\ ad = Shifted(nc, d) \div 2^P /\ psign = (Sign(a) + Sign(b)) % 2
  /\ t = SumOf(psign, n, Exponent(a) + Exponent(b), Sign(c), nc, Exponent(c))
  /\ v = At(t.num, t.exp, Fine)

LEMMA AdderValue ==
  ASSUME Room, NEW a, NEW b, NEW c, NEW n, NEW nc, NEW d, NEW unit, NEW ad, NEW psign, NEW t, NEW v,
         Aligned(a, b, c, n, nc, d, unit, ad, psign, t, v)
  PROVE  /\ v \in Nat /\ (t.num = 0 <=> v = 0) /\ unit \in Nat \ {0} /\ ad \in Nat
         /\ psign \in 0 .. 1 /\ Sign(c) \in 0 .. 1
         /\ Adder(a, b, c).sticky \in BOOLEAN /\ Adder(a, b, c).sign \in 0 .. 1
         /\ v # 0 => Adder(a, b, c).sign = t.sign
         /\ v = 0 /\ psign = Sign(c) => Adder(a, b, c).sign = psign
         /\ EffectiveSubtraction(a, b, c) <=> psign # Sign(c)
         /\ \E s \in Nat, r \in 0 .. unit - 1 :
              /\ Adder(a, b, c).sum = s /\ v = s * unit + r
              /\ Adder(a, b, c).sticky <=> r # 0
              /\ r # 0 => s >= 2 * Mantissas
              /\ s <= 4 * n + ad
              /\ ~ Sticky(nc, d) /\ EffectiveSubtraction(a, b, c) => s >= ad - 4 * n
              /\ EffectiveSubtraction(a, b, c) => s <= 4 * n \/ s <= ad
              /\ ~ EffectiveSubtraction(a, b, c) => s = 4 * n + ad
         /\ Adder(a, b, c).sticky <=> Sticky(nc, d)
         /\ d >= -P - 1 => ad = nc * 2^(P + 1 + d) /\ ~ Sticky(nc, d)
         /\ d < -P - 1 => ad < Mantissas
<1> USE DEF Aligned
<1>1. /\ Format /\ P \in Nat /\ Mantissas \in Nat /\ Mantissas >= 2 /\ RoundBit \in Nat \ {0}
      /\ MaxBits \in Nat /\ 3 * P + 5 <= MaxBits
      /\ RoundBit = (16 * Mantissas) * (2 * Mantissas)
  BY VectorSizes DEF Room
<1>2. /\ unit \in Nat \ {0} /\ ad \in Nat /\ d \in Int
      /\ At(n, Exponent(a) + Exponent(b), Fine) = (4 * n) * unit
      /\ d >= -P - 1 => ad = nc * 2^(P + 1 + d) /\ Shifted(nc, d) % 2^P = 0
      /\ d < -P - 1 => ad < Mantissas
      /\ \E r \in 0 .. unit - 1 :
              /\ At(nc, Exponent(c), Fine) = ad * unit + r
              /\ r = 0 <=> Shifted(nc, d) % 2^P = 0
              /\ r # 0 => n >= Mantissas /\ ad < Mantissas
  BY OperandsInUnits
<1>3. PICK ra \in 0 .. unit - 1 :
              /\ At(nc, Exponent(c), Fine) = ad * unit + ra
              /\ ra = 0 <=> ~ Sticky(nc, d)
              /\ ra # 0 => n >= Mantissas /\ ad < Mantissas
  BY <1>2 DEF Sticky
<1>4. /\ n \in Nat /\ n < (2 * Mantissas) * (2 * Mantissas)
      /\ Exponent(a) + Exponent(b) \in Int /\ (Exponent(a) + Exponent(b)) - Fine \in 0 .. MaxBits
  <2>1. PICK ep \in Int :
          /\ ep = ProductPlace(a, b) /\ n \in Nat /\ n < (2 * Mantissas) * (2 * Mantissas)
          /\ Exponent(a) + Exponent(b) \in Int /\ Exponent(a) + Exponent(b) - Fine \in 0 .. MaxBits
    BY ProductExponent
  <2>2. Exponent(a) \in Int /\ Exponent(b) \in Int /\ Fine \in Int
    BY Operand, FineBase DEF FiniteOperands
  <2>3. (Exponent(a) + Exponent(b)) - Fine = Exponent(a) + Exponent(b) - Fine
    BY <2>2
  <2>4. QED
    BY <2>1, <2>3
<1>5. /\ nc \in 0 .. 2 * Mantissas - 1 /\ nc \in Nat /\ Exponent(c) \in Int /\ Fine \in Int
      /\ Exponent(c) - Fine \in 0 .. MaxBits /\ Sign(c) \in 0 .. 1 /\ Sign(a) \in 0 .. 1 /\ Sign(b) \in 0 .. 1
  <2>1. /\ a \in Patterns /\ b \in Patterns /\ c \in Patterns
        /\ Field(a) # ExpOnes /\ Field(b) # ExpOnes /\ Field(c) # ExpOnes
    BY DEF FiniteOperands
  <2>2. /\ nc \in 0 .. 2 * Mantissas - 1 /\ nc \in Nat /\ Exponent(c) \in MinExp .. MinExp + 2 * Bias - 1
        /\ Sign(c) \in 0 .. 1 /\ Sign(a) \in 0 .. 1 /\ Sign(b) \in 0 .. 1
    BY <2>1, Operand
  <2>3. /\ Fine \in Int /\ Fine = 2 * MinExp - 2 /\ MinExp \in Int /\ Bias \in Nat /\ ManBits \in Nat
        /\ MinExp = 1 - Bias - ManBits /\ 3 * Bias + 2 * ManBits + 2 <= MaxBits
    BY FineBase, VectorSizes DEF Room
  <2>4. QED
    BY <1>1, <2>2, <2>3
<1>6. 4 * n + ad < (4 * Mantissas) * RoundBit
  <2>1. PICK m \in Nat, bit \in Nat \ {0}, sq \in Nat :
          m = Mantissas /\ m >= 2 /\ bit = RoundBit /\ bit = 32 * sq /\ sq = m * m
    <3>1. (16 * Mantissas) * (2 * Mantissas) = 32 * (Mantissas * Mantissas) /\ Mantissas * Mantissas \in Nat
      BY <1>1
    <3>2. QED
      BY <1>1, <3>1
  <2>2. n < 4 * sq /\ sq >= 1
    <3>1. (2 * m) * (2 * m) = 4 * (m * m) /\ m * m >= 1
      BY <2>1
    <3>2. QED
      BY <1>4, <2>1, <3>1
  <2>3. ad <= (2 * m) * bit
    <3>1. CASE d < -P - 1
      <4>1. m <= (2 * m) * bit
        BY <2>1
      <4>2. (2 * m) * bit \in Int
        BY <2>1
      <4>3. QED
        BY <1>2, <2>1, <3>1, <4>1, <4>2
    <3>2. CASE d >= -P - 1
      <4>1. P + 1 + d \in 0 .. MaxBits /\ 2 * P + 3 \in 0 .. MaxBits /\ P + 1 + d <= 2 * P + 3
        BY <1>1, <1>2, <3>2
      <4>2. 2^(P + 1 + d) <= bit /\ 2^(P + 1 + d) \in Nat \ {0}
        BY <1>1, <2>1, <4>1, PowersGrow DEF RoundBit
      <4>3. PICK x \in Nat : x = 2^(P + 1 + d) /\ x <= bit
        BY <4>2
      <4>4. nc * x <= (2 * m) * x /\ (2 * m) * x <= (2 * m) * bit
        BY <1>5, <2>1, <4>3
      <4>5. nc * x \in Int /\ (2 * m) * x \in Int /\ (2 * m) * bit \in Int
        BY <1>5, <2>1
      <4>6. QED
        BY <1>2, <3>2, <4>3, <4>4, <4>5
    <3>3. QED
      BY <1>1, <1>2, <3>1, <3>2
  <2>4. (4 * m) * bit = (2 * m) * bit + (2 * m) * bit /\ (2 * m) * bit >= bit /\ (2 * m) * bit \in Int
    BY <2>1
  <2>5. QED
    BY <1>2, <1>4, <2>1, <2>2, <2>3, <2>4
<1>7. Sticky(nc, d) => 4 * n > ad /\ 4 * n - ad - 1 >= 2 * Mantissas
  BY <1>1, <1>2, <1>3, <1>4
<1>8. /\ Adder(a, b, c).sticky = Sticky(nc, d) /\ psign \in 0 .. 1
      /\ Adder(a, b, c).sum = IF ~ EffectiveSubtraction(a, b, c) THEN 4 * n + ad
                                 ELSE IF Sticky(nc, d) THEN 4 * n - ad - 1
                                 ELSE IF 4 * n >= ad THEN 4 * n - ad ELSE ad - 4 * n
      /\ Adder(a, b, c).sign = IF EffectiveSubtraction(a, b, c) /\ ~ (4 * n >= ad)
                                  THEN 1 - psign ELSE psign
      /\ EffectiveSubtraction(a, b, c) <=> psign # Sign(c)
      /\ Sign(c) \in 0 .. 1
  BY <1>2, <1>4, <1>6, <1>7, AdderIs
<1>9. PICK p \in Nat, y \in Nat : /\ p = At(n, Exponent(a) + Exponent(b), Fine) /\ p = (4 * n) * unit
                                  /\ y = At(nc, Exponent(c), Fine) /\ y = ad * unit + ra
  <2>1. (4 * n) * unit \in Nat /\ ad * unit + ra \in Nat
    BY <1>2, <1>3, <1>4
  <2>2. QED
    BY <1>2, <1>3, <2>1
<1>10. /\ t.num \in Nat /\ t.sign \in 0 .. 1 /\ v \in Nat
       /\ v = IF psign = Sign(c) THEN p + y ELSE IF p >= y THEN p - y ELSE y - p
       /\ t.num = 0 <=> v = 0
       /\ v # 0 => t.sign = IF psign = Sign(c) \/ p >= y THEN psign ELSE Sign(c)
  <2>1. PICK e1 \in Int, e2 \in Int : /\ e1 = Exponent(a) + Exponent(b) /\ e2 = Exponent(c)
                                       /\ e1 - Fine \in 0 .. MaxBits /\ e2 - Fine \in 0 .. MaxBits
    BY <1>4, <1>5
  <2>2. IsSum(psign, n, e1, Sign(c), nc, e2, Fine, t, v, p, y)
    <3>1. /\ t = SumOf(psign, n, e1, Sign(c), nc, e2) /\ p = At(n, e1, Fine) /\ y = At(nc, e2, Fine)
          /\ psign \in 0 .. 1 /\ Sign(c) \in 0 .. 1 /\ n \in Nat /\ nc \in Nat /\ Fine \in Int
      BY <1>4, <1>5, <1>8, <1>9, <2>1
    <3>2. QED
      BY <2>1, <3>1 DEF IsSum
  <2>3. QED
    BY <1>1, <2>2, SumValue
<1>11. /\ p >= y => 4 * n >= ad
       /\ ra = 0 /\ 4 * n >= ad => p >= y
       /\ 4 * n > ad => p > y
  <2>1. ad * unit <= (4 * n) * unit <=> ad <= 4 * n
    BY <1>2, <1>4, Cancel
  <2>2. ad + 1 <= 4 * n => (ad + 1) * unit <= (4 * n) * unit
    BY <1>2, <1>4
  <2>3. (ad + 1) * unit = ad * unit + unit /\ ad * unit \in Int /\ (4 * n) * unit \in Int
    BY <1>2, <1>4
  <2>4. QED
    BY <1>2, <1>3, <1>4, <1>9, <2>1, <2>2, <2>3
<1>12. PICK sub \in BOOLEAN : sub = EffectiveSubtraction(a, b, c) /\ (sub <=> psign # Sign(c))
  BY <1>8 DEF EffectiveSubtraction
<1>13. ra # 0 => p > y
  BY <1>3, <1>7, <1>11
<1>14. v # 0 => Adder(a, b, c).sign = t.sign
  <2>1. v # 0 => (p >= y <=> 4 * n >= ad)
    BY <1>11, <1>13
  <2>2. QED
    BY <1>8, <1>10, <2>1
<1>15. \E s \in Nat, r \in 0 .. unit - 1 :
              /\ Adder(a, b, c).sum = s /\ v = s * unit + r
              /\ Sticky(nc, d) <=> r # 0
              /\ r # 0 => s >= 2 * Mantissas
              /\ s <= 4 * n + ad
              /\ ~ Sticky(nc, d) /\ sub => s >= ad - 4 * n
              /\ sub => s <= 4 * n \/ s <= ad
              /\ ~ sub => s = 4 * n + ad
  <2>1. CASE ~ sub
    <3>1. (4 * n + ad) * unit = (4 * n) * unit + ad * unit /\ (4 * n) * unit \in Int /\ ad * unit \in Int
      BY <1>2, <1>4
    <3>2. v = (4 * n + ad) * unit + ra
      BY <1>9, <1>10, <1>12, <2>1, <3>1, <1>3
    <3>3. ra # 0 => 4 * n + ad >= 2 * Mantissas
      BY <1>1, <1>2, <1>3, <1>4
    <3>4. 4 * n + ad \in Nat /\ Adder(a, b, c).sum = 4 * n + ad /\ 4 * n + ad <= 4 * n + ad
      BY <1>2, <1>4, <1>8, <1>12, <2>1
    <3>5. QED
      BY <1>3, <2>1, <3>2, <3>3, <3>4
  <2>2. CASE sub /\ ra # 0
    <3>1. (4 * n - ad - 1) * unit = (4 * n) * unit - ad * unit - unit /\ (4 * n) * unit \in Int /\ ad * unit \in Int
      <4>1. PICK f \in Nat : f = 4 * n
        BY <1>4
      <4>2. (f - ad - 1) * unit = f * unit - ad * unit - unit /\ f * unit \in Int /\ ad * unit \in Int
        BY <1>2
      <4>3. QED
        BY <4>1, <4>2
    <3>2. v = (4 * n - ad - 1) * unit + (unit - ra) /\ unit - ra \in 0 .. unit - 1 /\ unit - ra # 0
      BY <1>2, <1>3, <1>9, <1>10, <1>12, <1>13, <2>2, <3>1
    <3>3. 4 * n - ad - 1 \in Nat /\ Adder(a, b, c).sum = 4 * n - ad - 1
      BY <1>2, <1>3, <1>4, <1>7, <1>8, <1>12, <2>2
    <3>4. 4 * n - ad - 1 <= 4 * n + ad /\ 4 * n - ad - 1 <= 4 * n /\ 4 * n - ad - 1 >= 2 * Mantissas
      BY <1>2, <1>3, <1>4, <1>7, <2>2
    <3>5. QED
      BY <1>3, <2>2, <3>2, <3>3, <3>4
  <2>3. CASE sub /\ ra = 0
    <3>1. PICK s \in Nat : s = IF 4 * n >= ad THEN 4 * n - ad ELSE ad - 4 * n
      BY <1>2, <1>4
    <3>2. v = s * unit + 0
      <4>1. (4 * n - ad) * unit = (4 * n) * unit - ad * unit /\ (ad - 4 * n) * unit = ad * unit - (4 * n) * unit
            /\ (4 * n) * unit \in Int /\ ad * unit \in Int
        <5>1. PICK f \in Nat : f = 4 * n
          BY <1>4
        <5>2. /\ (f - ad) * unit = f * unit - ad * unit /\ (ad - f) * unit = ad * unit - f * unit
              /\ f * unit \in Int /\ ad * unit \in Int
          BY <1>2
        <5>3. QED
          BY <5>1, <5>2
      <4>2. CASE 4 * n >= ad
        <5>1. p >= y
          BY <1>11, <2>3, <4>2
        <5>2. v = p - y
          BY <1>10, <1>12, <2>3, <5>1
        <5>3. QED
          BY <1>2, <1>4, <1>9, <2>3, <3>1, <4>1, <4>2, <5>2
      <4>3. CASE ~ (4 * n >= ad)
        <5>1. ~ (p >= y)
          BY <1>11, <4>3
        <5>2. v = y - p
          BY <1>10, <1>12, <2>3, <5>1
        <5>3. QED
          BY <1>2, <1>4, <1>9, <2>3, <3>1, <4>1, <4>3, <5>2
      <4>4. QED
        BY <4>2, <4>3
    <3>3. Adder(a, b, c).sum = s
      BY <1>3, <1>8, <1>12, <2>3, <3>1
    <3>4. s <= 4 * n + ad /\ (s <= 4 * n \/ s <= ad) /\ s >= ad - 4 * n /\ 0 \in 0 .. unit - 1
      BY <1>2, <1>4, <3>1
    <3>5. QED
      BY <1>3, <2>3, <3>2, <3>3, <3>4
  <2>4. QED
    BY <1>2, <1>3, <2>1, <2>2, <2>3
<1>16. Adder(a, b, c).sign \in 0 .. 1 /\ Adder(a, b, c).sticky \in BOOLEAN
  BY <1>8 DEF Sticky
<1>17. v = 0 /\ psign = Sign(c) => Adder(a, b, c).sign = psign
  BY <1>8
<1>18. /\ v \in Nat /\ (t.num = 0 <=> v = 0) /\ unit \in Nat \ {0} /\ ad \in Nat
       /\ psign \in 0 .. 1 /\ Sign(c) \in 0 .. 1
       /\ EffectiveSubtraction(a, b, c) <=> psign # Sign(c)
       /\ Adder(a, b, c).sticky <=> Sticky(nc, d)
       /\ d >= -P - 1 => ad = nc * 2^(P + 1 + d) /\ ~ Sticky(nc, d)
       /\ d < -P - 1 => ad < Mantissas
  BY <1>2, <1>8, <1>10 DEF Sticky
<1>19. \E s \in Nat, r \in 0 .. unit - 1 :
              /\ Adder(a, b, c).sum = s /\ v = s * unit + r
              /\ Adder(a, b, c).sticky <=> r # 0
              /\ r # 0 => s >= 2 * Mantissas
              /\ s <= 4 * n + ad
              /\ ~ Sticky(nc, d) /\ EffectiveSubtraction(a, b, c) => s >= ad - 4 * n
              /\ EffectiveSubtraction(a, b, c) => s <= 4 * n \/ s <= ad
              /\ ~ EffectiveSubtraction(a, b, c) => s = 4 * n + ad
  BY <1>8, <1>12, <1>15, Zenon
<1>20. QED
  BY <1>14, <1>16, <1>17, <1>18, <1>19, Zenon

-----------------------------------------------------------------------------
(* Normalisation: the vector is scaled by a power of two until its leading   *)
(* bit stands where the significand's does, or as far as the exponent lets.  *)

LEMMA PowersBalance ==
  ASSUME Format, NEW a \in 0 .. MaxBits, NEW b \in 0 .. MaxBits,
         NEW c \in 0 .. MaxBits, NEW d \in 0 .. MaxBits, a + b <= c + d
  PROVE  /\ 2^a * 2^b <= 2^c * 2^d
         /\ a + b = c + d => 2^a * 2^b = 2^c * 2^d
         /\ 2^a \in Nat \ {0} /\ 2^b \in Nat \ {0} /\ 2^c \in Nat \ {0} /\ 2^d \in Nat \ {0}
<1>1. PICK x \in Nat \ {0}, y \in Nat \ {0}, z \in Nat \ {0}, w \in Nat \ {0} :
        x = 2^a /\ y = 2^b /\ z = 2^c /\ w = 2^d
  BY PowersGrow
<1>2. MaxBits \in Nat
  BY DEF Format
<1>3. CASE a <= c /\ b <= d
  <2>1. x <= z /\ y <= w
    BY <1>1, <1>3, PowersGrow
  <2>2. x * y <= z * y /\ z * y <= z * w /\ x * y \in Int /\ z * y \in Int /\ z * w \in Int
    BY <2>1
  <2>3. a + b = c + d => a = c /\ b = d
    BY <1>3
  <2>4. QED
    BY <1>1, <2>2, <2>3
<1>4. CASE b > d
  <2>1. PICK j \in Nat, i \in Nat : j = b - d /\ b = d + j /\ i = a + j /\ i <= c /\ i <= MaxBits /\ j <= MaxBits
    BY <1>2, <1>4
  <2>2. 2^(d + j) = 2^d * 2^j /\ 2^(a + j) = 2^a * 2^j /\ 2^j \in Nat \ {0}
    BY <1>2, <2>1, PowersAdd
  <2>3. PICK u \in Nat \ {0} : u = 2^j
    BY <2>2
  <2>4. y = w * u /\ 2^i = x * u
    BY <1>1, <2>1, <2>2, <2>3
  <2>5. 2^i <= z
    BY <1>1, <1>2, <2>1, PowersGrow
  <2>6. (x * u) * w <= z * w /\ (x * u) * w = x * (w * u)
    BY <2>4, <2>5
  <2>7. a + b = c + d => i = c
    BY <2>1
  <2>8. a + b = c + d => x * y = z * w
    BY <1>1, <2>4, <2>6, <2>7
  <2>9. QED
    BY <1>1, <2>4, <2>6, <2>8
<1>5. CASE a > c
  <2>1. PICK j \in Nat, i \in Nat : j = a - c /\ a = c + j /\ i = b + j /\ i <= d /\ i <= MaxBits /\ j <= MaxBits
    BY <1>2, <1>5
  <2>2. 2^(c + j) = 2^c * 2^j /\ 2^(b + j) = 2^b * 2^j /\ 2^j \in Nat \ {0}
    BY <1>2, <2>1, PowersAdd
  <2>3. PICK u \in Nat \ {0} : u = 2^j
    BY <2>2
  <2>4. x = z * u /\ 2^i = y * u
    BY <1>1, <2>1, <2>2, <2>3
  <2>5. 2^i <= w
    BY <1>1, <1>2, <2>1, PowersGrow
  <2>6. z * (y * u) <= z * w /\ z * (y * u) = (z * u) * y
    BY <2>4, <2>5
  <2>7. a + b = c + d => i = d
    BY <2>1
  <2>8. a + b = c + d => x * y = z * w
    BY <1>1, <2>4, <2>6, <2>7
  <2>9. QED
    BY <1>1, <2>4, <2>6, <2>8
<1>6. QED
  BY <1>3, <1>4, <1>5

LEMMA SmallNormalizeIs ==
  ASSUME Room, NEW y \in Nat, y < (8 * Mantissas) * RoundBit, NEW x \in Int
  PROVE  /\ y >= (4 * Mantissas) * RoundBit =>
              /\ SmallNormalize(y, x).sum = y \div 2 /\ SmallNormalize(y, x).exp = x + 1
         /\ y < (4 * Mantissas) * RoundBit /\ y >= (2 * Mantissas) * RoundBit =>
              /\ SmallNormalize(y, x).sum = y /\ SmallNormalize(y, x).exp = x
         /\ y < (2 * Mantissas) * RoundBit =>
              IF x > 1 THEN SmallNormalize(y, x).sum = 2 * y /\ SmallNormalize(y, x).exp = x - 1
              ELSE SmallNormalize(y, x).sum = y /\ SmallNormalize(y, x).exp = 0
<1>1. PICK w \in Nat \ {0} : /\ w = (2 * Mantissas) * RoundBit /\ (4 * Mantissas) * RoundBit = 2 * w
                             /\ (8 * Mantissas) * RoundBit = 4 * w
  <2>1. PICK m \in Nat, r \in Nat \ {0} : m = Mantissas /\ m >= 2 /\ r = RoundBit
    BY VectorSizes
  <2>2. PICK w \in Int : w = (2 * m) * r
    BY <2>1
  <2>3. w >= 1 /\ (4 * m) * r = 2 * w /\ (8 * m) * r = 4 * w
    BY <2>1, <2>2
  <2>4. QED
    BY <2>1, <2>2, <2>3
<1>2. 2^(3 * P + 3) = w /\ 2^(3 * P + 4) = 2 * w /\ 2^(3 * P + 5) = 4 * w
  BY <1>1, VectorSizes
<1>3. SmallNormalize(y, x) =
        IF y \div (2 * w) = 1 THEN [sum |-> y \div 2, exp |-> x + 1]
        ELSE IF (y \div w) % 2 = 1 THEN [sum |-> y, exp |-> x]
        ELSE IF x > 1 THEN [sum |-> (y * 2) % (4 * w), exp |-> x - 1]
        ELSE [sum |-> y, exp |-> 0]
  BY <1>2, Zenon DEF SmallNormalize, Lower
<1>4. CASE y >= 2 * w
  <2>1. y = ((2 * w) * 1) + (y - 2 * w) /\ y - 2 * w \in 0 .. (2 * w) - 1 /\ 2 * w \in Nat \ {0}
    BY <1>1, <1>4
  <2>2. PICK e \in Nat \ {0}, r \in Nat : e = 2 * w /\ y = (e * 1) + r /\ 1 \in Int /\ r \in 0 .. e - 1
    BY <2>1
  <2>3. y \div e = 1
    BY <2>2, DivisionUnique
  <2>4. SmallNormalize(y, x) = [sum |-> y \div 2, exp |-> x + 1]
    BY <1>3, <2>2, <2>3
  <2>5. SmallNormalize(y, x).sum = y \div 2 /\ SmallNormalize(y, x).exp = x + 1
    BY <2>4
  <2>6. ~ (y < 2 * w) /\ ~ (y < w)
    BY <1>4
  <2>7. QED
    BY <1>1, <2>5, <2>6
<1>5. CASE y < 2 * w
  <2>1. PICK e \in Nat \ {0} : e = 2 * w /\ y = (e * 0) + y /\ y \in 0 .. e - 1 /\ 0 \in Int
    BY <1>1, <1>5
  <2>2. y \div e = 0
    BY <2>1, DivisionUnique
  <2>3. y >= w => y \div w = 1
    <3>1. y >= w => y = (w * 1) + (y - w) /\ y - w \in 0 .. w - 1 /\ 1 \in Int
      BY <1>5
    <3>2. QED
      BY <3>1, DivisionUnique
  <2>4. y < w => y \div w = 0 /\ (y * 2) % (4 * w) = 2 * y
    <3>1. y < w => y = (w * 0) + y /\ y \in 0 .. w - 1 /\ 0 \in Int
      OBVIOUS
    <3>2. PICK f \in Nat \ {0}, u \in Nat : f = 4 * w /\ u = y * 2 /\ u = 2 * y
      OBVIOUS
    <3>3. y < w => u = (f * 0) + u /\ u \in 0 .. f - 1 /\ 0 \in Int
      BY <3>2
    <3>4. y < w => u % f = u
      BY <3>3, DivisionUnique
    <3>5. QED
      BY <3>1, <3>2, <3>4, DivisionUnique
  <2>5. (1 % 2 = 1) /\ (0 % 2 = 0)
    OBVIOUS
  <2>6. y >= w => SmallNormalize(y, x) = [sum |-> y, exp |-> x]
    BY <1>3, <2>1, <2>2, <2>3, <2>5
  <2>7. y < w => SmallNormalize(y, x) = IF x > 1 THEN [sum |-> 2 * y, exp |-> x - 1]
                                        ELSE [sum |-> y, exp |-> 0]
    BY <1>3, <2>1, <2>2, <2>4, <2>5
  <2>8. y >= w => SmallNormalize(y, x).sum = y /\ SmallNormalize(y, x).exp = x
    BY <2>6
  <2>9. y < w => IF x > 1 THEN SmallNormalize(y, x).sum = 2 * y /\ SmallNormalize(y, x).exp = x - 1
                 ELSE SmallNormalize(y, x).sum = y /\ SmallNormalize(y, x).exp = 0
    BY <2>7
  <2>10. ~ (y >= 2 * w)
    BY <1>5
  <2>11. QED
    BY <1>1, <2>8, <2>9, <2>10
<1>6. QED
  BY <1>4, <1>5

(* The vector after both shifts, and what it is: the sum times 2^shift, the   *)
(* shift and the exponent in step.                                          *)
Vector(d, xp, subtract, xc, s) ==
  LET first == Normalize(d, xp, subtract, xc, s)
  IN SmallNormalize(Lower(s * 2^first.shift, 3 * P + 5), first.exp)

Normalised(s, z, x, shift, xp) ==
  /\ x \in Nat /\ shift \in 0 .. MaxBits
  /\ shift = xp + P + 2 - (IF x = 0 THEN 0 ELSE x - 1)
  /\ z = s * 2^shift /\ z < (4 * Mantissas) * RoundBit
  /\ x >= 1 <=> z >= (2 * Mantissas) * RoundBit

(* By the leading zeros.                                                    *)
LEMMA NormalisedWide ==
  ASSUME Room, NEW s \in 0 .. RoundBit - 1, NEW d \in Int, NEW xp \in Int, xp >= -1,
         xp + P + 2 <= MaxBits, NEW xc \in Int, NEW subtract \in BOOLEAN,
         d <= 0 \/ (subtract /\ d <= 2)
  PROVE  LET n == Vector(d, xp, subtract, xc, s)
         IN \E shift \in 0 .. MaxBits : Normalised(s, n.sum, n.exp, shift, xp)
<1>1. /\ Format /\ P \in Nat /\ P >= 2 /\ MaxBits \in Nat /\ 3 * P + 5 <= MaxBits
      /\ RoundBit \in Nat \ {0} /\ s \in Nat
      /\ Mantissas \in Nat /\ Mantissas >= 2
      /\ 2^(3 * P + 3) = (2 * Mantissas) * RoundBit
      /\ 2^(3 * P + 4) = (4 * Mantissas) * RoundBit
      /\ 2^(3 * P + 5) = (8 * Mantissas) * RoundBit
  BY VectorSizes DEF Room
<1>2. PICK w \in Nat \ {0} : /\ w = (2 * Mantissas) * RoundBit /\ (4 * Mantissas) * RoundBit = 2 * w
                             /\ (8 * Mantissas) * RoundBit = 4 * w
  <2>1. PICK m \in Nat, r \in Nat \ {0} : m = Mantissas /\ m >= 2 /\ r = RoundBit
    BY <1>1
  <2>2. PICK w \in Int : w = (2 * m) * r
    BY <2>1
  <2>3. w >= 1 /\ (4 * m) * r = 2 * w /\ (8 * m) * r = 4 * w
    BY <2>1, <2>2
  <2>4. QED
    BY <2>1, <2>2, <2>3
<1>3. LowerSum(s) = s
  <2>1. PICK r \in Nat \ {0} : r = RoundBit /\ s = (r * 0) + s /\ s \in 0 .. r - 1 /\ 0 \in Int
    BY <1>1
  <2>2. s % r = s
    BY <2>1, DivisionUnique
  <2>3. QED
    BY <2>1, <2>2 DEF LowerSum, Lower, RoundBit
<1>4. PICK zeros \in Int : zeros = 2 * P + 3 - BitLength(s) /\
        (s # 0 => /\ zeros \in 0 .. 2 * P + 2
                  /\ 2^(2 * P + 2 - zeros) <= s /\ s < 2^(2 * P + 3 - zeros))
  <2>1. CASE s = 0
    <3>1. BitLength(s) = 0
      BY <2>1 DEF BitLength
    <3>2. QED
      BY <1>1, <2>1, <3>1
  <2>2. CASE s # 0
    <3>1. 2 * P + 3 \in 0 .. MaxBits /\ MaxBits \in 0 .. MaxBits
      BY <1>1
    <3>2. RoundBit <= 2^MaxBits /\ 2^MaxBits \in Nat
      BY <1>1, <3>1, PowersGrow DEF RoundBit
    <3>3. s \in 1 .. 2^MaxBits - 1
      BY <1>1, <2>2, <3>2
    <3>4. BitLength(s) \in 1 .. MaxBits /\ 2^(BitLength(s) - 1) <= s /\ s < 2^BitLength(s)
      BY <1>1, <3>3, Bits
    <3>5. PICK len \in 1 .. MaxBits : len = BitLength(s) /\ len - 1 \in 0 .. MaxBits
      BY <1>1, <3>4
    <3>6. len - 1 < 2 * P + 3
      <4>1. len - 1 >= 2 * P + 3 => RoundBit <= 2^(len - 1) /\ 2^(len - 1) \in Nat
        BY <1>1, <3>1, <3>5, PowersGrow DEF RoundBit
      <4>2. QED
        BY <1>1, <3>1, <3>4, <3>5, <4>1
    <3>7. /\ 2 * P + 3 - len \in 0 .. 2 * P + 2 /\ 2 * P + 2 - (2 * P + 3 - len) = len - 1
          /\ 2 * P + 3 - (2 * P + 3 - len) = len
      BY <1>1, <3>5, <3>6
    <3>8. QED
      BY <3>4, <3>5, <3>7
  <2>3. QED
    BY <2>1, <2>2
<1>5. CASE xp - zeros + 1 >= 0 /\ s # 0
  <2>1. Normalize(d, xp, subtract, xc, s) = [shift |-> P + 2 + zeros, exp |-> xp - zeros + 1]
    BY <1>3, <1>4, <1>5 DEF Normalize, LeadingZeros
  <2>2. PICK i \in Nat, l \in Nat :
          /\ i = P + 1 + zeros /\ i <= MaxBits /\ l = 2 * P + 2 - zeros /\ l + i = 3 * P + 3
          /\ i + 1 = P + 2 + zeros /\ i + 1 <= MaxBits /\ (l + 1) + i = 3 * P + 4
          /\ l + 1 = 2 * P + 3 - zeros
          /\ l + i <= MaxBits /\ (l + 1) + i <= MaxBits /\ l + 1 \in Nat
    BY <1>1, <1>4, <1>5
  <2>3. PICK u \in Nat \ {0}, x \in Nat \ {0} :
          /\ u = 2^i /\ x = 2^l /\ w = x * u /\ 2 * w = 2^(l + 1) * u /\ 2^(i + 1) = 2 * u
          /\ 2^(l + 1) \in Nat \ {0}
    <3>1. /\ 2^(l + i) = 2^l * 2^i /\ 2^((l + 1) + i) = 2^(l + 1) * 2^i
          /\ 2^l \in Nat \ {0} /\ 2^i \in Nat \ {0} /\ 2^(l + 1) \in Nat \ {0}
      BY <1>1, <2>2, PowersAdd
    <3>2. 2^(i + 1) = 2 * 2^i
      <4>1. i + 1 \in Nat /\ i + 1 >= 1 /\ (i + 1) - 1 = i
        BY <2>2
      <4>2. QED
        BY <1>1, <2>2, <4>1, PowerHalved
    <3>3. QED
      BY <1>1, <1>2, <2>2, <3>1, <3>2
  <2>4. x <= s /\ s < 2^(l + 1)
    BY <1>4, <1>5, <2>2, <2>3
  <2>5. s * u >= w /\ s * u < 2 * w /\ s * u \in Nat
    <3>1. PICK t \in Nat \ {0} : t = 2^(l + 1)
      BY <2>3
    <3>2. x * u <= s * u /\ s * u < t * u
      BY <2>4, <3>1
    <3>3. s * u \in Nat
      BY <1>1
    <3>4. QED
      BY <2>3, <3>1, <3>2, <3>3
  <2>6. PICK y \in Nat : y = s * u
    BY <2>5
  <2>7. s * 2^(P + 2 + zeros) = 2 * y
    <3>1. s * (2 * u) = 2 * (s * u)
      BY <1>1
    <3>2. QED
      BY <2>2, <2>3, <2>6, <3>1
  <2>8. Lower(2 * y, 3 * P + 5) = 2 * y
    <3>1. PICK f \in Nat \ {0}, t \in Nat : f = 4 * w /\ t = 2 * y /\ t = (f * 0) + t /\ t \in 0 .. f - 1 /\ 0 \in Int
      BY <2>5, <2>6
    <3>2. t % f = t
      <4>1. t \in Int /\ t = (f * 0) + t /\ t \in 0 .. f - 1 /\ 0 \in Int
        BY <3>1
      <4>2. QED
        BY <4>1, DivisionUnique
    <3>3. QED
      BY <1>1, <1>2, <3>1, <3>2 DEF Lower
  <2>9. PICK e \in Int : e = xp - zeros + 1 /\ e >= 0
    BY <1>5
  <2>10. Vector(d, xp, subtract, xc, s) = SmallNormalize(2 * y, e)
    BY <2>1, <2>7, <2>8, <2>9 DEF Vector
  <2>11. SmallNormalize(2 * y, e).sum = y /\ SmallNormalize(2 * y, e).exp = e + 1
    <3>1. 2 * y \in Nat /\ 2 * y < (8 * Mantissas) * RoundBit /\ 2 * y >= (4 * Mantissas) * RoundBit
          /\ (2 * y) \div 2 = y
      BY <1>2, <2>5, <2>6
    <3>2. QED
      BY <2>9, <3>1, SmallNormalizeIs
  <2>12. Normalised(s, y, e + 1, i, xp)
    <3>1. e + 1 \in Nat /\ i \in 0 .. MaxBits /\ i = xp + P + 2 - (IF e + 1 = 0 THEN 0 ELSE (e + 1) - 1)
      BY <1>1, <2>2, <2>9
    <3>2. y = s * 2^i /\ y < (4 * Mantissas) * RoundBit /\ y >= (2 * Mantissas) * RoundBit /\ e + 1 >= 1
      BY <1>2, <2>3, <2>5, <2>6, <2>9
    <3>3. QED
      BY <3>1, <3>2 DEF Normalised
  <2>13. QED
    BY <2>2, <2>10, <2>11, <2>12
<1>6. CASE ~ (xp - zeros + 1 >= 0 /\ s # 0)
  <2>1. Normalize(d, xp, subtract, xc, s) = [shift |-> P + 2 + xp, exp |-> 0]
    BY <1>3, <1>4, <1>6 DEF Normalize, LeadingZeros
  <2>2. PICK i \in Nat : i = P + 2 + xp /\ i \in 0 .. MaxBits
    BY <1>1
  <2>3. 2^i \in Nat \ {0}
    BY <1>1, <2>2, PowersGrow
  <2>4. PICK y \in Nat : y = s * 2^i /\ y < w
    <3>1. CASE s = 0
      BY <1>2, <2>3, <3>1
    <3>2. CASE s # 0
      <4>1. PICK l \in Nat : /\ l = 2 * P + 3 - zeros /\ l \in 0 .. MaxBits /\ l + i <= 3 * P + 3 /\ l + i <= MaxBits
                             /\ l + i \in 0 .. MaxBits /\ 3 * P + 3 \in 0 .. MaxBits
        BY <1>1, <1>4, <1>6, <2>2, <3>2
      <4>2. 2^(l + i) = 2^l * 2^i /\ 2^l \in Nat \ {0}
        BY <1>1, <2>2, <4>1, PowersAdd
      <4>3. 2^(l + i) <= w
        BY <1>1, <1>2, <4>1, PowersGrow
      <4>4. PICK x \in Nat \ {0}, u \in Nat \ {0} : x = 2^l /\ u = 2^i /\ x * u <= w
        BY <2>3, <4>2, <4>3
      <4>5. s < x
        BY <1>4, <3>2, <4>1, <4>4
      <4>6. s * u < x * u /\ s * u \in Nat
        BY <1>1, <4>5
      <4>7. x * u \in Int
        OBVIOUS
      <4>8. QED
        BY <4>4, <4>6, <4>7
    <3>3. QED
      BY <3>1, <3>2
  <2>5. s * 2^(P + 2 + xp) = y
    BY <2>2, <2>4
  <2>6. Lower(y, 3 * P + 5) = y
    <3>1. PICK f \in Nat \ {0} : f = 4 * w /\ y = (f * 0) + y /\ y \in 0 .. f - 1 /\ 0 \in Int
      BY <2>4
    <3>2. y % f = y
      BY <3>1, DivisionUnique
    <3>3. QED
      BY <1>1, <1>2, <3>1, <3>2 DEF Lower
  <2>7. Vector(d, xp, subtract, xc, s) = SmallNormalize(y, 0)
    BY <2>1, <2>5, <2>6 DEF Vector
  <2>8. SmallNormalize(y, 0).sum = y /\ SmallNormalize(y, 0).exp = 0
    <3>1. y < (8 * Mantissas) * RoundBit /\ y < (2 * Mantissas) * RoundBit /\ 0 \in Int /\ ~ (0 > 1)
      BY <1>2, <2>4
    <3>2. QED
      BY <3>1, SmallNormalizeIs
  <2>9. Normalised(s, y, 0, i, xp)
    <3>1. 0 \in Nat /\ i \in 0 .. MaxBits /\ i = xp + P + 2 - (IF 0 = 0 THEN 0 ELSE 0 - 1)
      BY <1>1, <2>2
    <3>2. y = s * 2^i /\ y < (4 * Mantissas) * RoundBit /\ ~ (y >= (2 * Mantissas) * RoundBit) /\ ~ (0 >= 1)
      BY <1>2, <2>4
    <3>3. QED
      BY <3>1, <3>2 DEF Normalised
  <2>10. QED
    BY <2>2, <2>7, <2>8, <2>9
<1>7. QED
  BY <1>5, <1>6

(* By the addend's own shift, undone.                                       *)
LEMMA NormalisedNear ==
  ASSUME Room, NEW s \in Nat, NEW d \in 1 .. P + 2, NEW xc \in Nat, xc >= 1, NEW xp, xp = xc - d,
         NEW subtract \in BOOLEAN, ~ (subtract /\ d <= 2),
         NEW y, y = s * 2^(P + 3 - d), y < (8 * Mantissas) * RoundBit,
         y < (2 * Mantissas) * RoundBit /\ xc > 1 => y >= Mantissas * RoundBit
  PROVE  LET n == Vector(d, xp, subtract, xc, s)
         IN \E shift \in 0 .. MaxBits : Normalised(s, n.sum, n.exp, shift, xp)
<1>1. /\ Format /\ P \in Nat /\ P >= 2 /\ MaxBits \in Nat /\ 3 * P + 5 <= MaxBits
      /\ 2^(3 * P + 5) = (8 * Mantissas) * RoundBit
  BY VectorSizes DEF Room
<1>2. PICK h \in Nat \ {0}, w \in Nat \ {0} :
        /\ h = Mantissas * RoundBit /\ w = (2 * Mantissas) * RoundBit /\ w = 2 * h
        /\ (4 * Mantissas) * RoundBit = 2 * w /\ (8 * Mantissas) * RoundBit = 4 * w
  <2>1. PICK m \in Nat, r \in Nat \ {0} : m = Mantissas /\ m >= 2 /\ r = RoundBit
    BY VectorSizes
  <2>2. PICK h \in Int : h = m * r
    BY <2>1
  <2>3. h >= 1 /\ (2 * m) * r = 2 * h /\ (4 * m) * r = 2 * (2 * h) /\ (8 * m) * r = 4 * (2 * h)
    BY <2>1, <2>2
  <2>4. 2 * h \in Nat \ {0} /\ h \in Nat \ {0}
    BY <2>2, <2>3
  <2>5. QED
    BY <2>1, <2>2, <2>3, <2>4
<1>3. d \in Int /\ d >= 1 /\ d <= P + 2
  BY <1>1
<1>4. PICK i \in Nat : /\ i = P + 2 - d /\ i + 1 = P + 3 - d /\ i + 2 = P + 4 - d
                       /\ i \in 0 .. MaxBits /\ i + 1 \in 0 .. MaxBits /\ i + 2 \in 0 .. MaxBits
  BY <1>1, <1>3
<1>5. PICK u \in Nat \ {0} : u = 2^i /\ 2^(i + 1) = 2 * u /\ 2^(i + 2) = 4 * u
  <2>1. i + 1 \in Nat /\ i + 2 \in Nat /\ (i + 1) - 1 = i /\ (i + 2) - 1 = i + 1 /\ i + 1 >= 1 /\ i + 2 >= 1
        /\ i + 1 <= MaxBits /\ i + 2 <= MaxBits
    BY <1>1, <1>4
  <2>2. 2^(i + 1) = 2 * 2^i /\ 2^(i + 2) = 2 * 2^(i + 1) /\ 2^i \in Nat \ {0}
    BY <1>1, <2>1, PowerHalved
  <2>3. QED
    BY <2>2
<1>6. PICK g \in Nat : g = s * u /\ y = 2 * g
  <2>1. s * u \in Nat /\ s * (2 * u) = 2 * (s * u)
    OBVIOUS
  <2>2. y = s * (2 * u)
    BY <1>4, <1>5
  <2>3. QED
    BY <2>1, <2>2
<1>7. Normalize(d, xp, subtract, xc, s) = [shift |-> P + 3 - d, exp |-> xc]
  BY <1>1, <1>3 DEF Normalize, AddendShift
<1>8. Lower(y, 3 * P + 5) = y
  <2>1. PICK f \in Nat \ {0} : f = 4 * w /\ y = (f * 0) + y /\ y \in 0 .. f - 1 /\ 0 \in Int /\ y \in Int
    BY <1>2, <1>6
  <2>2. y % f = y
    BY <2>1, DivisionUnique
  <2>3. QED
    BY <1>1, <1>2, <2>1, <2>2 DEF Lower
<1>9. PICK n : n = Vector(d, xp, subtract, xc, s) /\ n = SmallNormalize(y, xc)
  BY <1>7, <1>8 DEF Vector
<1>10. /\ y >= 2 * w => n.sum = g /\ n.exp = xc + 1
       /\ y < 2 * w /\ y >= w => n.sum = y /\ n.exp = xc
       /\ y < w => IF xc > 1 THEN n.sum = 2 * y /\ n.exp = xc - 1 ELSE n.sum = y /\ n.exp = 0
  <2>1. y \in Nat /\ y < (8 * Mantissas) * RoundBit /\ xc \in Int /\ y \div 2 = g
    BY <1>6
  <2>2. QED
    BY <1>2, <1>9, <2>1, SmallNormalizeIs
<1>11. CASE y >= 2 * w
  <2>1. /\ xc + 1 \in Nat /\ i \in 0 .. MaxBits
        /\ i = xp + P + 2 - (IF xc + 1 = 0 THEN 0 ELSE (xc + 1) - 1)
    BY <1>1, <1>3, <1>4
  <2>2. g = s * 2^i /\ g < 2 * w /\ g >= w /\ xc + 1 >= 1
    BY <1>2, <1>5, <1>6, <1>11
  <2>3. Normalised(s, g, xc + 1, i, xp)
    BY <1>2, <2>1, <2>2 DEF Normalised
  <2>4. QED
    BY <1>4, <1>9, <1>10, <1>11, <2>3
<1>12. CASE y < 2 * w /\ y >= w
  <2>1. /\ xc \in Nat /\ i + 1 \in 0 .. MaxBits
        /\ i + 1 = xp + P + 2 - (IF xc = 0 THEN 0 ELSE xc - 1)
    BY <1>1, <1>3, <1>4
  <2>2. y = s * 2^(i + 1)
    BY <1>4
  <2>3. Normalised(s, y, xc, i + 1, xp)
    BY <1>2, <1>12, <2>1, <2>2 DEF Normalised
  <2>4. QED
    BY <1>4, <1>9, <1>10, <1>12, <2>3
<1>13. CASE y < w /\ xc > 1
  <2>1. /\ xc - 1 \in Nat /\ i + 2 \in 0 .. MaxBits
        /\ i + 2 = xp + P + 2 - (IF xc - 1 = 0 THEN 0 ELSE (xc - 1) - 1)
    BY <1>1, <1>3, <1>4, <1>13
  <2>2. 2 * y = s * 2^(i + 2)
    <3>1. s * (4 * u) = 2 * (2 * (s * u))
      OBVIOUS
    <3>2. QED
      BY <1>5, <1>6, <3>1
  <2>3. 2 * y < 2 * w /\ 2 * y >= w /\ xc - 1 >= 1
    BY <1>2, <1>6, <1>13
  <2>4. Normalised(s, 2 * y, xc - 1, i + 2, xp)
    BY <1>2, <2>1, <2>2, <2>3 DEF Normalised
  <2>5. QED
    BY <1>4, <1>9, <1>10, <1>13, <2>4
<1>14. CASE y < w /\ ~ (xc > 1)
  <2>1. /\ 0 \in Nat /\ i + 1 \in 0 .. MaxBits
        /\ i + 1 = xp + P + 2 - (IF 0 = 0 THEN 0 ELSE 0 - 1)
    BY <1>1, <1>3, <1>4, <1>14
  <2>2. y = s * 2^(i + 1) /\ y < 2 * w /\ ~ (y >= w) /\ ~ (0 >= 1)
    BY <1>4, <1>6, <1>14
  <2>3. Normalised(s, y, 0, i + 1, xp)
    BY <1>2, <2>1, <2>2 DEF Normalised
  <2>4. QED
    BY <1>4, <1>9, <1>10, <1>14, <2>3
<1>15. y \in Nat
  BY <1>6
<1>16. QED
  BY <1>2, <1>11, <1>12, <1>13, <1>14, <1>15

(* What the vector and its exponent then say of the value, for rounding.     *)
LEMMA NormalisedScale ==
  ASSUME Room, NEW s \in Nat, NEW z, NEW x, NEW shift \in 0 .. MaxBits, NEW xp \in Int,
         Normalised(s, z, x, shift, xp),
         NEW ep \in Int, ep = xp - P + MinExp, ep >= 2 * MinExp, ep <= 2 * MinExp + 4 * Bias - 2,
         NEW unit, unit = 2^(ep - 2 - Fine), NEW r \in 0 .. unit - 1, NEW v, v = s * unit + r,
         r # 0 => s >= 2 * Mantissas
  PROVE  /\ unit \in Nat \ {0} /\ 2^shift \in Nat \ {0} /\ x \in Nat
         /\ r # 0 => \E j \in Nat : RoundBit = j * 2^shift
         /\ x < ExpOnes => \E h \in Nat \ {0} : h * 2^shift = RoundBit * unit
                                             /\ 2^(PlaceOf(x) - Fine) = 2 * h
         /\ x >= ExpOnes => v >= Val(PosInf, Fine)
<1>1. /\ Format /\ P \in Nat /\ P >= 2 /\ MaxBits \in Nat /\ 3 * P + 5 <= MaxBits
      /\ Mantissas \in Nat /\ Mantissas >= 2 /\ RoundBit \in Nat \ {0}
      /\ 2^(2 * P + 4) = 2 * RoundBit
      /\ P = ManBits + 1 /\ ManBits >= 1 /\ ManBits \in Nat /\ 4 * Bias <= MaxBits
      /\ 3 * Bias + 2 * ManBits + 2 <= MaxBits
  BY VectorSizes DEF Room
<1>2. /\ Base(Fine) /\ Fine \in Int /\ MinExp \in Int /\ Bias \in Nat /\ Bias >= 1
      /\ MinExp = 1 - Bias - ManBits /\ Fine = 2 * MinExp - 2 /\ Fields = 2 * (Bias + 1)
      /\ ExpOnes = Fields - 1
  BY <1>1, FineBase, Sizes
<1>3. /\ x \in Nat /\ shift = xp + P + 2 - (IF x = 0 THEN 0 ELSE x - 1)
      /\ z = s * 2^shift /\ z < (4 * Mantissas) * RoundBit
      /\ x >= 1 <=> z >= (2 * Mantissas) * RoundBit
  BY DEF Normalised
<1>4. PICK i \in 0 .. MaxBits : i = ep - 2 - Fine
  BY <1>1, <1>2
<1>5. PICK u \in Nat \ {0}, k \in Nat \ {0} : u = unit /\ u = 2^i /\ k = 2^shift
  BY <1>1, <1>4, PowersGrow
<1>6. PICK g \in Int : /\ g = PlaceOf(x) /\ g = (IF x = 0 THEN MinExp ELSE MinExp + x - 1) /\ g >= MinExp
                       /\ shift + g = ep + 2 * P + 2
  <2>1. PlaceOf(x) = (IF x = 0 THEN MinExp ELSE MinExp + x - 1)
    BY DEF PlaceOf
  <2>2. QED
    BY <1>1, <1>2, <1>3, <2>1
<1>7. /\ 2 * P + 3 \in 0 .. MaxBits /\ 2 * P + 4 \in 0 .. MaxBits
  BY <1>1
<1>8. ASSUME r # 0 PROVE \E j \in Nat : RoundBit = j * k
  <2>1. shift < 2 * P + 4
    <3>1. SUFFICES ASSUME shift >= 2 * P + 4 PROVE FALSE
      BY <1>1
    <3>2. 2 * RoundBit <= k
      BY <1>1, <1>5, <1>7, <3>1, PowersGrow
    <3>3. PICK m \in Nat, bit \in Nat \ {0} : m = Mantissas /\ m >= 2 /\ bit = RoundBit
      BY <1>1
    <3>4. (2 * m) * k <= s * k /\ (2 * m) * (2 * bit) <= (2 * m) * k /\ (2 * m) * (2 * bit) = (4 * m) * bit
      BY <1>8, <3>2, <3>3
    <3>5. (2 * m) * k \in Int /\ s * k \in Int /\ (4 * m) * bit \in Int
      BY <3>3
    <3>6. s * k < (4 * m) * bit
      BY <1>3, <1>5, <3>3
    <3>7. QED
      BY <3>4, <3>5, <3>6
  <2>2. PICK j \in Nat : j = 2 * P + 3 - shift /\ j + shift = 2 * P + 3
    BY <1>1, <2>1
  <2>3. 2^(j + shift) = 2^j * 2^shift /\ 2^j \in Nat \ {0}
    BY <1>1, <1>7, <2>2, PowersAdd
  <2>4. QED
    BY <1>5, <2>2, <2>3 DEF RoundBit
<1>9. ASSUME x < ExpOnes
      PROVE  \E h \in Nat \ {0} : h * k = RoundBit * u /\ 2^(PlaceOf(x) - Fine) = 2 * h
  <2>1. PICK e \in 0 .. MaxBits : e = g - 1 - Fine /\ e + 1 = g - Fine /\ e + 1 <= MaxBits
    <3>1. g >= MinExp /\ g <= MinExp + Fields - 3
      BY <1>1, <1>2, <1>3, <1>6, <1>9
    <3>2. MinExp + Fields - Fine <= MaxBits
      BY <1>2 DEF Base
    <3>3. QED
      BY <1>1, <1>2, <3>1, <3>2
  <2>2. e + shift = (2 * P + 3) + i
    BY <1>1, <1>2, <1>4, <1>6, <2>1
  <2>3. e + shift <= (2 * P + 3) + i
    BY <1>1, <2>2
  <2>4. 2^e * 2^shift = 2^(2 * P + 3) * 2^i /\ 2^e \in Nat \ {0}
    BY <1>1, <1>7, <2>2, <2>3, PowersBalance
  <2>5. 2^(e + 1) = 2 * 2^e
    <3>1. e + 1 \in Nat /\ e + 1 >= 1 /\ (e + 1) - 1 = e
      BY <2>1
    <3>2. QED
      BY <1>1, <2>1, <3>1, PowerHalved
  <2>6. QED
    BY <1>5, <1>6, <2>1, <2>4, <2>5 DEF RoundBit
<1>10. ASSUME x >= ExpOnes PROVE v >= Val(PosInf, Fine)
  <2>1. PICK f \in 0 .. MaxBits : f = MinExp + Fields - 2 - Fine /\ Val(PosInf, Fine) = Mantissas * 2^f
    BY <1>1, <1>2, OverflowValue
  <2>2. f + shift <= (2 * P + 4) + i
    BY <1>1, <1>2, <1>3, <1>4, <1>6, <1>10, <2>1
  <2>3. 2^f * 2^shift <= 2^(2 * P + 4) * 2^i /\ 2^f \in Nat \ {0}
    BY <1>1, <1>7, <2>2, PowersBalance
  <2>4. PICK m \in Nat, bit \in Nat \ {0}, y \in Nat \ {0} :
          m = Mantissas /\ m >= 2 /\ bit = RoundBit /\ y = 2^f /\ y * k <= (2 * bit) * u
    BY <1>1, <1>5, <2>3
  <2>5. z >= (2 * m) * bit /\ z = s * k
    BY <1>2, <1>3, <1>5, <1>10, <2>4
  <2>6. (s * u) * k = (s * k) * u /\ (s * k) * u >= ((2 * m) * bit) * u
    <3>1. PICK a \in Int, b \in Int : a = s * k /\ b = (2 * m) * bit /\ b <= a
      BY <2>5
    <3>2. b * u <= a * u
      BY <3>1
    <3>3. QED
      BY <3>1, <3>2
  <2>7. ((2 * m) * bit) * u = m * ((2 * bit) * u)
    BY <2>4
  <2>8. m * (y * k) <= m * ((2 * bit) * u) /\ m * (y * k) = (m * y) * k
    <3>1. PICK a \in Int, b \in Int : a = y * k /\ b = (2 * bit) * u /\ a <= b
      BY <2>4
    <3>2. m * a <= m * b
      BY <3>1
    <3>3. QED
      BY <3>1, <3>2
  <2>9. (m * y) * k <= (s * u) * k
    BY <2>6, <2>7, <2>8
  <2>10. m * y <= s * u /\ m * y \in Int /\ s * u \in Int
    <3>1. PICK a \in Int, b \in Int : a = m * y /\ b = s * u /\ a * k <= b * k
      BY <2>9
    <3>2. a <= b
      BY <3>1, Cancel
    <3>3. QED
      BY <3>1, <3>2
  <2>11. QED
    BY <1>5, <2>1, <2>4, <2>10
<1>11. QED
  BY <1>3, <1>5, <1>8, <1>9, <1>10

-----------------------------------------------------------------------------
(* Rounded once, unless the addend is far above the product.                *)

(* The sum's place in the vector when the addend's own shift is undone.      *)
LEMMA SumNear ==
  ASSUME NEW m \in Nat, m >= 2, NEW bit \in Nat, bit = (16 * m) * (2 * m),
         NEW n \in Nat, n < (2 * m) * (2 * m), NEW nc \in 0 .. 2 * m - 1,
         NEW w \in Nat \ {0}, NEW x \in Nat, w * x = 2 * bit, NEW ad, ad = nc * x,
         NEW s \in Nat, NEW y, y = s * w
  PROVE  /\ w <= 8 * m /\ s <= 4 * n + ad => y < (8 * m) * bit
         /\ w <= 2 * m /\ s >= ad - 4 * n /\ nc >= m => y >= m * bit
         /\ s >= ad /\ nc >= m => y >= (2 * m) * bit
<1>1. nc \in Nat /\ nc <= 2 * m - 1
  OBVIOUS
<1>2. ad \in Nat /\ ad * w = nc * (2 * bit)
  <2>1. (nc * x) * w = nc * (w * x) /\ nc * x \in Nat
    BY <1>1
  <2>2. QED
    BY <2>1
<1>3. PICK aw \in Nat, nw \in Nat, b \in Nat : aw = ad * w /\ nw = (4 * n) * w /\ b = m * bit
  <2>1. ad * w \in Nat /\ (4 * n) * w \in Nat /\ m * bit \in Nat
    BY <1>2
  <2>2. QED
    BY <2>1
<1>4. /\ (8 * m) * bit = 8 * b /\ (2 * m) * bit = 2 * b
      /\ b = ((32 * m) * m) * m
  <2>1. m * ((16 * m) * (2 * m)) = ((32 * m) * m) * m
    OBVIOUS
  <2>2. QED
    BY <1>3, <2>1
<1>5. nc >= m => aw >= 2 * b
  <2>1. nc >= m => nc * (2 * bit) >= m * (2 * bit)
    BY <1>1
  <2>2. m * (2 * bit) = 2 * (m * bit) /\ nc * (2 * bit) \in Int
    BY <1>1
  <2>3. QED
    BY <1>2, <1>3, <2>1, <2>2
<1>6. aw <= 4 * b - 2 * bit /\ bit >= 1
  <2>1. nc * (2 * bit) <= (2 * m - 1) * (2 * bit)
    BY <1>1
  <2>2. (2 * m - 1) * (2 * bit) = 4 * (m * bit) - 2 * bit
    OBVIOUS
  <2>3. bit >= 1
    OBVIOUS
  <2>4. QED
    BY <1>1, <1>2, <1>3, <2>1, <2>2, <2>3
<1>7. PICK q \in Nat : q = m * m /\ 4 * n <= 16 * q
  <2>1. (2 * m) * (2 * m) = 4 * (m * m) /\ m * m \in Nat
    OBVIOUS
  <2>2. QED
    BY <2>1
<1>8. w <= 8 * m => nw <= 4 * b
  <2>1. (4 * n) * w <= (16 * q) * w
    <3>1. PICK n4 \in Nat, q16 \in Nat : n4 = 4 * n /\ q16 = 16 * q
      OBVIOUS
    <3>2. n4 * w <= q16 * w
      BY <1>7, <3>1
    <3>3. QED
      BY <3>1, <3>2
  <2>2. w <= 8 * m => (16 * q) * w <= (16 * q) * (8 * m)
    <3>1. PICK q16 \in Nat, m8 \in Nat : q16 = 16 * q /\ m8 = 8 * m
      OBVIOUS
    <3>2. w <= m8 => q16 * w <= q16 * m8
      BY <3>1
    <3>3. QED
      BY <3>1, <3>2
  <2>3. (16 * q) * (8 * m) = 4 * b
    <3>1. (16 * q) * (8 * m) = 128 * (q * m) /\ ((32 * m) * m) * m = 32 * ((m * m) * m)
      OBVIOUS
    <3>2. (m * m) * m \in Int
      OBVIOUS
    <3>3. QED
      BY <1>4, <1>7, <3>1, <3>2
  <2>4. (16 * q) * w \in Int
    OBVIOUS
  <2>5. QED
    BY <1>3, <2>1, <2>2, <2>3, <2>4
<1>9. w <= 2 * m => nw <= b
  <2>1. (4 * n) * w <= (16 * q) * w
    <3>1. PICK n4 \in Nat, q16 \in Nat : n4 = 4 * n /\ q16 = 16 * q
      OBVIOUS
    <3>2. n4 * w <= q16 * w
      BY <1>7, <3>1
    <3>3. QED
      BY <3>1, <3>2
  <2>2. w <= 2 * m => (16 * q) * w <= (16 * q) * (2 * m)
    <3>1. PICK q16 \in Nat, m8 \in Nat : q16 = 16 * q /\ m8 = 2 * m
      OBVIOUS
    <3>2. w <= m8 => q16 * w <= q16 * m8
      BY <3>1
    <3>3. QED
      BY <3>1, <3>2
  <2>3. (16 * q) * (2 * m) = b
    <3>1. (16 * q) * (2 * m) = 32 * (q * m) /\ ((32 * m) * m) * m = 32 * ((m * m) * m)
      OBVIOUS
    <3>2. (m * m) * m \in Int
      OBVIOUS
    <3>3. QED
      BY <1>4, <1>7, <3>1, <3>2
  <2>4. (16 * q) * w \in Int
    OBVIOUS
  <2>5. QED
    BY <1>3, <2>1, <2>2, <2>3, <2>4
<1>10. y \in Nat /\ (s <= 4 * n + ad => y <= nw + aw)
  <2>1. PICK f \in Nat : f = 4 * n
    OBVIOUS
  <2>2. s <= f + ad => s * w <= (f + ad) * w
    BY <1>2
  <2>3. (f + ad) * w = f * w + ad * w /\ s * w \in Nat
    BY <1>2
  <2>4. QED
    BY <1>3, <2>1, <2>2, <2>3
<1>11. (s >= ad - 4 * n => y >= aw - nw) /\ (s >= ad => y >= aw)
  <2>1. PICK f \in Nat : f = 4 * n
    OBVIOUS
  <2>2. s + f >= ad => (s + f) * w >= ad * w
    BY <1>2
  <2>3. (s + f) * w = s * w + f * w /\ s * w \in Nat
    BY <1>2
  <2>4. s >= ad => s * w >= ad * w
    BY <1>2
  <2>5. s >= ad - 4 * n => s + f >= ad
    BY <1>2, <2>1
  <2>6. QED
    BY <1>3, <2>1, <2>2, <2>3, <2>4, <2>5
<1>12. w <= 8 * m /\ s <= 4 * n + ad => y < 8 * b
  BY <1>3, <1>6, <1>8, <1>10
<1>13. w <= 2 * m /\ s >= ad - 4 * n /\ nc >= m => y >= b
  BY <1>3, <1>5, <1>9, <1>10, <1>11
<1>14. s >= ad /\ nc >= m => y >= 2 * b
  BY <1>3, <1>5, <1>10, <1>11
<1>15. QED
  BY <1>3, <1>4, <1>12, <1>13, <1>14

(* What the unit returns for finite operands: the exact a * b + c, rounded    *)
(* once to nearest, ties to even; a zero with IEEE 754's sign.               *)
RoundedOnce(a, b, c) ==
  LET psign == (Sign(a) + Sign(b)) % 2
      t == SumOf(psign, Significand(a) * Significand(b), Exponent(a) + Exponent(b),
                 Sign(c), Significand(c), Exponent(c))
  IN \E n \in 0 .. PosInf :
       /\ Nearest(At(t.num, t.exp, Fine), Fine, n)
       /\ Finite(a, b, c) = WithSign(IF t.num = 0 THEN psign * Sign(c) ELSE t.sign, n)

LEMMA NearRounds ==
  ASSUME Room, NEW a, NEW b, NEW c, FiniteOperands(a, b, c), ExponentDifference(a, b, c) <= P + 2
  PROVE  RoundedOnce(a, b, c)
<1>1. /\ Format /\ P \in Nat /\ P >= 2 /\ P = ManBits + 1 /\ MaxBits \in Nat /\ 3 * P + 5 <= MaxBits
      /\ ManBits \in Nat /\ ManBits >= 1
      /\ 3 * Bias + 2 * ManBits + 2 <= MaxBits
      /\ 2^P = 2 * Mantissas /\ 2^(P + 1) = 4 * Mantissas
      /\ 2^(P + 2) = 8 * Mantissas /\ 2^(2 * P + 4) = 2 * RoundBit
  BY VectorSizes DEF Room
<1>2. PICK m \in Nat, bit \in Nat \ {0} : m = Mantissas /\ m >= 2 /\ bit = RoundBit /\ bit = (16 * m) * (2 * m)
  BY VectorSizes
<1>3. /\ Base(Fine) /\ Fine \in Int /\ MinExp \in Int /\ Bias \in Nat
      /\ MinExp = 1 - Bias - ManBits /\ Fine = 2 * MinExp - 2 /\ Bias >= 1
  BY FineBase
<1>4. PICK n, nc, d, xp, xc, ep, unit, ad, psign, t, v, sub :
        /\ n = Significand(a) * Significand(b) /\ nc = Significand(c)
        /\ d = ExponentDifference(a, b, c) /\ xp = ExponentProduct(a, b) /\ xc = ExponentAddend(c)
        /\ ep = ProductPlace(a, b) /\ unit = Unit(a, b) /\ ad = Shifted(nc, d) \div 2^P
        /\ psign = (Sign(a) + Sign(b)) % 2
        /\ t = SumOf(psign, n, Exponent(a) + Exponent(b), Sign(c), nc, Exponent(c))
        /\ v = At(t.num, t.exp, Fine) /\ sub = EffectiveSubtraction(a, b, c)
  OBVIOUS
<1>5. /\ n \in Nat /\ n < (2 * m) * (2 * m)
      /\ ep \in Int /\ ep >= 2 * MinExp /\ ep <= 2 * MinExp + 4 * Bias - 2
      /\ xp = ep + Bias + 2 * ManBits /\ d = Exponent(c) - ep - ManBits
  BY <1>2, <1>4, ProductExponent
<1>6. /\ nc \in 0 .. 2 * m - 1 /\ nc \in Nat /\ Exponent(c) \in Int /\ Exponent(c) >= MinExp
      /\ Exponent(c) > MinExp => nc >= m
      /\ xc = Exponent(c) + Bias + ManBits
  <2>1. c \in Patterns /\ Field(c) # ExpOnes
    BY DEF FiniteOperands
  <2>2. QED
    BY <1>2, <1>3, <1>4, <2>1, Operand
<1>7. /\ xp \in Int /\ xc \in Nat /\ xc >= 1 /\ d \in Int /\ d = xc - xp /\ xp = xc - d /\ d <= P + 2
      /\ ep = xp - P + MinExp /\ xp + P + 2 <= MaxBits
      /\ xc > 1 => nc >= m
  BY <1>1, <1>3, <1>4, <1>5, <1>6
<1>8. sub \in BOOLEAN
  BY <1>4 DEF EffectiveSubtraction
<1>9. PICK add : add = Adder(a, b, c)
  OBVIOUS
<1>10. /\ v \in Nat /\ (t.num = 0 <=> v = 0) /\ unit \in Nat \ {0} /\ ad \in Nat
       /\ psign \in 0 .. 1 /\ Sign(c) \in 0 .. 1
       /\ add.sticky \in BOOLEAN /\ add.sign \in 0 .. 1
       /\ v # 0 => add.sign = t.sign
       /\ v = 0 /\ psign = Sign(c) => add.sign = psign
       /\ sub <=> psign # Sign(c)
       /\ \E s \in Nat, r \in 0 .. unit - 1 :
            /\ add.sum = s /\ v = s * unit + r
            /\ add.sticky <=> r # 0
            /\ r # 0 => s >= 2 * Mantissas
            /\ s <= 4 * n + ad
            /\ ~ Sticky(nc, d) /\ sub => s >= ad - 4 * n
            /\ sub => s <= 4 * n \/ s <= ad
            /\ ~ sub => s = 4 * n + ad
       /\ d >= -P - 1 => ad = nc * 2^(P + 1 + d) /\ ~ Sticky(nc, d)
       /\ d < -P - 1 => ad < Mantissas
  <2>1. Aligned(a, b, c, n, nc, d, unit, ad, psign, t, v)
    BY <1>4, <1>7 DEF Aligned
  <2>2. QED
    BY <1>4, <1>9, <2>1, AdderValue
<1>11. PICK s \in Nat, r \in 0 .. unit - 1 :
            /\ add.sum = s /\ v = s * unit + r
            /\ add.sticky <=> r # 0
            /\ r # 0 => s >= 2 * Mantissas
            /\ s <= 4 * n + ad
            /\ ~ Sticky(nc, d) /\ sub => s >= ad - 4 * n
            /\ sub => s <= 4 * n \/ s <= ad
            /\ ~ sub => s = 4 * n + ad
  BY <1>10
<1>12. /\ d >= -P - 1 => ad = nc * 2^(P + 1 + d) /\ ~ Sticky(nc, d) /\ 2^(P + 1 + d) \in Nat \ {0}
       /\ d < -P - 1 => ad < m
  <2>3. d >= -P - 1 => P + 1 + d \in 0 .. MaxBits
    BY <1>1, <1>7
  <2>4. d >= -P - 1 => 2^(P + 1 + d) \in Nat \ {0}
    BY <1>1, <2>3, PowersGrow
  <2>5. QED
    BY <1>2, <1>10, <2>4
<1>13. PICK norm : norm = Vector(d, xp, sub, xc, s)
  OBVIOUS
<1>14. \E shift \in 0 .. MaxBits : Normalised(s, norm.sum, norm.exp, shift, xp)
  <2>1. CASE d <= 0 \/ (sub /\ d <= 2)
    <3>1. PICK q \in Nat : q = m * m /\ bit = 32 * q /\ 4 * n < 16 * q /\ m <= q
      <4>1. (2 * m) * (2 * m) = 4 * (m * m) /\ m * m \in Nat /\ (16 * m) * (2 * m) = 32 * (m * m) /\ m <= m * m
        BY <1>2
      <4>2. QED
        BY <1>2, <1>5, <4>1
    <3>2. d <= 0 => ad <= 8 * q
      <4>1. CASE d < -P - 1
        BY <1>10, <1>12, <3>1, <4>1
      <4>2. CASE d >= -P - 1 /\ d <= 0
        <5>1. P + 1 + d \in 0 .. MaxBits /\ P + 1 \in 0 .. MaxBits /\ P + 1 + d <= P + 1
          BY <1>1, <1>7, <4>2
        <5>2. 2^(P + 1 + d) <= 4 * m
          BY <1>1, <1>2, <5>1, PowersGrow
        <5>3. PICK x \in Nat : x = 2^(P + 1 + d) /\ x <= 4 * m
          BY <1>12, <4>2, <5>2
        <5>4. nc * x <= (2 * m) * x /\ (2 * m) * x <= (2 * m) * (4 * m) /\ (2 * m) * (4 * m) = 8 * (m * m)
          BY <1>2, <1>6, <5>3
        <5>5. nc * x \in Int /\ (2 * m) * x \in Int
          BY <1>6
        <5>6. QED
          BY <1>12, <3>1, <4>2, <5>3, <5>4, <5>5
      <4>3. QED
        BY <1>1, <1>7, <4>1, <4>2
    <3>3. ~ (d <= 0) => ad < bit
      <4>1. SUFFICES ASSUME ~ (d <= 0) PROVE ad < bit
        OBVIOUS
      <4>2. d >= 1 /\ d <= 2 /\ d >= -P - 1
        BY <1>1, <1>7, <2>1, <4>1
      <4>3. P + 3 \in 0 .. MaxBits /\ P + 1 + d \in 0 .. MaxBits /\ P + 1 + d <= P + 3
        BY <1>1, <1>7, <4>2
      <4>4. 2^(P + 3) = 16 * m
        <5>1. P + 3 \in Nat /\ P + 3 >= 1 /\ P + 3 <= MaxBits /\ (P + 3) - 1 = P + 2
          BY <1>1
        <5>2. 2^(P + 3) = 2 * 2^(P + 2)
          BY <1>1, <5>1, PowerHalved
        <5>3. QED
          BY <1>1, <1>2, <5>2
      <4>5. 2^(P + 1 + d) <= 16 * m
        BY <1>1, <1>2, <4>3, <4>4, PowersGrow
      <4>6. PICK x \in Nat : x = 2^(P + 1 + d) /\ x <= 16 * m
        BY <1>12, <4>2, <4>5
      <4>7. /\ nc * x <= nc * (16 * m) /\ nc * (16 * m) <= (2 * m - 1) * (16 * m)
            /\ (2 * m - 1) * (16 * m) = (16 * m) * (2 * m) - 16 * m
        BY <1>2, <1>6, <4>6
      <4>8. nc * x \in Int /\ nc * (16 * m) \in Int /\ (16 * m) * (2 * m) \in Int
        BY <1>6
      <4>9. QED
        BY <1>2, <1>12, <4>2, <4>6, <4>7, <4>8
    <3>4. s \in 0 .. RoundBit - 1
      <4>1. CASE d <= 0
        BY <1>2, <1>5, <1>10, <1>11, <3>1, <3>2, <4>1
      <4>2. CASE ~ (d <= 0)
        <5>1. sub
          BY <2>1, <4>2
        <5>2. QED
          BY <1>2, <1>5, <1>10, <1>11, <3>1, <3>3, <4>2, <5>1
      <4>3. QED
        BY <4>1, <4>2
    <3>5. xp >= -1
      BY <1>7, <2>1
    <3>6. QED
      BY <1>7, <1>8, <1>13, <2>1, <3>4, <3>5, NormalisedWide
  <2>2. CASE ~ (d <= 0 \/ (sub /\ d <= 2))
    <3>1. d \in 1 .. P + 2 /\ ~ (sub /\ d <= 2) /\ d >= -P - 1 /\ (sub => d >= 3)
      BY <1>1, <1>7, <2>2
    <3>2. /\ P + 3 - d \in 0 .. MaxBits /\ P + 3 - d <= P + 2 /\ P + 2 \in 0 .. MaxBits /\ P \in 0 .. MaxBits
          /\ sub => P + 3 - d <= P
          /\ P + 1 + d \in 0 .. MaxBits /\ 2 * P + 4 \in 0 .. MaxBits
          /\ (P + 3 - d) + (P + 1 + d) = 2 * P + 4
          /\ P + 3 - d \in Nat /\ P + 1 + d \in Nat /\ 2 * P + 4 <= MaxBits
      BY <1>1, <1>7, <3>1
    <3>3. PICK e1 \in Nat, e2 \in Nat : e1 = P + 3 - d /\ e2 = P + 1 + d /\ e1 + e2 = 2 * P + 4
      BY <3>2
    <3>4. 2^(e1 + e2) = 2^e1 * 2^e2 /\ 2^e1 \in Nat \ {0} /\ 2^e2 \in Nat \ {0}
      BY <1>1, <3>2, <3>3, PowersAdd
    <3>5. PICK w \in Nat \ {0}, x \in Nat : w = 2^(P + 3 - d) /\ x = 2^(P + 1 + d) /\ w * x = 2 * bit
      BY <1>1, <1>2, <3>3, <3>4
    <3>6. w <= 8 * m /\ (sub => w <= 2 * m)
      BY <1>1, <1>2, <3>2, <3>5, PowersGrow
    <3>7. ad = nc * x /\ ~ Sticky(nc, d)
      BY <1>12, <3>1, <3>5
    <3>8. PICK y \in Nat : y = s * w
      <4>1. s * w \in Nat
        OBVIOUS
      <4>2. QED
        BY <4>1
    <3>9. /\ w <= 8 * m /\ s <= 4 * n + ad => y < (8 * m) * bit
          /\ w <= 2 * m /\ s >= ad - 4 * n /\ nc >= m => y >= m * bit
          /\ s >= ad /\ nc >= m => y >= (2 * m) * bit
      <4>1. /\ m >= 2 /\ bit \in Nat /\ bit = (16 * m) * (2 * m) /\ n \in Nat /\ n < (2 * m) * (2 * m)
            /\ nc \in 0 .. 2 * m - 1 /\ w * x = 2 * bit
        BY <1>2, <1>5, <1>6, <3>5
      <4>2. QED
        BY <3>7, <3>8, <4>1, SumNear
    <3>10. y < (8 * Mantissas) * RoundBit
      BY <1>2, <1>11, <3>6, <3>9
    <3>11. y < (2 * Mantissas) * RoundBit /\ xc > 1 => y >= Mantissas * RoundBit
      <4>1. CASE sub
        BY <1>2, <1>7, <1>11, <3>6, <3>7, <3>9, <4>1
      <4>2. CASE ~ sub
        <5>1. s >= ad
          BY <1>5, <1>10, <1>11, <4>2
        <5>2. (2 * m) * bit \in Int
          BY <1>2
        <5>3. QED
          BY <1>2, <1>7, <3>8, <3>9, <5>1, <5>2
      <4>3. QED
        BY <1>8, <4>1, <4>2
    <3>12. y = s * 2^(P + 3 - d)
      BY <3>5, <3>8
    <3>13. QED
      BY <1>7, <1>8, <1>13, <3>1, <3>10, <3>11, <3>12, NormalisedNear
  <2>3. QED
    BY <2>1, <2>2
<1>15. PICK shift \in 0 .. MaxBits : Normalised(s, norm.sum, norm.exp, shift, xp)
  BY <1>14
<1>16. PICK z, x : z = norm.sum /\ x = norm.exp
  OBVIOUS
<1>17. /\ unit \in Nat \ {0} /\ 2^shift \in Nat \ {0} /\ x \in Nat
       /\ r # 0 => \E j \in Nat : RoundBit = j * 2^shift
       /\ x < ExpOnes => \E h \in Nat \ {0} : h * 2^shift = RoundBit * unit
                                           /\ 2^(PlaceOf(x) - Fine) = 2 * h
       /\ x >= ExpOnes => v >= Val(PosInf, Fine)
  <2>1. unit = 2^(ep - 2 - Fine)
    BY <1>4 DEF Unit
  <2>2. Normalised(s, z, x, shift, xp)
    BY <1>15, <1>16
  <2>3. QED
    BY <1>5, <1>7, <1>11, <2>1, <2>2, NormalisedScale
<1>18. PICK k \in Nat \ {0} : k = 2^shift
  BY <1>17
<1>19. /\ z = s * k /\ z < (4 * Mantissas) * RoundBit
       /\ x >= 1 <=> z >= (2 * Mantissas) * RoundBit
  BY <1>15, <1>16, <1>18 DEF Normalised
<1>20. PICK n0 \in 0 .. PosInf :
           /\ Nearest(v, Fine, n0)
           /\ Rounded(z, x, add.sticky, add.sign, sub) = WithSign(IF v = 0 /\ sub THEN 0 ELSE add.sign, n0)
  <2>1. /\ r # 0 => \E j \in Nat : RoundBit = j * k
        /\ x < ExpOnes => \E h \in Nat \ {0} : h * k = RoundBit * unit /\ 2^(PlaceOf(x) - Fine) = 2 * h
    BY <1>17, <1>18
  <2>2. /\ Base(Fine) /\ s \in Nat /\ x \in Nat /\ unit \in Nat \ {0} /\ r \in 0 .. unit - 1
        /\ v = s * unit + r /\ add.sticky \in BOOLEAN /\ (add.sticky <=> r # 0) /\ add.sign \in 0 .. 1
        /\ sub \in BOOLEAN /\ (x >= ExpOnes => v >= Val(PosInf, Fine))
    BY <1>3, <1>8, <1>10, <1>11, <1>17
  <2>3. ToRound(Fine, s, k, z, x, unit, r, v, add.sticky)
    BY <1>19, <2>1, <2>2 DEF ToRound
  <2>4. QED
    BY <2>2, <2>3, VectorRounds
<1>21. Finite(a, b, c) = Rounded(z, x, add.sticky, add.sign, sub)
  BY <1>4, <1>9, <1>11, <1>13, <1>16, Zenon DEF Finite, Vector
<1>22. (IF v = 0 /\ sub THEN 0 ELSE add.sign) = (IF t.num = 0 THEN psign * Sign(c) ELSE t.sign)
  <2>1. psign # Sign(c) => psign * Sign(c) = 0
    BY <1>10
  <2>2. psign = Sign(c) => psign * Sign(c) = psign
    BY <1>10
  <2>3. QED
    BY <1>10, <2>1, <2>2
<1>23. /\ Nearest(At(t.num, t.exp, Fine), Fine, n0)
       /\ Finite(a, b, c) = WithSign(IF t.num = 0 THEN psign * Sign(c) ELSE t.sign, n0)
  BY <1>4, <1>20, <1>21, <1>22
<1>24. QED
  BY <1>4, <1>23, Zenon DEF RoundedOnce

-----------------------------------------------------------------------------
(* An addend far above the product is the result: what is added or taken     *)
(* away is less than a quarter of its last place.                           *)

Parts(q, round, low, z, x, up, m) ==
  /\ q \in 0 .. 2 * Mantissas - 1 /\ round \in 0 .. 1 /\ low \in 0 .. RoundBit - 1
  /\ z = (2 * q + round) * RoundBit + low
  /\ x \in Nat /\ x < ExpOnes /\ (x >= 1 <=> q >= Mantissas)
  /\ up \in 0 .. 1 /\ (up = 1 <=> round = 1 /\ (low # 0 \/ q % 2 = 1))
  /\ m = (PlaceOf(x) - MinExp) * Mantissas + q

LEMMA RoundedParts ==
  ASSUME Room, NEW q, NEW round, NEW low, NEW z, NEW x, NEW up, NEW m,
         Parts(q, round, low, z, x, up, m), NEW below \in BOOLEAN, ~ below,
         NEW sign \in 0 .. 1, NEW subtract \in BOOLEAN
  PROVE  Rounded(z, x, below, sign, subtract) =
           WithSign(IF m = 0 /\ round = 0 /\ low = 0 /\ subtract THEN 0 ELSE sign, m + up)
<1>0. /\ q \in 0 .. 2 * Mantissas - 1 /\ round \in 0 .. 1 /\ low \in 0 .. RoundBit - 1
      /\ z = (2 * q + round) * RoundBit + low
      /\ x \in Nat /\ x < ExpOnes /\ (x >= 1 <=> q >= Mantissas)
      /\ up \in 0 .. 1 /\ (up = 1 <=> round = 1 /\ (low # 0 \/ q % 2 = 1))
      /\ m = (PlaceOf(x) - MinExp) * Mantissas + q
  BY DEF Parts
<1> USE <1>0
<1>1. PICK mm \in Nat, bit \in Nat \ {0} : mm = Mantissas /\ mm >= 2 /\ bit = RoundBit
  BY VectorSizes
<1>2. PICK f \in Nat : f = 2 * q + round
  BY <1>1
<1>3. z = f * bit + low /\ z \in Nat
  <2>1. f * bit \in Nat
    OBVIOUS
  <2>2. QED
    BY <1>1, <1>2, <2>1
<1>4. z < (4 * mm) * bit /\ (x >= 1 <=> z >= (2 * mm) * bit)
  <2>1. f <= 4 * mm - 1 /\ (f >= 2 * mm <=> q >= mm)
    BY <1>1, <1>2
  <2>2. f * bit <= (4 * mm - 1) * bit /\ (4 * mm - 1) * bit = (4 * mm) * bit - bit
    BY <2>1
  <2>3. f >= 2 * mm => f * bit >= (2 * mm) * bit
    OBVIOUS
  <2>4. f <= 2 * mm - 1 => f * bit <= (2 * mm - 1) * bit
    OBVIOUS
  <2>5. (2 * mm - 1) * bit = (2 * mm) * bit - bit /\ (2 * mm) * bit \in Int /\ (4 * mm) * bit \in Int /\ f * bit \in Int
    OBVIOUS
  <2>6. QED
    BY <1>1, <1>3, <2>1, <2>2, <2>3, <2>4, <2>5
<1> HIDE <1>0
<1>as. PICK q1 \in 0 .. 2 * Mantissas - 1, round1 \in 0 .. 1, low1 \in 0 .. RoundBit - 1, up1 \in 0 .. 1 :
        RoundedAs(z, x, below, sign, subtract, q1, round1, low1, up1)
  <2>1. z \in Nat /\ z < (4 * Mantissas) * RoundBit /\ x \in Nat /\ sign \in 0 .. 1
        /\ (x >= 1 <=> z >= (2 * Mantissas) * RoundBit) /\ subtract \in BOOLEAN /\ below \in BOOLEAN
    BY <1>0, <1>1, <1>3, <1>4
  <2>2. QED
    BY <2>1, RoundedIs
<1>5. /\ z = (2 * q1 + round1) * RoundBit + low1
      /\ x >= 1 <=> q1 >= Mantissas
      /\ up1 = 1 <=> round1 = 1 /\ (low1 # 0 \/ below \/ q1 % 2 = 1)
      /\ LET g == (PlaceOf(x) - MinExp) * Mantissas + q1
         IN Rounded(z, x, below, sign, subtract) =
              IF x >= ExpOnes THEN WithSign(sign, PosInf)
              ELSE WithSign(IF g = 0 /\ round1 = 0 /\ low1 = 0 /\ ~ below /\ subtract
                            THEN 0 ELSE sign, g + up1)
  BY <1>as DEF RoundedAs
<1>6. PICK f1 \in Nat : f1 = 2 * q1 + round1
  BY <1>1
<1>7. f1 = f /\ low1 = low
  <2>1. z = (bit * f) + low /\ z = (bit * f1) + low1
    <3>1. f * bit = bit * f /\ f1 * bit = bit * f1
      OBVIOUS
    <3>2. QED
      BY <1>1, <1>3, <1>5, <1>6, <3>1
  <2>2. low \in 0 .. bit - 1 /\ low1 \in 0 .. bit - 1 /\ f \in Int /\ f1 \in Int /\ z \in Int
    BY <1>0, <1>1, <1>3, <1>5
  <2>6. PICK zz \in Int : zz = z /\ zz = (bit * f) + low /\ zz = (bit * f1) + low1
    BY <2>1, <2>2
  <2>3. zz \div bit = f /\ zz % bit = low
    BY <2>2, <2>6, DivisionUnique, Zenon
  <2>4. zz \div bit = f1 /\ zz % bit = low1
    <3>1. zz \in Int /\ bit \in Nat \ {0} /\ f1 \in Int /\ low1 \in 0 .. bit - 1 /\ zz = (bit * f1) + low1
      BY <2>2, <2>6
    <3>2. QED
      BY <3>1, DivisionUnique
  <2>5. QED
    BY <2>3, <2>4
<1>8. q1 = q /\ round1 = round
  BY <1>0, <1>1, <1>2, <1>5, <1>6, <1>7
<1>9. up1 = up
  BY <1>0, <1>5, <1>7, <1>8
<1>10. ExpOnes \in Int
  BY Sizes DEF Room
<1>11. ~ (x >= ExpOnes)
  BY <1>0, <1>10
<1>12. Rounded(z, x, below, sign, subtract) =
         WithSign(IF m = 0 /\ round = 0 /\ low = 0 /\ ~ below /\ subtract THEN 0 ELSE sign, m + up)
  BY <1>0, <1>5, <1>7, <1>8, <1>9, <1>11, Zenon
<1>13. QED
  BY <1>12, Zenon

(* The addend's pattern nc in the upper bits, the product e in the lower.     *)
LEMMA FarVector ==
  ASSUME Room, NEW nc \in 0 .. 2 * Mantissas - 1, NEW e \in Nat, 2 * e < RoundBit,
         NEW xc \in Nat, xc >= 1, xc < ExpOnes, nc < Mantissas => xc = 1,
         NEW below \in BOOLEAN, ~ below, NEW sub \in BOOLEAN, NEW sign \in 0 .. 1,
         NEW s, s = IF ~ sub THEN e + nc * (2 * RoundBit)
                    ELSE IF e >= nc * (2 * RoundBit) THEN e - nc * (2 * RoundBit)
                    ELSE nc * (2 * RoundBit) - e
  PROVE  /\ s \in Nat /\ s < (4 * Mantissas) * RoundBit
         /\ LET norm == SmallNormalize(s, xc)
            IN Rounded(norm.sum, norm.exp, below, sign, sub) =
                 WithSign(IF nc = 0 /\ e = 0 /\ sub THEN 0 ELSE sign, (xc - 1) * Mantissas + nc)
<1>1. PICK m \in Nat, bit \in Nat \ {0} : /\ m = Mantissas /\ m >= 2 /\ m % 2 = 0 /\ bit = RoundBit
                                          /\ bit >= 1
  <2>1. \E j \in Nat : Mantissas = 2 * j
    BY Sizes DEF Room
  <2>2. Mantissas % 2 = 0 /\ Mantissas \in Nat /\ Mantissas >= 2 /\ RoundBit \in Nat \ {0}
    BY <2>1, VectorSizes
  <2>3. QED
    BY <2>2
<1>2. MinExp \in Int /\ ExpOnes \in Nat
  BY Sizes DEF Room
<1>3. nc \in Nat /\ nc <= 2 * m - 1
  BY <1>1
<1>4. PICK ad \in Nat : ad = nc * (2 * bit) /\ ad = (2 * nc) * bit
  <2>1. nc * (2 * bit) = (2 * nc) * bit /\ nc * (2 * bit) \in Nat
    BY <1>3
  <2>2. QED
    BY <2>1
<1>5. /\ nc >= 1 => ad >= 2 * bit
      /\ nc = 0 => ad = 0
      /\ ad <= (4 * m) * bit - 2 * bit
      /\ nc >= m => ad >= (2 * m) * bit
      /\ nc >= m + 1 => ad >= (2 * m) * bit + 2 * bit
      /\ nc <= m - 1 => ad <= (2 * m) * bit - 2 * bit
      /\ nc = m => ad = (2 * m) * bit
  <2>1. PICK d \in Nat : d = 2 * bit
    OBVIOUS
  <2>2. ad = nc * d
    BY <1>4, <2>1
  <2>3. /\ nc >= 1 => nc * d >= 1 * d
        /\ nc <= 2 * m - 1 => nc * d <= (2 * m - 1) * d
        /\ nc >= m => nc * d >= m * d
        /\ nc >= m + 1 => nc * d >= (m + 1) * d
        /\ nc <= m - 1 => nc * d <= (m - 1) * d
    BY <1>3
  <2>4. /\ (2 * m - 1) * d = (4 * m) * bit - 2 * bit /\ m * d = (2 * m) * bit
        /\ (m + 1) * d = (2 * m) * bit + 2 * bit /\ (m - 1) * d = (2 * m) * bit - 2 * bit
        /\ (2 * m) * bit \in Int /\ (4 * m) * bit \in Int /\ 1 * d = 2 * bit
    BY <2>1
  <2>5. nc = 0 => nc * d = 0
    OBVIOUS
  <2>6. nc = m => nc * d = m * d
    OBVIOUS
  <2>7. QED
    BY <1>3, <2>2, <2>3, <2>4, <2>5, <2>6
<1>6. PICK w \in Nat : w = (2 * m) * bit /\ (4 * m) * bit = 2 * w /\ w >= 4 * bit
  <2>1. PICK w \in Int : w = (2 * m) * bit
    OBVIOUS
  <2>2. (4 * m) * bit = 2 * w /\ w >= 4 * bit
    BY <1>1, <2>1
  <2>3. w \in Nat
    BY <2>1, <2>2
  <2>4. QED
    BY <2>1, <2>2, <2>3
<1>7. s = IF ~ sub THEN ad + e ELSE IF nc = 0 THEN e ELSE ad - e
  BY <1>1, <1>4, <1>5
<1>8. s \in Nat /\ s < 2 * w /\ s < 4 * w
  BY <1>1, <1>3, <1>5, <1>6, <1>7
<1>9. (8 * m) * bit = 4 * w
  BY <1>6
<1>16. s < (4 * Mantissas) * RoundBit
  BY <1>1, <1>6, <1>8
<1>10. /\ s >= w => SmallNormalize(s, xc).sum = s /\ SmallNormalize(s, xc).exp = xc
       /\ s < w => IF xc > 1 THEN SmallNormalize(s, xc).sum = 2 * s /\ SmallNormalize(s, xc).exp = xc - 1
                   ELSE SmallNormalize(s, xc).sum = s /\ SmallNormalize(s, xc).exp = 0
  <2>1. s \in Nat /\ s < (8 * Mantissas) * RoundBit /\ xc \in Int
    BY <1>1, <1>8, <1>9
  <2>2. (2 * Mantissas) * RoundBit = w /\ s < (4 * Mantissas) * RoundBit
    BY <1>1, <1>6, <1>16
  <2>3. QED
    BY <2>1, <2>2, SmallNormalizeIs
<1>11. /\ PlaceOf(0) - MinExp = 0 /\ PlaceOf(xc) - MinExp = xc - 1
       /\ xc > 1 => PlaceOf(xc - 1) - MinExp = xc - 2
  BY <1>2 DEF PlaceOf
<1>12. CASE nc = 0 \/ e = 0 \/ ~ sub
  (* Nothing is taken from the addend's own bits. *)
  <2>1. s = (2 * nc + 0) * bit + e /\ e \in 0 .. bit - 1
    BY <1>1, <1>4, <1>5, <1>7, <1>12
  <2>2. PICK x \in Nat : /\ x = IF nc >= m THEN xc ELSE 0
                         /\ SmallNormalize(s, xc).sum = s /\ SmallNormalize(s, xc).exp = x
    <3>1. CASE nc >= m
      BY <1>1, <1>5, <1>6, <1>7, <1>10, <1>12, <3>1
    <3>2. CASE ~ (nc >= m)
      <4>1. xc = 1 /\ s < w
        BY <1>1, <1>3, <1>5, <1>6, <1>7, <1>12, <3>2
      <4>2. QED
        BY <1>10, <3>2, <4>1
    <3>3. QED
      BY <3>1, <3>2
  <2>3. PICK g \in Int : g = (PlaceOf(x) - MinExp) * Mantissas + nc /\ g = (xc - 1) * Mantissas + nc
                         /\ (g = 0 <=> nc = 0)
    <3>1. PlaceOf(x) - MinExp = xc - 1
      BY <1>1, <1>3, <1>11, <2>2
    <3>2. (xc - 1) * m >= 0 /\ (xc - 1) * m \in Int /\ (nc < m => (xc - 1) * m = 0)
      BY <1>1
    <3>3. QED
      BY <1>1, <1>3, <3>1, <3>2
  <2>4. Rounded(s, x, below, sign, sub) =
           WithSign(IF g = 0 /\ 0 = 0 /\ e = 0 /\ sub THEN 0 ELSE sign, g + 0)
    <3>1. /\ nc \in 0 .. 2 * Mantissas - 1 /\ 0 \in 0 .. 1 /\ e \in 0 .. RoundBit - 1
          /\ s = (2 * nc + 0) * RoundBit + e /\ x \in Nat /\ x < ExpOnes
          /\ x >= 1 <=> nc >= Mantissas
          /\ 0 = 1 <=> 0 = 1 /\ (e # 0 \/ nc % 2 = 1)
      BY <1>1, <1>2, <1>3, <2>1, <2>2
    <3>2. Parts(nc, 0, e, s, x, 0, g)
      BY <2>3, <3>1 DEF Parts
    <3>3. QED
      BY <3>2, RoundedParts
  <2>5. (IF g = 0 /\ 0 = 0 /\ e = 0 /\ sub THEN 0 ELSE sign) = (IF nc = 0 /\ e = 0 /\ sub THEN 0 ELSE sign)
        /\ g + 0 = (xc - 1) * Mantissas + nc
    BY <2>3
  <2>6. QED
    BY <1>8, <1>16, <2>2, <2>4, <2>5, Zenon
<1>13. CASE nc >= 1 /\ e >= 1 /\ sub /\ ~ (nc = m /\ xc > 1)
  <2>1. PICK low \in 0 .. bit - 1 : low = bit - e /\ low # 0
    BY <1>1, <1>13
  <2>2. PICK q \in 0 .. 2 * m - 1 : q = nc - 1
    BY <1>3, <1>13
  <2>3. s = (2 * q + 1) * bit + low
    <3>1. (2 * (nc - 1) + 1) * bit = (2 * nc) * bit - bit /\ (2 * nc) * bit \in Int
      BY <1>3
    <3>2. QED
      BY <1>4, <1>7, <1>13, <2>1, <2>2, <3>1
  <2>4. PICK x \in Nat : /\ x = IF nc >= m + 1 THEN xc ELSE 0
                         /\ SmallNormalize(s, xc).sum = s /\ SmallNormalize(s, xc).exp = x
    <3>1. CASE nc >= m + 1
      BY <1>1, <1>5, <1>6, <1>7, <1>10, <1>13, <3>1
    <3>2. CASE ~ (nc >= m + 1)
      <4>1. ad <= w
        BY <1>1, <1>3, <1>5, <1>6, <3>2
      <4>2. xc = 1 /\ s < w
        BY <1>1, <1>3, <1>7, <1>13, <3>2, <4>1
      <4>3. QED
        BY <1>10, <3>2, <4>2
    <3>3. QED
      BY <3>1, <3>2
  <2>5. PICK g \in Int : g = (PlaceOf(x) - MinExp) * Mantissas + q /\ g + 1 = (xc - 1) * Mantissas + nc
    <3>1. PlaceOf(x) - MinExp = xc - 1
      BY <1>1, <1>3, <1>11, <1>13, <2>4
    <3>2. (xc - 1) * m \in Int
      BY <1>1
    <3>3. QED
      BY <1>1, <1>3, <2>2, <3>1, <3>2
  <2>6. Rounded(s, x, below, sign, sub) =
           WithSign(IF g = 0 /\ 1 = 0 /\ low = 0 /\ sub THEN 0 ELSE sign, g + 1)
    <3>1. /\ q \in 0 .. 2 * Mantissas - 1 /\ 1 \in 0 .. 1 /\ low \in 0 .. RoundBit - 1
          /\ s = (2 * q + 1) * RoundBit + low /\ x \in Nat /\ x < ExpOnes
          /\ x >= 1 <=> q >= Mantissas
          /\ 1 = 1 <=> 1 = 1 /\ (low # 0 \/ q % 2 = 1)
      BY <1>1, <1>2, <1>3, <2>1, <2>2, <2>3, <2>4
    <3>2. Parts(q, 1, low, s, x, 1, g)
      BY <2>5, <3>1 DEF Parts
    <3>3. QED
      BY <3>2, RoundedParts
  <2>7. (IF g = 0 /\ 1 = 0 /\ low = 0 /\ sub THEN 0 ELSE sign) = (IF nc = 0 /\ e = 0 /\ sub THEN 0 ELSE sign)
        /\ g + 1 = (xc - 1) * Mantissas + nc
    BY <1>13, <2>5
  <2>8. QED
    BY <1>8, <1>16, <2>4, <2>6, <2>7, Zenon
<1>14. CASE nc = m /\ xc > 1 /\ e >= 1 /\ sub
  <2>1. PICK low \in 0 .. bit - 1 : low = bit - 2 * e /\ low # 0
    BY <1>1, <1>14
  <2>2. PICK q \in 0 .. 2 * m - 1 : q = 2 * m - 1 /\ q % 2 = 1 /\ q >= m
    BY <1>1
  <2>3. 2 * s = (2 * q + 1) * bit + low
    <3>1. (2 * (2 * m - 1) + 1) * bit = (4 * m) * bit - bit /\ (4 * m) * bit \in Int
      OBVIOUS
    <3>2. s = w - e
      BY <1>1, <1>5, <1>6, <1>7, <1>14
    <3>3. QED
      BY <1>6, <2>1, <2>2, <3>1, <3>2
  <2>4. PICK x \in Nat : x = xc - 1 /\ x >= 1 /\ SmallNormalize(s, xc).sum = 2 * s /\ SmallNormalize(s, xc).exp = x
    <3>1. s < w
      BY <1>1, <1>5, <1>6, <1>7, <1>14
    <3>2. QED
      BY <1>10, <1>14, <3>1
  <2>5. PICK g \in Int : g = (PlaceOf(x) - MinExp) * Mantissas + q /\ g + 1 = (xc - 1) * Mantissas + nc
    <3>1. PlaceOf(x) - MinExp = xc - 2
      BY <1>11, <1>14, <2>4
    <3>2. (xc - 1) * m = (xc - 2) * m + m /\ (xc - 2) * m \in Int
      BY <1>1
    <3>3. QED
      BY <1>1, <1>14, <2>2, <3>1, <3>2
  <2>6. Rounded(2 * s, x, below, sign, sub) =
           WithSign(IF g = 0 /\ 1 = 0 /\ low = 0 /\ sub THEN 0 ELSE sign, g + 1)
    <3>1. /\ q \in 0 .. 2 * Mantissas - 1 /\ 1 \in 0 .. 1 /\ low \in 0 .. RoundBit - 1
          /\ 2 * s = (2 * q + 1) * RoundBit + low /\ x \in Nat /\ x < ExpOnes
          /\ x >= 1 <=> q >= Mantissas
          /\ 1 = 1 <=> 1 = 1 /\ (low # 0 \/ q % 2 = 1)
      BY <1>1, <1>2, <1>3, <2>1, <2>2, <2>3, <2>4
    <3>2. Parts(q, 1, low, 2 * s, x, 1, g)
      BY <2>5, <3>1 DEF Parts
    <3>3. QED
      BY <3>2, RoundedParts
  <2>7. (IF g = 0 /\ 1 = 0 /\ low = 0 /\ sub THEN 0 ELSE sign) = (IF nc = 0 /\ e = 0 /\ sub THEN 0 ELSE sign)
        /\ g + 1 = (xc - 1) * Mantissas + nc
    BY <1>14, <2>5
  <2>8. QED
    BY <1>8, <1>16, <2>4, <2>6, <2>7, Zenon
<1>15. \/ nc = 0 \/ e = 0 \/ ~ sub
       \/ nc >= 1 /\ e >= 1 /\ sub /\ ~ (nc = m /\ xc > 1)
       \/ nc = m /\ xc > 1 /\ e >= 1 /\ sub
  BY <1>3
<1>17. QED
  BY <1>12, <1>13, <1>14, <1>15, Zenon

(* Within a quarter of its last place of a value, its pattern is nearest.    *)
LEMMA QuarterNearest ==
  ASSUME Format, NEW b, Base(b), NEW r \in 0 .. PosInf - 1, NEW p \in Nat, NEW quarter \in Nat \ {0},
         HalfPlace(r, b) = 2 * quarter, p < quarter,
         NEW v \in Nat, v = Val(r, b) + p \/ v = Val(r, b) - p
  PROVE  Nearest(v, b, r)
<1>1. PosInf \in Nat /\ r \in Nat /\ r \in 0 .. PosInf /\ r # PosInf
  BY Sizes
<1>2. PICK y \in Nat, m \in Nat : y = Val(r, b) /\ m = Mid(r, b) /\ m = y + 2 * quarter
  BY <1>1, MagnitudeValue
<1>3. r # 0 => Mid(r - 1, b) <= y - quarter /\ Mid(r - 1, b) \in Int
  <2>1. SUFFICES ASSUME r # 0 PROVE Mid(r - 1, b) <= y - quarter /\ Mid(r - 1, b) \in Int
    OBVIOUS
  <2>2. PICK q \in 0 .. PosInf - 1 : q = r - 1 /\ q + 1 = r /\ q \in 0 .. PosInf
    BY <1>1, <2>1
  <2>3. PICK h \in Nat, z \in Nat : h = HalfPlace(q, b) /\ z = Val(q, b) /\ Mid(q, b) = z + h
    BY <2>2, MagnitudeValue
  <2>4. /\ Val(q + 1, b) = Val(q, b) + 2 * HalfPlace(q, b)
        /\ HalfPlace(q + 1, b) \in {HalfPlace(q, b), 2 * HalfPlace(q, b)}
    BY <2>2, NextValue
  <2>5. y = z + 2 * h /\ (2 * quarter = h \/ 2 * quarter = 2 * h)
    BY <1>2, <2>2, <2>3, <2>4
  <2>6. QED
    BY <2>2, <2>3, <2>5
<1>4. v < m /\ (r # 0 => Mid(r - 1, b) < v)
  BY <1>2, <1>3
<1>5. QED
  BY <1>1, <1>2, <1>3, <1>4 DEF Nearest

LEMMA ShiftedFar ==
  ASSUME Room, NEW nc \in 0 .. 2 * Mantissas - 1, NEW d \in Int, d >= P + 3
  PROVE  /\ Shifted(nc, d) \div 2^P = nc * (2 * RoundBit) /\ ~ Sticky(nc, d)
         /\ nc * (2 * RoundBit) \in Nat
<1>1. /\ Format /\ P \in Nat /\ MaxBits \in Nat /\ 3 * P + 5 <= MaxBits /\ P >= 1
      /\ 2^P = 2 * Mantissas /\ 2^(3 * P + 4) = (4 * Mantissas) * RoundBit
  BY VectorSizes DEF Room
<1>2. PICK m \in Nat, bit \in Nat \ {0}, w \in Nat \ {0} :
        m = Mantissas /\ m >= 2 /\ bit = RoundBit /\ w = 2 * m
  BY VectorSizes
<1>3. nc \in Nat
  BY <1>2
<1>4. PICK q \in Nat : q = nc * (2 * bit)
  <2>1. nc * (2 * bit) \in Nat
    BY <1>3
  <2>2. QED
    BY <2>1
<1>5. AddendShift(d) = 0
  BY <1>1 DEF AddendShift
<1>6. 2^0 = 1
  OBVIOUS
<1>7. nc * ((4 * m) * bit) = (w * q) + 0 /\ w * q \in Int
  <2>1. nc * ((4 * m) * bit) = (2 * m) * (nc * (2 * bit))
    BY <1>3
  <2>2. QED
    BY <1>2, <1>4, <2>1
<1>8. PICK t \in Int : t = (w * q) + 0 /\ t = nc * 2^(3 * P + 4)
  BY <1>1, <1>2, <1>7
<1>9. Shifted(nc, d) = t
  <2>1. t \div 1 = t
    OBVIOUS
  <2>2. QED
    BY <1>5, <1>6, <1>8, <2>1 DEF Shifted
<1>10. t \div w = q /\ t % w = 0
  <2>1. t \in Int /\ w \in Nat \ {0} /\ q \in Int /\ 0 \in 0 .. w - 1 /\ t = (w * q) + 0
    BY <1>8
  <2>2. QED
    BY <2>1, DivisionUnique
<1>11. QED
  BY <1>1, <1>2, <1>4, <1>9, <1>10 DEF Sticky

LEMMA FarRounds ==
  ASSUME Room, NEW a, NEW b, NEW c, FiniteOperands(a, b, c), ExponentDifference(a, b, c) >= P + 3
  PROVE  RoundedOnce(a, b, c)
<1>1. /\ Format /\ P \in Nat /\ P >= 2 /\ P = ManBits + 1 /\ MaxBits \in Nat /\ 3 * P + 5 <= MaxBits
      /\ ManBits \in Nat /\ ManBits >= 1 /\ 4 * Bias <= MaxBits /\ 2^P = 2 * Mantissas
      /\ 3 * Bias + 2 * ManBits + 2 <= MaxBits
  BY VectorSizes DEF Room
<1>2. PICK m \in Nat, bit \in Nat \ {0} : m = Mantissas /\ m >= 2 /\ bit = RoundBit /\ bit = (16 * m) * (2 * m)
  BY VectorSizes
<1>3. /\ Base(Fine) /\ Fine \in Int /\ MinExp \in Int /\ Bias \in Nat
      /\ MinExp = 1 - Bias - ManBits /\ Fine = 2 * MinExp - 2 /\ Bias >= 1
      /\ Fields = 2 * (Bias + 1) /\ ExpOnes = Fields - 1
  BY <1>1, FineBase, Sizes
<1>4. PICK n, nc, d, xp, xc, ep, ec, ad, psign, t, v :
        /\ n = Significand(a) * Significand(b) /\ nc = Significand(c)
        /\ d = ExponentDifference(a, b, c) /\ xp = ExponentProduct(a, b) /\ xc = ExponentAddend(c)
        /\ ep = ProductPlace(a, b) /\ ec = Exponent(c) /\ ad = Shifted(nc, d) \div 2^P
        /\ psign = (Sign(a) + Sign(b)) % 2
        /\ t = SumOf(psign, n, Exponent(a) + Exponent(b), Sign(c), nc, ec)
        /\ v = At(t.num, t.exp, Fine)
  OBVIOUS
<1>5. /\ n \in Nat /\ n < (2 * m) * (2 * m)
      /\ ep \in Int /\ ep >= 2 * MinExp /\ ep <= 2 * MinExp + 4 * Bias - 2
      /\ xp = ep + Bias + 2 * ManBits /\ d = ec - ep - ManBits
      /\ Exponent(a) + Exponent(b) \in Int /\ Exponent(a) + Exponent(b) - Fine \in 0 .. MaxBits
      /\ At(n, Exponent(a) + Exponent(b), Fine) = n * 2^(ep - Fine)
  BY <1>2, <1>4, ProductExponent
<1>6. /\ nc \in 0 .. 2 * m - 1 /\ nc \in Nat /\ ec \in Int /\ ec \in MinExp .. MinExp + 2 * Bias - 1
      /\ ec > MinExp => nc >= m
      /\ xc = ec + Bias + ManBits /\ Sign(c) \in 0 .. 1
      /\ Magnitude(c) \in 0 .. PosInf - 1 /\ Magnitude(c) = (ec - MinExp) * m + nc
      /\ Significand(Magnitude(c)) = nc /\ Exponent(Magnitude(c)) = ec
  <2>1. c \in Patterns /\ Field(c) # ExpOnes
    BY DEF FiniteOperands
  <2>2. QED
    BY <1>2, <1>3, <1>4, <2>1, Operand
<1>7. /\ xp \in Int /\ xc \in Nat /\ xc >= 1 /\ d \in Int /\ d >= P + 3 /\ xc - 1 = ec - MinExp
      /\ xc < ExpOnes /\ (nc < m => xc = 1) /\ Sign(a) \in 0 .. 1 /\ Sign(b) \in 0 .. 1
  <2>1. Sign(a) \in 0 .. 1 /\ Sign(b) \in 0 .. 1
    BY Operand DEF FiniteOperands
  <2>2. xp \in Int /\ xc \in Int /\ xc - 1 = ec - MinExp /\ d \in Int /\ xc >= 1 /\ d >= P + 3
    <3>1. d >= P + 3
      BY <1>4
    <3>2. ec \in Int /\ ec >= MinExp /\ xc = ec + Bias + ManBits
      BY <1>3, <1>6
    <3>3. d \in Int /\ xp \in Int
      BY <1>1, <1>3, <1>5, <3>2
    <3>4. QED
      BY <1>1, <1>3, <3>1, <3>2, <3>3
  <2>3. xc < ExpOnes
    BY <1>1, <1>3, <1>6, <2>2
  <2>4. nc < m => xc = 1
    <3>1. ec \in Int /\ ec >= MinExp /\ nc \in Nat /\ (ec > MinExp => nc >= m)
      BY <1>3, <1>6
    <3>2. QED
      BY <1>2, <1>3, <2>2, <3>1
  <2>5. QED
    BY <2>1, <2>2, <2>3, <2>4
<1>8. PICK sub \in BOOLEAN : sub = EffectiveSubtraction(a, b, c) /\ (sub <=> psign # Sign(c)) /\ psign \in 0 .. 1
  <2>1. PICK sa \in 0 .. 1, sb \in 0 .. 1, sc \in 0 .. 1 : sa = Sign(a) /\ sb = Sign(b) /\ sc = Sign(c)
    BY <1>6, <1>7
  <2>2. psign = (sa + sb) % 2 /\ psign \in 0 .. 1
    BY <1>4, <2>1
  <2>3. (sa + sb + sc) % 2 = 1 <=> psign # sc
    BY <2>2
  <2>4. EffectiveSubtraction(a, b, c) \in BOOLEAN /\ (EffectiveSubtraction(a, b, c) <=> psign # Sign(c))
    BY <2>1, <2>3 DEF EffectiveSubtraction
  <2>5. QED
    BY <2>2, <2>4
<1>9. ad = nc * (2 * bit) /\ ad \in Nat /\ ~ Sticky(nc, d)
  BY <1>2, <1>4, <1>6, <1>7, ShiftedFar
<1>10. PICK e \in Nat : e = 4 * n /\ 2 * e < bit
  <2>1. PICK q \in Nat : q = m * m /\ n < 4 * q /\ bit = 32 * q
    <3>1. (2 * m) * (2 * m) = 4 * (m * m) /\ m * m \in Nat /\ (16 * m) * (2 * m) = 32 * (m * m)
      OBVIOUS
    <3>2. QED
      BY <1>2, <1>5, <3>1
  <2>2. QED
    BY <1>5, <2>1
<1>11. ad <= (4 * m) * bit - 2 * bit /\ (4 * m) * bit \in Int /\ (nc >= 1 => ad >= 2 * bit)
  <2>1. PICK d2 \in Nat : d2 = 2 * bit /\ ad = nc * d2
    BY <1>9
  <2>2. nc * d2 <= (2 * m - 1) * d2 /\ (2 * m - 1) * d2 = (4 * m) * bit - 2 * bit
    BY <1>6, <2>1
  <2>3. nc >= 1 => nc * d2 >= 1 * d2
    BY <1>6
  <2>4. (4 * m) * bit \in Int
    OBVIOUS
  <2>5. QED
    BY <2>1, <2>2, <2>3, <2>4
<1>12. PICK add : add = Adder(a, b, c)
  OBVIOUS
<1>13. PICK below \in BOOLEAN, sign \in 0 .. 1, s \in Int :
         /\ add.sticky = below /\ ~ below /\ add.sign = sign /\ add.sum = s
         /\ s = IF ~ sub THEN e + nc * (2 * RoundBit)
                ELSE IF e >= nc * (2 * RoundBit) THEN e - nc * (2 * RoundBit)
                ELSE nc * (2 * RoundBit) - e
         /\ sign = IF sub /\ ~ (e >= ad) THEN 1 - psign ELSE psign
  <2>1. /\ 4 * n + ad < (4 * Mantissas) * RoundBit /\ n \in Nat /\ ad \in Nat
        /\ Sticky(nc, d) => 4 * n > ad
    BY <1>2, <1>5, <1>9, <1>10, <1>11
  <2>2. /\ Adder(a, b, c).sticky = Sticky(nc, d)
        /\ Adder(a, b, c).sum = IF ~ EffectiveSubtraction(a, b, c) THEN 4 * n + ad
                                 ELSE IF Sticky(nc, d) THEN 4 * n - ad - 1
                                 ELSE IF 4 * n >= ad THEN 4 * n - ad ELSE ad - 4 * n
        /\ Adder(a, b, c).sign = IF EffectiveSubtraction(a, b, c) /\ ~ (4 * n >= ad)
                                  THEN 1 - psign ELSE psign
    BY <1>4, <2>1, AdderIs
  <2>3. PICK below \in BOOLEAN : below = Sticky(nc, d) /\ ~ below
    BY <1>9 DEF Sticky
  <2>4. add.sum = IF ~ sub THEN e + ad ELSE IF e >= ad THEN e - ad ELSE ad - e
    BY <1>8, <1>9, <1>10, <1>12, <2>2
  <2>5. add.sign = (IF sub /\ ~ (e >= ad) THEN 1 - psign ELSE psign) /\ add.sign \in 0 .. 1
    BY <1>8, <1>10, <1>12, <2>2
  <2>6. add.sticky = below /\ add.sum \in Int
    BY <1>9, <1>10, <1>12, <2>2, <2>3, <2>4
  <2>7. nc * (2 * RoundBit) = ad
    BY <1>2, <1>9
  <2>8. QED
    BY <2>3, <2>4, <2>5, <2>6, <2>7
<1>14. PICK norm : norm = SmallNormalize(s, xc)
  OBVIOUS
<1>15. /\ s \in Nat /\ s < (4 * Mantissas) * RoundBit
       /\ Rounded(norm.sum, norm.exp, below, sign, sub) =
                 WithSign(IF nc = 0 /\ e = 0 /\ sub THEN 0 ELSE sign, (xc - 1) * Mantissas + nc)
  <2>1. /\ nc \in 0 .. 2 * Mantissas - 1 /\ 2 * e < RoundBit /\ (nc < Mantissas => xc = 1)
    BY <1>2, <1>6, <1>7, <1>10
  <2>2. QED
    BY <1>7, <1>13, <1>14, <2>1, FarVector
<1>16. Finite(a, b, c) = WithSign(IF nc = 0 /\ e = 0 /\ sub THEN 0 ELSE sign, Magnitude(c))
  <2>1. Normalize(d, xp, sub, xc, s) = [shift |-> 0, exp |-> xc]
    <3>1. ~ (d <= 0) /\ ~ (d <= 2) /\ d > 0 /\ AddendShift(d) = 0
      BY <1>1, <1>7 DEF AddendShift
    <3>2. QED
      BY <3>1 DEF Normalize
  <2>2. Lower(s * 2^0, 3 * P + 5) = s
    <3>1. 2^0 = 1 /\ s * 1 = s
      OBVIOUS
    <3>2. PICK w \in Nat \ {0} : w = (8 * m) * bit /\ s < w
      <4>1. (8 * m) * bit = (4 * m) * bit + (4 * m) * bit /\ (8 * m) * bit >= 1 /\ (8 * m) * bit \in Int
        BY <1>2
      <4>2. QED
        BY <1>2, <1>11, <1>15, <4>1
    <3>3. s % w = s
      <4>1. s \in Int /\ 0 \in Int /\ s \in 0 .. w - 1 /\ s = (w * 0) + s
        BY <1>15, <3>2
      <4>2. QED
        BY <4>1, DivisionUnique
    <3>4. 2^(3 * P + 5) = w
      BY <1>2, <3>2, VectorSizes
    <3>5. QED
      BY <3>1, <3>3, <3>4 DEF Lower
  <2>3. Vector(d, xp, sub, xc, s) = norm
    BY <1>14, <2>1, <2>2 DEF Vector
  <2>4. Finite(a, b, c) = Rounded(norm.sum, norm.exp, below, sign, sub)
    BY <1>4, <1>8, <1>12, <1>13, <2>3, Zenon DEF Finite, Vector
  <2>5. (xc - 1) * Mantissas + nc = Magnitude(c)
    BY <1>2, <1>6, <1>7
  <2>6. QED
    BY <1>15, <2>4, <2>5
<1>17. PICK p \in Nat, y \in Nat :
         /\ p = n * 2^(ep - Fine) /\ y = At(nc, ec, Fine)
         /\ v \in Nat /\ v = (IF psign = Sign(c) THEN p + y ELSE IF p >= y THEN p - y ELSE y - p)
         /\ t.num = 0 <=> v = 0
         /\ v # 0 => t.sign = IF psign = Sign(c) \/ p >= y THEN psign ELSE Sign(c)
  <2>1. PICK e1 \in Int : e1 = Exponent(a) + Exponent(b) /\ e1 - Fine \in 0 .. MaxBits
    <3>1. Exponent(a) \in Int /\ Exponent(b) \in Int
      BY <1>3, Operand DEF FiniteOperands
    <3>2. (Exponent(a) + Exponent(b)) - Fine = Exponent(a) + Exponent(b) - Fine
      BY <1>3, <3>1
    <3>3. QED
      BY <1>5, <3>2
  <2>2. ec - Fine \in 0 .. MaxBits
    BY <1>1, <1>3, <1>6
  <2>3. PICK p, y : p = At(n, e1, Fine) /\ y = At(nc, ec, Fine)
    OBVIOUS
  <2>4. IsSum(psign, n, e1, Sign(c), nc, ec, Fine, t, v, p, y)
    BY <1>3, <1>4, <1>5, <1>6, <1>8, <2>1, <2>2, <2>3 DEF IsSum
  <2>5. /\ v \in Nat /\ p \in Nat /\ y \in Nat
        /\ v = IF psign = Sign(c) THEN p + y ELSE IF p >= y THEN p - y ELSE y - p
        /\ t.num = 0 <=> v = 0
        /\ v # 0 => t.sign = IF psign = Sign(c) \/ p >= y THEN psign ELSE Sign(c)
    BY <1>1, <2>4, SumValue
  <2>6. p = n * 2^(ep - Fine)
    BY <1>5, <2>1, <2>3
  <2>7. QED
    BY <2>3, <2>5, <2>6
<1>18. PICK r \in 0 .. PosInf - 1 : r = Magnitude(c)
  BY <1>6
<1>19. PICK quarter \in Nat \ {0} : HalfPlace(r, Fine) = 2 * quarter /\ p < quarter /\ y = Val(r, Fine)
                                    /\ y = nc * (4 * quarter)
  <2>1. PICK i \in Nat, j \in Nat : /\ i = ep - Fine /\ j = ec - 2 - Fine /\ i \in 0 .. MaxBits
                                    /\ j + 2 <= MaxBits /\ P \in 0 .. MaxBits
                                    /\ j + 1 = ec - 1 - Fine /\ j + 2 = ec - Fine
                                    /\ P + (P + i) <= j /\ P + (P + i) \in 0 .. MaxBits /\ j \in 0 .. MaxBits
    BY <1>1, <1>3, <1>5, <1>6, <1>7
  <2>2. PICK quarter \in Nat \ {0} : quarter = 2^j /\ 2^(j + 1) = 2 * quarter /\ 2^(j + 2) = 4 * quarter
    <3>1. /\ j + 1 \in Nat /\ j + 1 >= 1 /\ j + 1 <= MaxBits /\ (j + 1) - 1 = j
          /\ j + 2 \in Nat /\ j + 2 >= 1 /\ j + 2 <= MaxBits /\ (j + 2) - 1 = j + 1
      BY <1>1, <2>1
    <3>2. 2^(j + 1) = 2 * 2^j /\ 2^(j + 2) = 2 * 2^(j + 1) /\ 2^j \in Nat \ {0}
      BY <1>1, <3>1, PowerHalved
    <3>3. QED
      BY <3>2
  <2>3. HalfPlace(r, Fine) = 2 * quarter /\ y = nc * (4 * quarter) /\ y = Val(r, Fine)
    BY <1>6, <1>17, <1>18, <2>1, <2>2 DEF HalfPlace, At, Val
  <2>4. p < quarter
    <3>1. PICK u \in Nat \ {0} : u = 2^i
      BY <1>1, <2>1, PowersGrow
    <3>2. 2^(P + (P + i)) = 2^P * 2^(P + i) /\ 2^(P + i) = 2^P * 2^i
      BY <1>1, <2>1, PowersAdd
    <3>3. (2 * m) * ((2 * m) * u) <= quarter
      BY <1>1, <1>2, <2>1, <2>2, <3>1, <3>2, PowersGrow
    <3>4. n * u < ((2 * m) * (2 * m)) * u
      <4>1. PICK f \in Nat : f = (2 * m) * (2 * m)
        <5>1. (2 * m) * (2 * m) \in Nat
          OBVIOUS
        <5>2. QED
          BY <5>1
      <4>2. n * u < f * u
        BY <1>5, <4>1
      <4>3. QED
        BY <4>1, <4>2
    <3>5. ((2 * m) * (2 * m)) * u = (2 * m) * ((2 * m) * u) /\ n * u \in Int /\ (2 * m) * ((2 * m) * u) \in Int
      BY <1>5
    <3>6. p = n * u
      BY <1>17, <2>1, <3>1
    <3>7. QED
      BY <3>3, <3>4, <3>5, <3>6
  <2>5. QED
    BY <2>2, <2>3, <2>4
<1>20. nc >= 1 => y >= 4 * quarter
  <2>1. PICK q \in Nat : q = 4 * quarter
    OBVIOUS
  <2>2. nc >= 1 => nc * q >= 1 * q
    BY <1>6
  <2>3. QED
    BY <1>19, <2>1, <2>2
<1>21. nc = 0 => y = 0
  BY <1>19
<1>22. p = 0 <=> n = 0
  <2>1. PICK i \in 0 .. MaxBits : i = ep - Fine
    BY <1>1, <1>3, <1>5
  <2>2. PICK u \in Nat \ {0} : u = 2^i
    BY <1>1, <2>1, PowersGrow
  <2>3. n * u = 0 <=> n = 0
    BY <1>5
  <2>4. QED
    BY <1>17, <2>1, <2>2, <2>3
<1>23. Nearest(v, Fine, r)
  <2>1. v = Val(r, Fine) + p \/ v = Val(r, Fine) - p
    BY <1>6, <1>17, <1>19, <1>20, <1>21
  <2>2. QED
    BY <1>1, <1>3, <1>17, <1>18, <1>19, <2>1, QuarterNearest
<1>24. (IF nc = 0 /\ e = 0 /\ sub THEN 0 ELSE sign) = (IF t.num = 0 THEN psign * Sign(c) ELSE t.sign)
  <2>1. (psign # Sign(c) => psign * Sign(c) = 0) /\ (psign = Sign(c) => psign * Sign(c) = psign)
    BY <1>6, <1>8
  <2>2. CASE nc = 0
    <3>1. sign = psign /\ y = 0 /\ v = p
      BY <1>5, <1>9, <1>10, <1>13, <1>17, <1>21, <2>2
    <3>2. e = 0 <=> n = 0
      BY <1>5, <1>10
    <3>3. QED
      BY <1>8, <1>17, <1>22, <2>1, <2>2, <3>1, <3>2
  <2>3. CASE nc >= 1
    <3>1. ~ (p >= y) /\ ~ (e >= ad)
      BY <1>9, <1>10, <1>11, <1>19, <1>20, <2>3
    <3>3. v # 0
      BY <1>17, <3>1
    <3>2. QED
      BY <1>6, <1>8, <1>13, <1>17, <2>3, <3>1, <3>3
  <2>4. QED
    BY <1>6, <2>2, <2>3
<1>25. r \in 0 .. PosInf
  BY <1>1, <1>18, Sizes
<1>26. /\ Nearest(At(t.num, t.exp, Fine), Fine, r)
       /\ Finite(a, b, c) = WithSign(IF t.num = 0 THEN psign * Sign(c) ELSE t.sign, r)
  BY <1>4, <1>16, <1>18, <1>23, <1>24
<1>27. QED
  BY <1>4, <1>25, <1>26, Zenon DEF RoundedOnce

(* For all finite operands.                                                 *)
LEMMA FiniteRounds ==
  ASSUME Room, NEW a, NEW b, NEW c, FiniteOperands(a, b, c)
  PROVE  RoundedOnce(a, b, c)
<1>1. PICK d \in Int : d = ExponentDifference(a, b, c)
  <2>1. PICK ep \in Int : ep = ProductPlace(a, b) /\ ExponentDifference(a, b, c) = Exponent(c) - ep - ManBits
    BY ProductExponent
  <2>2. Exponent(c) \in Int /\ ManBits \in Int
    BY Operand, VectorSizes DEF FiniteOperands
  <2>3. QED
    BY <2>1, <2>2
<1>2. P \in Int
  BY VectorSizes
<1>3. d <= P + 2 \/ d >= P + 3
  BY <1>1, <1>2
<1>4. QED
  BY <1>1, <1>3, NearRounds, FarRounds

=============================================================================
