----------------------------- MODULE RopePhase -----------------------------
(***************************************************************************)
(* The integer phase of the rotation and the addressing of the quarter-wave *)
(* sine table: the golden model's phi_table, phase_of, lut_sin and lut_cos  *)
(* (rope_ref.py) and the hardware's rope_theta_rom, rope_phase_gen and      *)
(* rope_sin_lut, with the state of the sequential accumulators.             *)
(*                                                                          *)
(* An angle is a fraction of a turn: theta_i / 2pi is Turn[i] / TurnUnits.  *)
(* The code has PhaseBits = 32, LutBits = 10, PosBits = 16 and 64 pairs.    *)
(***************************************************************************)
EXTENDS Powers

CONSTANTS PhaseBits, LutBits, PosBits, NumPairs, Turn, TurnUnits

ASSUME PhaseAssumption ==
  /\ PhaseBits \in Nat /\ LutBits \in Nat /\ PosBits \in Nat
  /\ LutBits + 2 <= PhaseBits
  /\ NumPairs \in Nat \ {0}
  /\ TurnUnits \in Nat \ {0}
  /\ Turn \in [0 .. NumPairs - 1 -> Nat]

Pairs == 0 .. NumPairs - 1
LutN == 2^LutBits
QuarterTurn == 2^(PhaseBits - 2)
FullTurn == 2^PhaseBits
Phases == 0 .. FullTurn - 1

\* Of the widest word, the product of a position and a phase.
ASSUME PhasePowers == PowersOfTwo(PosBits + PhaseBits)

\* np.round: to nearest, ties to even.
Nearest(n, d) ==
  LET q == n \div d
      twice == 2 * (n % d)
  IN IF twice > d \/ (twice = d /\ q % 2 = 1) THEN q + 1 ELSE q

\* The ROM of phase increments; the mask wraps a whole turn to zero.
phi_table == [i \in Pairs |-> Nearest(FullTurn * Turn[i], TurnUnits) % FullTurn]

phase_of(m, i) == (m * phi_table[i]) % FullTurn

-----------------------------------------------------------------------------
(* The table address of a phase, as the Python computes it.                 *)

quad(p) == (p \div QuarterTurn) % 4
idx(p) == (p \div 2^(PhaseBits - 2 - LutBits)) % LutN
reflect(p) == quad(p) \in {1, 3}
\* Mutant: reflection of a table sampled at the left ends of its buckets.
ridxLeftEnd(p) == IF reflect(p) THEN (LutN - idx(p)) % LutN ELSE idx(p)
ridx(p) == IF reflect(p) THEN LutN - 1 - idx(p) ELSE idx(p)
\* Mutant: the third quadrant is left out.
negateLast(p) == quad(p) > 2
negate(p) == quad(p) >= 2
cos_phase(p) == (p + QuarterTurn) % FullTurn

\* The entry holds the sine of the centre of its bucket.  The centre of the
\* bucket a phase is in, in half buckets from angle zero, folded into the first
\* quadrant by sin(pi - a) = sin(a) and sin(a + pi) = -sin(a), must be the
\* centre the entry was sampled at, (k + 0.5) buckets, that is 2k + 1.
Centre(p) == 2 * (p \div 2^(PhaseBits - 2 - LutBits)) + 1
Folded(p) ==
  LET half == Centre(p) % (4 * LutN)
  IN IF half > 2 * LutN THEN 4 * LutN - half ELSE half
SineNegative(p) == Centre(p) > 4 * LutN

-----------------------------------------------------------------------------
(* The hardware: m in a register of PosBits, the product as wide as both     *)
(* factors, its low word the phase; two lookup paths, the second a quarter   *)
(* turn ahead in the same width.                                             *)

\* The generated ROM answers zero to an index that is no pair.
rope_theta_rom(i) == IF i \in Pairs THEN phi_table[i] ELSE 0

\* Mutant: a position register of three bits less than the operand field.
random_phaseNarrow(m, i) == ((m % 2^(PosBits - 3)) * rope_theta_rom(i)) % FullTurn
random_phase(m, i) ==
  LET product == ((m % 2^PosBits) * rope_theta_rom(i)) % 2^(PosBits + PhaseBits)
  IN product % FullTurn

Slice(p, low, width) == (p \div 2^low) % 2^width
path_quad(p) == Slice(p, PhaseBits - 2, 2)
path_index(p) ==
  LET i == Slice(p, PhaseBits - 2 - LutBits, LutBits)
  IN IF path_quad(p) \in {1, 3} THEN (LutN - 1 - i) % LutN ELSE i
path_negate(p) == Slice(path_quad(p), 1, 1) = 1

-----------------------------------------------------------------------------
(* The sequential mode: an accumulator per pair, cleared at the start of a   *)
(* sequence and stepped once per token.  seqSteps counts the tokens of the   *)
(* present sequence of each pair.                                            *)

CONSTANT MaxSteps   \* bound on the tokens of one sequence

VARIABLES acc_q, seqSteps

seqVars == <<acc_q, seqSteps>>

SeqTypeOK == /\ acc_q \in [Pairs -> Phases]
             /\ seqSteps \in [Pairs -> Nat]

SeqInit == /\ acc_q = [i \in Pairs |-> 0]
           /\ seqSteps = [i \in Pairs |-> 0]

\* Mutant: the token count restarts and the accumulator does not.
SeqClearForgotten(i) == /\ UNCHANGED acc_q
                        /\ seqSteps' = [seqSteps EXCEPT ![i] = 0]

SeqClear(i) == /\ acc_q' = [acc_q EXCEPT ![i] = 0]
               /\ seqSteps' = [seqSteps EXCEPT ![i] = 0]

SeqStep(i) == /\ seqSteps[i] < MaxSteps
              /\ acc_q' = [acc_q EXCEPT ![i] = (@ + rope_theta_rom(i)) % FullTurn]
              /\ seqSteps' = [seqSteps EXCEPT ![i] = @ + 1]

SeqNext == \E i \in Pairs : SeqClear(i) \/ SeqStep(i)

SeqSpec == SeqInit /\ [][SeqNext]_seqVars

(***************************************************************************)
(* The accumulator holds the phase of the token it has reached, without     *)
(* drift and through every wrap of the word: both modes of rope_phase_gen   *)
(* address the table alike (rope_phase_gen.sv, "sequential decode").        *)
(***************************************************************************)
NoDrift == \A i \in Pairs : acc_q[i] = phase_of(seqSteps[i], i)
=============================================================================
