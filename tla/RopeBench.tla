----------------------------- MODULE RopeBench -----------------------------
(***************************************************************************)
(* The vectors the golden model is compared with the hardware on: the       *)
(* generator (model/gen_vectors.py) writes, line by line, operands and the  *)
(* expected result; the testbench drives the unit with the operands.  Where *)
(* the generator draws operands at random, every operand of the format is a *)
(* possible line here.                                                      *)
(*                                                                          *)
(* `kind' is the vector file being generated, `line' the operands of the    *)
(* line so far, <<>> between two lines.  The expected results and those of  *)
(* the hardware are functions of the operands, compared by the invariants.  *)
(* Two benches have a state of their own: the sequential accumulators of    *)
(* the phase generator (kind "sequence"), and the rotation of a head in     *)
(* place by the C driver (kind "head").                                     *)
(***************************************************************************)
EXTENDS RopeRotate, RopeHead, Sequences

CONSTANTS
  Multiplicands, Multipliers,   \* the operands a, b of the fused vectors
  Positions                     \* the tokens m drawn for whole instructions

ASSUME OperandsAssumption == /\ Multiplicands \subseteq N!Patterns
                             /\ Multipliers \subseteq N!Patterns
                             /\ Positions \subseteq 0 .. 2^PosBits - 1

VARIABLES kind, line

benchVars == <<kind, line, acc_q, seqSteps, vec, k, mode, given>>

Kinds == {"round", "bf16", "fma", "phase", "sequence", "lut", "datapath", "xif", "head"}
Pairwise == {"bf16", "fma", "phase", "datapath", "xif"}   \* two operands to a line

\* Zeros, infinities, NaNs of several payloads, the ends of the subnormal and
\* normal ranges, one and its neighbours.
SPECIAL_BF16 ==
  LET one == N!Bias * 2^ManBits
      magnitudes == {0, N!PosInf, N!QNaN, N!QNaN + 1, N!PosInf + 1, 1, 2^ManBits - 1, 2^ManBits,
                     N!PosInf - 1, one, one - 2^ManBits, one + 2^ManBits, one + 1}
  IN magnitudes \cup {N!WithSign(1, u) : u \in {0, N!PosInf, N!QNaN, 1, 2^ManBits, N!PosInf - 1, one}}

BenchInit == /\ SeqInit /\ HeadInit
             /\ line = <<>>
             /\ kind \in Kinds
             /\ kind # "head" => given = CHOOSE v \in Vectors : TRUE

\* The first operand of a line, then the second.
First(which, operands) == /\ kind = which /\ line = <<>>
                          /\ \E a \in operands : line' = <<a>>
                          /\ UNCHANGED <<kind, seqVars, headVars>>
Second(which, operands) == /\ kind = which /\ Len(line) = 1
                           /\ \E b \in operands : line' = Append(line, b)
                           /\ UNCHANGED <<kind, seqVars, headVars>>

RoundLine == First("round", N!Patterns)
gen_bf16 == First("bf16", N!Patterns) \/ Second("bf16", N!Patterns)
FmaLine == First("fma", Multiplicands) \/ Second("fma", Multipliers)
gen_phase == First("phase", 0 .. 2^PosBits - 1) \/ Second("phase", Pairs)
gen_lut == First("lut", Phases)
gen_datapath == First("datapath", SPECIAL_BF16) \/ Second("datapath", Multipliers)
gen_xif == First("xif", SPECIAL_BF16) \/ Second("xif", Multiplicands)
SequenceStep == kind = "sequence" /\ SeqNext /\ UNCHANGED <<kind, line, headVars>>
HeadStep == kind = "head" /\ HeadNext /\ UNCHANGED <<kind, line, seqVars>>

\* The line is complete and written; the next one begins.
Written == /\ line # <<>>
           /\ kind \in Pairwise => Len(line) = 2
           /\ line' = <<>>
           /\ UNCHANGED <<kind, seqVars, headVars>>

BenchNext == \/ RoundLine \/ gen_bf16 \/ FmaLine \/ gen_phase \/ gen_lut
             \/ gen_datapath \/ gen_xif \/ SequenceStep \/ HeadStep \/ Written

BenchSpec == BenchInit /\ [][BenchNext]_benchVars

Complete(which, n) == kind = which /\ Len(line) = n

(***************************************************************************)
(* The rounding primitive is round-to-nearest-even for every wide pattern,  *)
(* over the carry into the next binade, the subnormal boundary, overflow    *)
(* and every NaN payload, and it is the test suite's neighbour search.      *)
(***************************************************************************)
RoundingIsNearest ==
  Complete("round", 1) =>
    \A low \in 0 .. 2^LowBits - 1 :
      LET w == bf16_to_f32(line[1]) + low
          r == f32_to_bf16(w)
      IN /\ r = round_reference_scalar(w)
         /\ ~ W!IsNaN(w) /\ ~ W!IsInf(w) =>
              /\ N!Sign(r) = W!Sign(w)
              /\ N!RoundsTo(W!Significand(w), W!Exponent(w), N!Magnitude(r))

(***************************************************************************)
(* No double rounding: each operation computed in FP32 and then narrowed is *)
(* what a unit that rounds the exact result once gives, which is what FPnew *)
(* does (bf16.py, "Why an FP32 intermediate is safe").                      *)
(***************************************************************************)
UnitsRoundOnce ==
  Complete("bf16", 2) =>
    LET a == line[1]
        b == line[2]
    IN /\ bf16_mul(a, b, FALSE) = H!UnitMul(a, b)
       /\ bf16_add(a, b, FALSE) = H!UnitAdd(a, b, 0)
       /\ bf16_sub(a, b, FALSE) = H!UnitAdd(a, b, 1)
       /\ bf16_mul(a, b, TRUE) = flushed(H!UnitMul(a, b))
       /\ N!Field(a) # N!ExpOnes /\ N!Field(b) # N!ExpOnes =>
            N!RoundsTo(N!Significand(a) * N!Significand(b), N!Exponent(a) + N!Exponent(b),
                       N!Magnitude(bf16_mul(a, b, FALSE)))

(***************************************************************************)
(* One fused result, three ways: the integer model, the FP64 shortcut where *)
(* it is taken, and FPnew's aligned addition agree on every operand, and    *)
(* finite ones are the nearest to the exact a*b +- c (bf16_fma.py).         *)
(***************************************************************************)
FmaRoundsOnce ==
  Complete("fma", 2) =>
    \A c \in N!Patterns, sub \in {0, 1} :
      LET a == line[1]
          b == line[2]
          r == bf16_fma_exact(a, b, c, sub)
          total == ExactSum(a, b, c, sub)
      IN /\ bf16_fma(a, b, c, sub) = r
         /\ H!UnitFma(a, b, c, sub) = r
         /\ N!ExpOnes \notin {N!Field(a), N!Field(b), N!Field(c)} =>
              N!RoundsTo(total.num, total.exp, N!Magnitude(r))

(***************************************************************************)
(* Both modes of the phase generator hold the exact phase: the product for  *)
(* every position the instruction can carry (an earlier 13-bit register     *)
(* truncated it, gen_vectors.py), and the accumulators after any sequence   *)
(* of steps and restarts of any pairs, over the wrap of the word.           *)
(***************************************************************************)
PhaseIsExact ==
  /\ NoDrift
  /\ Complete("phase", 2) => random_phase(line[1], line[2]) = phase_of(line[1], line[2])

(***************************************************************************)
(* The table entry and sign a phase selects are those of the sine, and a    *)
(* quarter turn on of the cosine, at the centre of its bucket: reflection   *)
(* in the second and fourth quadrants, the wrap past a full turn and the    *)
(* low bits are all right, in Python and in hardware (rope_ref.py, lut_sin).*)
(***************************************************************************)
LutFoldsTheAngle ==
  Complete("lut", 1) =>
    LET p == line[1]
    IN \A q \in {p, cos_phase(p)} :
         /\ 2 * ridx(q) + 1 = Folded(q)
         /\ negate(q) = SineNegative(q)
         /\ path_value(q) = lut_sin(q)

(***************************************************************************)
(* What the instruction returns for the packed operands is the packed       *)
(* golden result, in both variants of the datapath and for every position   *)
(* the operand field holds (gen_vectors.py, gen_phase and gen_xif).         *)
(***************************************************************************)
InstructionMatches ==
  Complete("xif", 2) =>
    \A m \in Positions, i \in Pairs :
      LET x == line[1]
          y == line[2]
      IN \A rs1 \in {pack_pair(x, y)}, rs2 \in {pack_pair(m, i)} :
           /\ \A rd \in {rope_strict_bf16(x, y, m, i, FALSE)} :
                rope_rot(rs1, rs2, FALSE, pack_pair(rd[1], rd[2]))
           /\ \A rd \in {rope_fma_bf16(x, y, m, i)} :
                rope_rot(rs1, rs2, TRUE, pack_pair(rd[1], rd[2]))

(***************************************************************************)
(* A quarter turn more gives exactly (-y', x') in all three models, from    *)
(* every bucket and over the wrap of the turn: the signs the table applies, *)
(* the subtraction and the roundings treat both halves of the number line   *)
(* alike (up to the sign of a zero), as one table for sine and cosine needs.*)
(***************************************************************************)
SameValue(u, v) == u = v \/ (N!IsZero(u) /\ N!IsZero(v)) \/ (N!IsNaN(u) /\ N!IsNaN(v))

QuarterTurnExact ==
  Complete("datapath", 2) =>
    \A bucket \in 0 .. 4 * LutN - 1 :
      LET p == bucket * 2^(PhaseBits - 2 - LutBits)
          c == lut_cos(p)
          s == lut_sin(p)
          nc == lut_cos(cos_phase(p))
          ns == lut_sin(cos_phase(p))
          Turned(r, t) == SameValue(t[1], bf16_neg(r[2])) /\ SameValue(t[2], r[1])
      IN /\ Turned(strict(line[1], line[2], c, s, FALSE), strict(line[1], line[2], nc, ns, FALSE))
         /\ Turned(fused(line[1], line[2], c, s), fused(line[1], line[2], nc, ns))
         /\ Turned(wide(line[1], line[2], c, s), wide(line[1], line[2], nc, ns))
=============================================================================
