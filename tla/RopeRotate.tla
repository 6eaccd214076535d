----------------------------- MODULE RopeRotate -----------------------------
(***************************************************************************)
(* One ROPE.ROT: the rotation of a BF16 pair at position m with frequency   *)
(* i, in the golden model (rope_ref.py: Model A strict, Model A' fused,     *)
(* Model B wide) and in hardware (rope_sin_lut, rope_datapath with its      *)
(* units, operands unpacked from the two source registers as rope_pkg does).*)
(*                                                                          *)
(* The sine itself is a table of FP64 values, Sine[n] * 2^-SineBits at the  *)
(* centre of bucket n.                                                      *)
(***************************************************************************)
EXTENDS Bf16Fma, RopePhase

CONSTANTS Sine, SineBits, PairIdxBits

\* The index of a pair is in the low bits of a half word.
ASSUME SineAssumption == /\ SineBits \in 0 .. MaxBits - 1
                         /\ Sine \in [0 .. 2^LutBits - 1 -> 0 .. 2^SineBits]
                         /\ NumPairs <= 2^PairIdxBits
                         /\ PairIdxBits \in 0 .. ExpBits + ManBits

H == INSTANCE FpnewFma

sin_lut_bf16 == [n \in 0 .. LutN - 1 |-> to_bf16(0, Sine[n], -SineBits)]

lut_sin(p) == IF negate(p) THEN bf16_neg(sin_lut_bf16[ridx(p)]) ELSE sin_lut_bf16[ridx(p)]
lut_cos(p) == lut_sin(cos_phase(p))

\* Model A: four products and two sums, each rounded.
strict(x, y, c, s, flush) ==
  LET p0 == bf16_mul(x, c, flush)
      p1 == bf16_mul(y, s, flush)
      p2 == bf16_mul(x, s, flush)
      p3 == bf16_mul(y, c, flush)
  IN <<bf16_sub(p0, p1, flush), bf16_add(p2, p3, flush)>>

rope_strict_bf16(x, y, m, i, flush) ==
  LET ph == phase_of(m, i) IN strict(x, y, lut_cos(ph), lut_sin(ph), flush)

\* Model A': the products of y rounded, those of x inside the fused operation.
fused(x, y, c, s) ==
  LET p1 == bf16_mul(y, s, FALSE)
      p2 == bf16_mul(y, c, FALSE)
  IN <<bf16_fma(x, c, p1, 1), bf16_fma(x, s, p2, 0)>>

rope_fma_bf16(x, y, m, i) ==
  LET ph == phase_of(m, i) IN fused(x, y, lut_cos(ph), lut_sin(ph))

\* Model B: products and sum in FP32, one narrowing at the end.
wide(x, y, c, s) ==
  LET Times(u, v) == W!IeeeMul(bf16_to_f32(u), bf16_to_f32(v))
  IN <<f32_to_bf16(W!IeeeAdd(Times(x, c), W!FlipSign(Times(y, s)))),
       f32_to_bf16(W!IeeeAdd(Times(x, s), Times(y, c)))>>

rope_wide_acc(x, y, m, i) ==
  LET ph == phase_of(m, i) IN wide(x, y, lut_cos(ph), lut_sin(ph))

-----------------------------------------------------------------------------
(* The hardware, with the ROM its generator writes.                         *)

rope_sin_rom == [n \in 0 .. LutN - 1 |-> to_bf16(0, Sine[n], -SineBits)]

path_value(p) ==
  LET entry == rope_sin_rom[path_index(p)]
  IN N!WithSign((N!Sign(entry) + H!Bool(path_negate(p))) % 2, N!Magnitude(entry))
sin_o(p) == path_value(p)
cos_o(p) == path_value((p + QuarterTurn) % FullTurn)

\* rope_datapath, in two columns of units: UseFma selects two multipliers and
\* two fused units, or four multipliers and two adders.  r holds the operands.
products(r) == [xc |-> H!UnitMul(r.x, r.c), ys |-> H!UnitMul(r.y, r.s),
                xs |-> H!UnitMul(r.x, r.s), yc |-> H!UnitMul(r.y, r.c)]
datapath(r, p, UseFma) ==
  IF UseFma THEN <<H!UnitFma(r.x, r.c, p.ys, 1), H!UnitFma(r.x, r.s, p.yc, 0)>>
            ELSE <<H!UnitAdd(p.xc, p.ys, 1), H!UnitAdd(p.xs, p.yc, 0)>>

\* Words of two halves: {x, y} in rs1 and rd, {m, i} in rs2.
HalfWord == 2 * N!SignMask
pack_pair(x, y) == x * HalfWord + y
pair_x(word) == word \div HalfWord
pair_y(word) == word % HalfWord

\* The whole instruction: rd is what it returns for the source registers.
decoded(rs1, rs2) ==
  LET p == random_phase(pair_x(rs2), pair_y(rs2) % 2^PairIdxBits)
  IN [x |-> pair_x(rs1), y |-> pair_y(rs1), s |-> sin_o(p), c |-> cos_o(p)]

rope_rot(rs1, rs2, UseFma, rd) ==
  \E r \in {decoded(rs1, rs2)} : \E p \in {products(r)} :
    \E out \in {datapath(r, p, UseFma)} : rd = pack_pair(out[1], out[2])
=============================================================================
