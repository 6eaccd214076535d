------------------------------ MODULE RopeHead ------------------------------
(***************************************************************************)
(* The rotation of a whole head vector: which elements form a pair          *)
(* (rope_ref.py, pair_indices), the golden model's gather, rotate, scatter  *)
(* (rope_vector_strict_bf16), and the loop of the C driver                  *)
(* (rope_intrin.h, rope_rotate_head) that rotates the vector in place, one  *)
(* instruction per pair.                                                    *)
(*                                                                          *)
(* Rotate(x, y, i) is the rotation of one pair at the position of the head, *)
(* a pair of values: any function of the two elements and the frequency.    *)
(***************************************************************************)
EXTENDS Integers

CONSTANTS
  HeadDim, Value, Rotate(_, _, _),
  Cos, Sin      \* of the angle of each frequency, as exact numbers: integers here

ASSUME HeadDimAssumption == HeadDim \in Nat \ {0} /\ HeadDim % 2 = 0
ASSUME RotateAssumption ==
  \A x, y \in Value, i \in 0 .. (HeadDim \div 2) - 1 : Rotate(x, y, i) \in Value \X Value

ASSUME TrigAssumption == /\ Cos \in [0 .. (HeadDim \div 2) - 1 -> Int]
                         /\ Sin \in [0 .. (HeadDim \div 2) - 1 -> Int]

Half == HeadDim \div 2
Freqs == 0 .. Half - 1
Elements == 0 .. HeadDim - 1
Conventions == {"half_split", "interleaved"}
Vectors == [Elements -> Value]

\* The elements of pair i, which is rotated with frequency i in both layouts.
lo_idx(conv, i) == IF conv = "half_split" THEN i ELSE 2 * i
hi_idx(conv, i) == IF conv = "half_split" THEN i + Half ELSE 2 * i + 1

\* out = v.copy(); out[lo] = xr; out[hi] = yr: every pair is read from v.
RotateAll(R(_, _, _), v, conv) ==
  [j \in Elements |->
     IF \E i \in Freqs : hi_idx(conv, i) = j
     THEN LET i == CHOOSE i \in Freqs : hi_idx(conv, i) = j
          IN R(v[lo_idx(conv, i)], v[j], i)[2]
     ELSE IF \E i \in Freqs : lo_idx(conv, i) = j
     THEN LET i == CHOOSE i \in Freqs : lo_idx(conv, i) = j
          IN R(v[j], v[hi_idx(conv, i)], i)[1]
     ELSE v[j]]

rope_vector(v, conv) == RotateAll(Rotate, v, conv)

\* The exact rotation, and the form Hugging Face gives it: the whole vector
\* times the cosines, plus the vector with its halves swapped, the upper one
\* negated, times the sines; the angles are those of the pairs, twice over.
rope_exact(x, y, i) == <<x * Cos[i] - y * Sin[i], x * Sin[i] + y * Cos[i]>>
\* Mutant: the wrong half is negated.
rotate_halfUpper(v) == [j \in Elements |-> IF j < Half THEN v[j + Half] ELSE -v[j - Half]]
rotate_half(v) == [j \in Elements |-> IF j < Half THEN -v[j + Half] ELSE v[j - Half]]
emb(angles, j) == IF j < Half THEN angles[j] ELSE angles[j - Half]
hf_apply_rotary_pos_emb(v) ==
  [j \in Elements |-> v[j] * emb(Cos, j) + rotate_half(v)[j] * emb(Sin, j)]

\* Mutant: the permutation the other way round.
permutationInverse(j) == IF j % 2 = 0 THEN j \div 2 ELSE Half + j \div 2
\* perm[:half] = arange(0, d, 2), perm[half:] = arange(1, d, 2)
permutation(j) == IF j < Half THEN 2 * j ELSE 2 * (j - Half) + 1
Permuted(v) == [j \in Elements |-> v[permutation(j)]]

-----------------------------------------------------------------------------
(* The C loop, with its own computation of the two elements.  When one      *)
(* vector is done another may be started: test_rope.c rotates a copy of the *)
(* same input in each convention.                                           *)

LoopLo(m, n) == IF m = "half_split" THEN n ELSE 2 * n
\* Mutant: the second element as in the half-split layout, whatever the mode.
LoopHiHalfSplit(m, n) == n + Half
LoopHi(m, n) == IF m = "half_split" THEN n + Half ELSE 2 * n + 1

VARIABLES vec, k, mode, given

headVars == <<vec, k, mode, given>>

HeadTypeOK == /\ vec \in Vectors /\ given \in Vectors
              /\ k \in 0 .. Half
              /\ mode \in Conventions

HeadInit == /\ given \in Vectors
            /\ vec = given
            /\ k = 0
            /\ mode = "half_split"

\* One iteration: pack the pair, ROPE.ROT, unpack the result in place.
RotatePair ==
  /\ k < Half
  /\ LET lo == LoopLo(mode, k)
         hi == LoopHi(mode, k)
         res == Rotate(vec[lo], vec[hi], k)
     IN vec' = [vec EXCEPT ![lo] = res[1], ![hi] = res[2]]
  /\ k' = k + 1
  /\ UNCHANGED <<mode, given>>

\* The next call, on a fresh copy of the input, in the other layout.
NextCall ==
  /\ k = Half
  /\ vec' = given
  /\ k' = 0
  /\ mode' \in Conventions \ {mode}
  /\ UNCHANGED given

HeadNext == RotatePair \/ NextCall

HeadSpec == HeadInit /\ [][HeadNext]_headVars

(***************************************************************************)
(* When the loop ends, the vector rotated in place is the golden model's:   *)
(* no iteration reads an element an earlier one has overwritten.            *)
(***************************************************************************)
InPlaceIsGolden == k = Half => vec = rope_vector(given, mode)

(***************************************************************************)
(* The two layouts are one rotation up to the fixed permutation that ports  *)
(* trained weights (permutation_interleaved_to_half_split): permuting the   *)
(* interleaved result is rotating the permuted vector in half-split.        *)
(***************************************************************************)
LayoutsAgree ==
  Permuted(rope_vector(given, "interleaved")) = rope_vector(Permuted(given), "half_split")

(***************************************************************************)
(* The half-split layout is the one Hugging Face uses, element by element,  *)
(* so that weights trained there rotate alike (steps.md Section 12, quoted  *)
(* in rope_ref.py, hf_apply_rotary_pos_emb).                                *)
(***************************************************************************)
HalfSplitIsHuggingFace ==
  hf_apply_rotary_pos_emb(given) = RotateAll(rope_exact, given, "half_split")
=============================================================================
