-------------------------- MODULE RopeModelProofs --------------------------
(***************************************************************************)
(* What is said of the golden model for every size.                        *)
(*                                                                         *)
(* The rotation of a head, for every even number of elements, every set of *)
(* values and every rotation of a pair: the C loop that works in place     *)
(* computes the golden model's result, the two layouts are one rotation up *)
(* to the permutation of the weights, and the half-split one is that of    *)
(* Hugging Face.                                                           *)
(*                                                                         *)
(* Both modes of the phase generator hold the exact phase, and both lookup *)
(* paths of the hardware answer what the golden model does, for every      *)
(* width of the phase and of the table, every table and every number of    *)
(* pairs, and after any sequence of steps and restarts of any length.      *)
(*                                                                         *)
(* The rounding primitive of the golden model rounds to nearest, ties to   *)
(* even, and its three models of the rotation turn exactly by a quarter,   *)
(* for every width of the formats.  The instruction is the golden model's  *)
(* if the units are, which RopeUnitsProofs shows.                          *)
(***************************************************************************)
EXTENDS RopeBench, SequenceTheorems, WellFoundedInduction, TLAPS

(* The pair that an element belongs to. *)
FreqOf(conv, j) == IF conv = "half_split" THEN IF j < Half THEN j ELSE j - Half
                                          ELSE j \div 2

(* A head has two elements to a pair. *)
LEMMA HalfOfHead == Half \in Nat /\ Half >= 1 /\ HeadDim = 2 * Half
BY HeadDimAssumption DEF Half

(* Every pair has two elements of its own (pair_indices). *)
LEMMA PairElements ==
  ASSUME NEW conv \in Conventions, NEW i \in Freqs
  PROVE  /\ lo_idx(conv, i) \in Elements /\ hi_idx(conv, i) \in Elements
         /\ FreqOf(conv, lo_idx(conv, i)) = i /\ FreqOf(conv, hi_idx(conv, i)) = i
         /\ \A n \in Freqs : lo_idx(conv, i) # hi_idx(conv, n)
<1>1. Half \in Nat /\ HeadDim = 2 * Half /\ i \in Nat /\ i < Half
  BY HalfOfHead DEF Freqs
<1>2. CASE conv = "half_split"
  BY <1>1, <1>2 DEF lo_idx, hi_idx, Elements, FreqOf, Freqs
<1>3. CASE conv # "half_split"
  BY <1>1, <1>3 DEF lo_idx, hi_idx, Elements, FreqOf, Freqs
<1>4. QED
  BY <1>2, <1>3

(* Every element belongs to a pair. *)
LEMMA ElementsPaired ==
  ASSUME NEW conv \in Conventions, NEW j \in Elements
  PROVE  /\ FreqOf(conv, j) \in Freqs
         /\ \/ j = lo_idx(conv, FreqOf(conv, j))
            \/ j = hi_idx(conv, FreqOf(conv, j))
<1>1. Half \in Nat /\ HeadDim = 2 * Half /\ j \in Nat /\ j < 2 * Half
  BY HalfOfHead DEF Elements
<1>2. CASE conv = "half_split"
  BY <1>1, <1>2 DEF lo_idx, hi_idx, FreqOf, Freqs
<1>3. CASE conv # "half_split"
  BY <1>1, <1>3 DEF lo_idx, hi_idx, FreqOf, Freqs
<1>4. QED
  BY <1>2, <1>3

(* What the golden model's gather, rotate, scatter leaves in a pair. *)
LEMMA GoldenPair ==
  ASSUME NEW v, NEW conv \in Conventions, NEW i \in Freqs
  PROVE  LET lo == lo_idx(conv, i)
             hi == hi_idx(conv, i)
         IN /\ rope_vector(v, conv)[lo] = Rotate(v[lo], v[hi], i)[1]
            /\ rope_vector(v, conv)[hi] = Rotate(v[lo], v[hi], i)[2]
<1> DEFINE lo == lo_idx(conv, i)
           hi == hi_idx(conv, i)
<1>1. lo \in Elements /\ hi \in Elements
  BY PairElements
<1>2. \A n \in Freqs : hi_idx(conv, n) # lo
  BY PairElements
<1>3. \A n \in Freqs : lo_idx(conv, n) = lo => n = i
  BY PairElements
<1>4. \A n \in Freqs : hi_idx(conv, n) = hi => n = i
  BY PairElements
<1>5. (CHOOSE n \in Freqs : lo_idx(conv, n) = lo) = i
  BY <1>3
<1>6. (CHOOSE n \in Freqs : hi_idx(conv, n) = hi) = i
  BY <1>4
<1>7. rope_vector(v, conv)[lo] = Rotate(v[lo], v[hi], i)[1]
  BY <1>1, <1>2, <1>5 DEF rope_vector, RotateAll
<1>8. rope_vector(v, conv)[hi] = Rotate(v[lo], v[hi], i)[2]
  BY <1>1, <1>6 DEF rope_vector, RotateAll
<1>9. QED
  BY <1>7, <1>8

-----------------------------------------------------------------------------
(* The loop in place.                                                       *)

(* Pairs below k are rotated, the others are as given: no iteration reads   *)
(* an element that an earlier one has written.                              *)
HeadInv ==
  /\ HeadTypeOK
  /\ \A j \in Elements :
       vec[j] = IF FreqOf(mode, j) < k THEN rope_vector(given, mode)[j] ELSE given[j]

LEMMA HeadInvInit == HeadInit => HeadInv
<1> SUFFICES ASSUME HeadInit PROVE HeadInv
  OBVIOUS
<1>1. HeadTypeOK
  BY HalfOfHead DEF HeadInit, HeadTypeOK, Conventions
<1>2. \A j \in Elements : FreqOf(mode, j) \in Nat
  BY <1>1, ElementsPaired DEF HeadTypeOK, Freqs
<1>3. QED
  BY <1>1, <1>2 DEF HeadInit, HeadInv

(* The C loop computes the indices of pair_indices. *)
LEMMA LoopIndices ==
  ASSUME NEW m, NEW i
  PROVE  LoopLo(m, i) = lo_idx(m, i) /\ LoopHi(m, i) = hi_idx(m, i)
BY DEF LoopLo, LoopHi, lo_idx, hi_idx

(* One iteration (rope_rotate_head, the body of the loop). *)
LEMMA RotatePairInv == HeadInv /\ RotatePair => HeadInv'
<1> SUFFICES ASSUME HeadInv, RotatePair PROVE HeadInv'
  OBVIOUS
<1> DEFINE lo == lo_idx(mode, k)
           hi == hi_idx(mode, k)
           res == Rotate(vec[lo], vec[hi], k)
<1>1. HeadTypeOK /\ k \in Freqs /\ Half \in Nat
  BY HalfOfHead DEF HeadInv, HeadTypeOK, RotatePair, Freqs
<1>2. mode \in Conventions /\ mode' = mode /\ given' = given /\ k' = k + 1
  BY <1>1 DEF HeadTypeOK, RotatePair
<1>3. vec' = [vec EXCEPT ![lo] = res[1], ![hi] = res[2]]
  BY LoopIndices DEF RotatePair
<1>4. lo \in Elements /\ hi \in Elements /\ lo # hi
  BY <1>1, <1>2, PairElements
<1>5. FreqOf(mode, lo) = k /\ FreqOf(mode, hi) = k
  BY <1>1, <1>2, PairElements
<1>6. vec[lo] = given[lo] /\ vec[hi] = given[hi]
  BY <1>1, <1>4, <1>5 DEF HeadInv, Freqs
<1>7. HeadTypeOK'
  <2>1. vec[lo] \in Value /\ vec[hi] \in Value
    BY <1>1, <1>4 DEF HeadTypeOK, Vectors
  <2>2. res \in Value \X Value
    BY <2>1, <1>1, RotateAssumption DEF Freqs, Half
  <2>3. vec' \in Vectors
    BY <1>1, <1>3, <2>2 DEF HeadTypeOK, Vectors
  <2>4. k' \in 0 .. Half
    BY <1>1, <1>2 DEF Freqs
  <2>5. QED
    BY <1>1, <1>2, <2>3, <2>4 DEF HeadTypeOK
<1>8. ASSUME NEW j \in Elements
      PROVE  vec'[j] = IF FreqOf(mode, j) < k + 1 THEN rope_vector(given, mode)[j]
                                                  ELSE given[j]
  <2>1. CASE j = lo
    <3>1. vec'[j] = res[1]
      BY <1>1, <1>3, <1>4, <2>1 DEF HeadTypeOK, Vectors
    <3>2. rope_vector(given, mode)[lo] = Rotate(given[lo], given[hi], k)[1]
      BY <1>1, <1>2, GoldenPair
    <3>3. QED
      BY <3>1, <3>2, <1>1, <1>5, <1>6, <2>1 DEF Freqs
  <2>2. CASE j = hi
    <3>1. vec'[j] = res[2]
      BY <1>1, <1>3, <1>4, <2>2 DEF HeadTypeOK, Vectors
    <3>2. rope_vector(given, mode)[hi] = Rotate(given[lo], given[hi], k)[2]
      BY <1>1, <1>2, GoldenPair
    <3>3. QED
      BY <3>1, <3>2, <1>1, <1>5, <1>6, <2>2 DEF Freqs
  <2>3. CASE j # lo /\ j # hi
    <3>1. vec'[j] = vec[j]
      BY <1>1, <1>3, <2>3 DEF HeadTypeOK, Vectors
    <3>2. FreqOf(mode, j) \in Freqs /\ FreqOf(mode, j) # k
      BY <1>2, <2>3, ElementsPaired
    <3>3. FreqOf(mode, j) < k + 1 <=> FreqOf(mode, j) < k
      BY <3>2, <1>1 DEF Freqs
    <3>4. QED
      BY <3>1, <3>3 DEF HeadInv
  <2>4. QED
    BY <2>1, <2>2, <2>3
<1>9. QED
  BY <1>2, <1>7, <1>8 DEF HeadInv

(* The next call (test_head_vector). *)
LEMMA NextCallInv == HeadInv /\ NextCall => HeadInv'
<1> SUFFICES ASSUME HeadInv, NextCall PROVE HeadInv'
  OBVIOUS
<1>1. HeadTypeOK'
  BY HalfOfHead DEF HeadInv, HeadTypeOK, NextCall
<1>2. \A j \in Elements : FreqOf(mode', j) \in Nat
  BY <1>1, ElementsPaired DEF HeadTypeOK, Freqs
<1>3. QED
  BY <1>1, <1>2 DEF HeadInv, NextCall

LEMMA HeadInvNext == HeadInv /\ [HeadNext]_headVars => HeadInv'
<1>1. HeadInv /\ UNCHANGED headVars => HeadInv'
  BY DEF HeadInv, HeadTypeOK, headVars
<1>2. QED
  BY <1>1, RotatePairInv, NextCallInv DEF HeadNext

(* The head has its layout, its state and its pairs as the driver's calls   *)
(* of rope_rotate_head leave them, for every head size and arithmetic.      *)
THEOREM HeadInvariant == HeadSpec => []HeadInv
BY HeadInvInit, HeadInvNext, PTL DEF HeadSpec

(* The golden result is a function of the elements. *)
LEMMA GoldenIsVector ==
  ASSUME NEW v, NEW conv
  PROVE  rope_vector(v, conv) = [j \in Elements |-> rope_vector(v, conv)[j]]
BY DEF rope_vector, RotateAll

(* A head rotated in place by the C driver is the golden model's head       *)
(* (rope_rotate_head against rope_vector_strict_bf16).                      *)
THEOREM HeadInPlace == HeadSpec => []InPlaceIsGolden
<1>1. HeadInv => InPlaceIsGolden
  <2> SUFFICES ASSUME HeadInv, k = Half PROVE vec = rope_vector(given, mode)
    BY DEF InPlaceIsGolden
  <2>1. \A j \in Elements : FreqOf(mode, j) < Half
    BY HalfOfHead, ElementsPaired DEF HeadInv, HeadTypeOK, Freqs
  <2>2. \A j \in Elements : vec[j] = rope_vector(given, mode)[j]
    BY <2>1 DEF HeadInv
  <2>3. vec = [j \in Elements |-> vec[j]]
    BY DEF HeadInv, HeadTypeOK, Vectors
  <2>4. QED
    BY <2>2, <2>3, GoldenIsVector
<1>2. QED
  BY <1>1, HeadInvariant, PTL

-----------------------------------------------------------------------------
(* The layouts.                                                             *)

(* Permuting swaps the elements of the interleaved layout for those of the  *)
(* half-split one (permutation_interleaved_to_half_split).                  *)
LEMMA PermutedPair ==
  ASSUME NEW i \in Freqs, NEW v
  PROVE  /\ permutation(lo_idx("half_split", i)) = lo_idx("interleaved", i)
         /\ permutation(hi_idx("half_split", i)) = hi_idx("interleaved", i)
BY HalfOfHead DEF permutation, lo_idx, hi_idx, Freqs

(* For every vector, rotating interleaved and permuting is permuting and    *)
(* rotating half-split.                                                     *)
LEMMA PermutationCommutes ==
  ASSUME NEW v
  PROVE  Permuted(rope_vector(v, "interleaved")) = rope_vector(Permuted(v), "half_split")
<1> DEFINE hs == "half_split"
           il == "interleaved"
<1>1. hs \in Conventions /\ il \in Conventions
  BY DEF Conventions
<1>2. ASSUME NEW j \in Elements
      PROVE  Permuted(rope_vector(v, il))[j] = rope_vector(Permuted(v), hs)[j]
  <2> DEFINE i == FreqOf(hs, j)
  <2>1. i \in Freqs /\ (j = lo_idx(hs, i) \/ j = hi_idx(hs, i))
    BY <1>1, ElementsPaired
  <2>2. lo_idx(hs, i) \in Elements /\ hi_idx(hs, i) \in Elements
    BY <1>1, <2>1, PairElements
  <2>3. /\ Permuted(v)[lo_idx(hs, i)] = v[lo_idx(il, i)]
        /\ Permuted(v)[hi_idx(hs, i)] = v[hi_idx(il, i)]
    BY <2>1, <2>2, PermutedPair DEF Permuted
  <2>4. /\ rope_vector(Permuted(v), hs)[lo_idx(hs, i)] = Rotate(v[lo_idx(il, i)], v[hi_idx(il, i)], i)[1]
        /\ rope_vector(Permuted(v), hs)[hi_idx(hs, i)] = Rotate(v[lo_idx(il, i)], v[hi_idx(il, i)], i)[2]
    BY <1>1, <2>1, <2>3, GoldenPair
  <2>5. /\ rope_vector(v, il)[lo_idx(il, i)] = Rotate(v[lo_idx(il, i)], v[hi_idx(il, i)], i)[1]
        /\ rope_vector(v, il)[hi_idx(il, i)] = Rotate(v[lo_idx(il, i)], v[hi_idx(il, i)], i)[2]
    BY <1>1, <2>1, GoldenPair
  <2>6. /\ Permuted(rope_vector(v, il))[lo_idx(hs, i)] = rope_vector(v, il)[lo_idx(il, i)]
        /\ Permuted(rope_vector(v, il))[hi_idx(hs, i)] = rope_vector(v, il)[hi_idx(il, i)]
    BY <2>1, <2>2, PermutedPair DEF Permuted
  <2>7. QED
    BY <2>1, <2>4, <2>5, <2>6
<1>3. Permuted(rope_vector(v, il)) = [j \in Elements |-> Permuted(rope_vector(v, il))[j]]
  BY DEF Permuted
<1>4. QED
  BY <1>2, <1>3, GoldenIsVector

(* The two layouts are one rotation up to the permutation that ports the    *)
(* weights.                                                                 *)
THEOREM LayoutsAreOne == HeadSpec => []LayoutsAgree
<1>1. LayoutsAgree
  BY PermutationCommutes DEF LayoutsAgree
<1>2. QED
  BY <1>1, PTL

(* Over integers the half-split layout is Hugging Face's rotation, element  *)
(* by element (hf_apply_rotary_pos_emb).                                    *)
LEMMA HuggingFaceElement ==
  ASSUME NEW v \in [Elements -> Int], NEW j \in Elements
  PROVE  hf_apply_rotary_pos_emb(v)[j] = RotateAll(rope_exact, v, "half_split")[j]
<1> DEFINE hs == "half_split"
           i == FreqOf(hs, j)
           r == RotateAll(rope_exact, v, hs)
<1>1. hs \in Conventions
  BY DEF Conventions
<1>2. i \in Freqs /\ (j = lo_idx(hs, i) \/ j = hi_idx(hs, i))
  BY <1>1, ElementsPaired
<1>3. Half \in Nat /\ HeadDim = 2 * Half /\ i \in Nat /\ i < Half
  BY <1>2, HalfOfHead DEF Freqs
<1>4. i \in Elements /\ i + Half \in Elements
  BY <1>3 DEF Elements
<1>5. v[i] \in Int /\ v[i + Half] \in Int /\ Cos[i] \in Int /\ Sin[i] \in Int
  BY <1>3, <1>4, TrigAssumption DEF Half
<1>6. CASE j = i
  <2>1. hf_apply_rotary_pos_emb(v)[j] = v[i] * Cos[i] + (-v[i + Half]) * Sin[i]
    BY <1>3, <1>4, <1>6 DEF hf_apply_rotary_pos_emb, emb, rotate_half
  <2>2. \A n \in Freqs : hi_idx(hs, n) # j
    BY <1>3, <1>6 DEF hi_idx, Freqs
  <2>3. (CHOOSE n \in Freqs : lo_idx(hs, n) = j) = i
    BY <1>2, <1>6 DEF lo_idx
  <2>4. \E n \in Freqs : lo_idx(hs, n) = j
    BY <1>2, <1>6 DEF lo_idx
  <2>5. r[j] = rope_exact(v[j], v[hi_idx(hs, i)], i)[1]
    BY <2>2, <2>3, <2>4 DEF RotateAll
  <2>6. r[j] = v[i] * Cos[i] - v[i + Half] * Sin[i]
    BY <2>5, <1>6 DEF rope_exact, hi_idx
  <2>7. v[i] * Cos[i] + (-v[i + Half]) * Sin[i] = v[i] * Cos[i] - v[i + Half] * Sin[i]
    BY <1>5
  <2>8. QED
    BY <2>1, <2>6, <2>7
<1>7. CASE j = i + Half
  <2>1. hf_apply_rotary_pos_emb(v)[j] = v[i + Half] * Cos[i] + v[i] * Sin[i]
    BY <1>3, <1>4, <1>7 DEF hf_apply_rotary_pos_emb, emb, rotate_half
  <2>2. \E n \in Freqs : hi_idx(hs, n) = j
    BY <1>2, <1>7 DEF hi_idx
  <2>3. (CHOOSE n \in Freqs : hi_idx(hs, n) = j) = i
    <3>1. \A n \in Freqs : hi_idx(hs, n) = j => n = i
      BY <1>3, <1>7 DEF hi_idx, Freqs
    <3>2. QED
      BY <2>2, <3>1
  <2>4. r[j] = rope_exact(v[lo_idx(hs, i)], v[j], i)[2]
    BY <2>2, <2>3 DEF RotateAll
  <2>5. r[j] = v[i] * Sin[i] + v[i + Half] * Cos[i]
    BY <2>4, <1>7 DEF rope_exact, lo_idx
  <2>6. v[i + Half] * Cos[i] + v[i] * Sin[i] = v[i] * Sin[i] + v[i + Half] * Cos[i]
    BY <1>5
  <2>7. QED
    BY <2>1, <2>5, <2>6
<1>8. QED
  BY <1>2, <1>6, <1>7 DEF lo_idx, hi_idx

(* With exact arithmetic on integers, the half-split rotation is that of    *)
(* Hugging Face.                                                            *)
THEOREM HalfSplitIsTheirs ==
  ASSUME Value \subseteq Int
  PROVE  HeadSpec => []HalfSplitIsHuggingFace
<1>1. HeadInv => HalfSplitIsHuggingFace
  <2> SUFFICES ASSUME HeadInv PROVE HalfSplitIsHuggingFace
    OBVIOUS
  <2>1. given \in [Elements -> Int]
    BY DEF HeadInv, HeadTypeOK, Vectors
  <2> DEFINE hf == hf_apply_rotary_pos_emb(given)
             r == RotateAll(rope_exact, given, "half_split")
  <2>2. \A j \in Elements : hf[j] = r[j]
    BY <2>1, HuggingFaceElement
  <2>3. hf = [j \in Elements |-> hf[j]]
    BY DEF hf_apply_rotary_pos_emb
  <2>4. r = [j \in Elements |-> r[j]]
    BY DEF RotateAll
  <2>5. hf = r
    BY <2>2, <2>3, <2>4
  <2>6. QED
    BY <2>5 DEF HalfSplitIsHuggingFace
<1>2. QED
  BY <1>1, HeadInvariant, PTL

-----------------------------------------------------------------------------
(* The phase of a token. *)

(* Division with remainder. *)
LEMMA Division ==
  ASSUME NEW n \in Int, NEW d \in Nat \ {0}
  PROVE  /\ n \div d \in Int /\ (n % d) \in 0 .. d - 1
         /\ n = (d * (n \div d)) + (n % d)
OBVIOUS

LEMMA RemainderUnique ==
  ASSUME NEW n \in Int, NEW d \in Nat \ {0}, NEW q \in Int, NEW r \in 0 .. d - 1,
         n = (d * q) + r
  PROVE  n % d = r
OBVIOUS

LEMMA Distributes ==
  ASSUME NEW x \in Int, NEW y \in Int, NEW d \in Int
  PROVE  d * (x + y) = (d * x) + (d * y)
OBVIOUS

(* Reducing a summand first makes no difference. *)
LEMMA ReducedSum ==
  ASSUME NEW a \in Nat, NEW b \in Nat, NEW d \in Nat \ {0}
  PROVE  ((a % d) + b) % d = (a + b) % d
<1>1. (a % d) \in 0 .. d - 1 /\ a \div d \in Int /\ a = (d * (a \div d)) + (a % d)
  BY Division
<1>2. PICK r1 \in 0 .. d - 1 : r1 = a % d
  BY <1>1
<1>3. r1 + b \in Int
  OBVIOUS
<1>4. /\ ((r1 + b) % d) \in 0 .. d - 1 /\ (r1 + b) \div d \in Int
      /\ r1 + b = (d * ((r1 + b) \div d)) + ((r1 + b) % d)
  BY <1>3, Division
<1>5. PICK q1 \in Int : a = (d * q1) + r1
  BY <1>1, <1>2
<1>6. PICK r \in 0 .. d - 1, q2 \in Int : r = (r1 + b) % d /\ r1 + b = (d * q2) + r
  BY <1>4
<1>7. a \in Int /\ b \in Int /\ r1 \in Int
  OBVIOUS
<1>8. (a + b) % d = r
  <2>1. d * (q1 + q2) = (d * q1) + (d * q2)
    BY Distributes
  <2>2. a + b = (d * (q1 + q2)) + r
    BY <1>5, <1>6, <1>7, <2>1
  <2>3. a + b \in Int /\ q1 + q2 \in Int
    BY <1>7
  <2>4. QED
    BY <2>2, <2>3, RemainderUnique, Zenon
<1>9. ((a % d) + b) % d = (r1 + b) % d
  BY <1>2, Zenon
<1>10. QED
  BY <1>6, <1>8, <1>9, Zenon

(* The phase of the next token is one increment on. *)
LEMMA NextPhase ==
  ASSUME NEW n \in Nat, NEW phi \in Nat, NEW d \in Nat \ {0}
  PROVE  (((n * phi) % d) + phi) % d = ((n + 1) * phi) % d
<1>1. n * phi \in Nat /\ (n + 1) * phi = (n * phi) + phi
  OBVIOUS
<1>2. (((n * phi) % d) + phi) % d = ((n * phi) + phi) % d
  BY <1>1, ReducedSum, Zenon
<1>3. QED
  BY <1>1, <1>2, Zenon

(* A whole turn is a power of two. *)
LEMMA TurnIsPower == FullTurn \in Nat \ {0}
<1>1. PhaseBits \in 0 .. PosBits + PhaseBits
  BY PhaseAssumption
<1>2. QED
  BY <1>1, PhasePowers DEF PowersOfTwo, FullTurn

(* Every increment is less than a turn (the mask of phi_table). *)
LEMMA IncrementInTurn == ASSUME NEW i \in Pairs PROVE phi_table[i] \in Phases
<1>1. FullTurn \in Nat \ {0} /\ TurnUnits \in Nat \ {0} /\ Turn[i] \in Nat
  BY TurnIsPower, PhaseAssumption DEF Pairs
<1>2. Nearest(FullTurn * Turn[i], TurnUnits) \in Int
  <2>1. FullTurn * Turn[i] \in Int
    BY <1>1
  <2>2. (FullTurn * Turn[i]) \div TurnUnits \in Int
    BY <1>1, <2>1, Division, Zenon
  <2>3. QED
    BY <2>2 DEF Nearest
<1>3. (Nearest(FullTurn * Turn[i], TurnUnits) % FullTurn) \in 0 .. FullTurn - 1
  BY <1>1, <1>2, Division, Zenon
<1>4. QED
  BY <1>3 DEF phi_table, Phases

(* The accumulators hold phases, and those of the tokens they have reached. *)
SeqInv == SeqTypeOK /\ NoDrift

LEMMA StartHasNoDrift == SeqInit => SeqInv
<1> SUFFICES ASSUME SeqInit PROVE SeqInv
  OBVIOUS
<1>1. FullTurn \in Nat \ {0}
  BY TurnIsPower
<1>2. 0 \in Phases
  BY <1>1 DEF Phases
<1>3. SeqTypeOK
  BY <1>2 DEF SeqInit, SeqTypeOK
<1>4. ASSUME NEW i \in Pairs PROVE acc_q[i] = phase_of(seqSteps[i], i)
  <2>1. phi_table[i] \in Phases
    BY IncrementInTurn
  <2>2. 0 * phi_table[i] = 0
    BY <2>1, <1>1 DEF Phases
  <2>3. 0 % FullTurn = 0
    BY <1>1, RemainderUnique
  <2>4. QED
    BY <2>2, <2>3 DEF SeqInit, phase_of
<1>5. QED
  BY <1>3, <1>4 DEF SeqInv, NoDrift

(* A step of a pair adds one increment, a restart returns to token zero. *)
LEMMA StepHasNoDrift == SeqInv /\ [SeqNext]_seqVars => SeqInv'
<1> SUFFICES ASSUME SeqInv, [SeqNext]_seqVars PROVE SeqInv'
  OBVIOUS
<1>1. FullTurn \in Nat \ {0} /\ SeqTypeOK /\ NoDrift
  BY TurnIsPower DEF SeqInv
<1>2. ASSUME NEW i \in Pairs, SeqClear(i) PROVE SeqInv'
  <2>1. 0 \in Phases /\ phi_table[i] \in Phases
    BY <1>1, IncrementInTurn DEF Phases
  <2>2. SeqTypeOK'
    BY <1>1, <1>2, <2>1 DEF SeqTypeOK, SeqClear
  <2>3. phase_of(0, i) = 0
    <3>1. 0 * phi_table[i] = 0
      BY <2>1, <1>1 DEF Phases
    <3>2. 0 % FullTurn = 0
      BY <1>1, RemainderUnique
    <3>3. QED
      BY <3>1, <3>2 DEF phase_of
  <2>4. acc_q'[i] = 0 /\ seqSteps'[i] = 0
    BY <1>1, <1>2 DEF SeqClear, SeqTypeOK
  <2>5. \A n \in Pairs \ {i} : acc_q'[n] = acc_q[n] /\ seqSteps'[n] = seqSteps[n]
    BY <1>1, <1>2 DEF SeqClear, SeqTypeOK
  <2>6. NoDrift'
    BY <1>1, <2>3, <2>4, <2>5 DEF NoDrift, phase_of
  <2>7. QED
    BY <2>2, <2>6 DEF SeqInv
<1>3. ASSUME NEW i \in Pairs, SeqStep(i) PROVE SeqInv'
  <2>1. phi_table[i] \in Phases
    BY IncrementInTurn
  <2>2. PICK n \in Nat, phi \in Nat : n = seqSteps[i] /\ phi = phi_table[i]
    BY <1>1, <2>1 DEF SeqTypeOK, Phases
  <2>3. acc_q[i] \in Nat /\ acc_q[i] + phi \in Int
    BY <1>1, <2>2 DEF SeqTypeOK, Phases
  <2>4. acc_q'[i] = (acc_q[i] + phi) % FullTurn
    BY <1>1, <1>3, <2>2 DEF SeqStep, SeqTypeOK, rope_theta_rom
  <2>5. seqSteps'[i] = n + 1
    BY <1>1, <1>3, <2>2 DEF SeqStep, SeqTypeOK
  <2>6. acc_q[i] = (n * phi) % FullTurn
    BY <1>1, <2>2 DEF NoDrift, phase_of
  <2>7. (((n * phi) % FullTurn) + phi) % FullTurn = ((n + 1) * phi) % FullTurn
    BY <1>1, <2>2, NextPhase, Zenon
  <2>8. acc_q'[i] = phase_of(seqSteps'[i], i)
    BY <2>2, <2>4, <2>5, <2>6, <2>7, Zenon DEF phase_of
  <2>9. \A j \in Pairs \ {i} : acc_q'[j] = acc_q[j] /\ seqSteps'[j] = seqSteps[j]
    BY <1>1, <1>3 DEF SeqStep, SeqTypeOK
  <2>10. NoDrift'
    BY <1>1, <2>8, <2>9 DEF NoDrift, phase_of
  <2>11. SeqTypeOK'
    <3>1. ((acc_q[i] + phi) % FullTurn) \in Phases
      BY <1>1, <2>3, Division DEF Phases
    <3>2. acc_q' = [acc_q EXCEPT ![i] = (acc_q[i] + phi) % FullTurn]
      BY <1>3, <2>2 DEF SeqStep, rope_theta_rom
    <3>3. acc_q' \in [Pairs -> Phases]
      BY <1>1, <3>1, <3>2 DEF SeqTypeOK
    <3>4. seqSteps' \in [Pairs -> Nat]
      BY <1>1, <1>3 DEF SeqStep, SeqTypeOK
    <3>5. QED
      BY <3>3, <3>4 DEF SeqTypeOK
  <2>12. QED
    BY <2>10, <2>11 DEF SeqInv
<1>4. CASE UNCHANGED seqVars
  BY <1>1, <1>4 DEF SeqInv, SeqTypeOK, NoDrift, phase_of, seqVars
<1>5. QED
  BY <1>2, <1>3, <1>4 DEF SeqNext

(* The sequential mode of rope_phase_gen never drifts from m * phi modulo a *)
(* turn: not for any width, table, pair or number of tokens, nor through    *)
(* any order of restarts and steps of the pairs.                            *)
THEOREM SequenceIsExact == SeqSpec => []NoDrift
<1>1. SeqInv => NoDrift
  BY DEF SeqInv
<1>2. QED
  BY <1>1, StartHasNoDrift, StepHasNoDrift, PTL DEF SeqSpec

(* The register of the position and the full product lose nothing: for a    *)
(* position the operand field can carry the hardware's phase is phi_table's. *)
LEMMA HardwarePhase ==
  ASSUME NEW m \in 0 .. 2^PosBits - 1, NEW i \in Pairs
  PROVE  random_phase(m, i) = phase_of(m, i)
<1>1. PosBits \in Nat /\ PhaseBits \in Nat
  BY PhaseAssumption
<1>2. 2^PosBits \in Nat \ {0} /\ 2^(PosBits + PhaseBits) = 2^PosBits * FullTurn
  BY <1>1, PhasePowers DEF PowersOfTwo, FullTurn
<1>3. PICK phi \in 0 .. FullTurn - 1 : phi = phi_table[i]
  BY IncrementInTurn DEF Phases
<1>4. FullTurn \in Nat \ {0}
  BY TurnIsPower
<1>5. m % 2^PosBits = m
  BY <1>2
<1>6. PICK positions \in Nat \ {0} : positions = 2^PosBits
  BY <1>2
<1>7. m * phi \in 0 .. (positions * FullTurn) - 1
  <2>1. m \in 0 .. positions - 1
    BY <1>6
  <2>2. m * phi <= m * FullTurn
    BY <1>3, <1>4, <2>1
  <2>3. m * FullTurn <= (positions - 1) * FullTurn
    BY <1>4, <1>6, <2>1
  <2>4. (positions - 1) * FullTurn = (positions * FullTurn) - FullTurn
    BY <1>4, <1>6
  <2>5. m * phi \in Nat /\ m * FullTurn \in Int /\ positions * FullTurn \in Int
    BY <1>3, <1>4, <1>6, <2>1
  <2>6. QED
    BY <1>4, <2>2, <2>3, <2>4, <2>5
<1>8. (m * phi) % (positions * FullTurn) = m * phi
  <2>1. positions * FullTurn \in Nat \ {0}
    BY <1>4, <1>6
  <2>2. PICK product \in Nat, word \in Nat \ {0} :
          product = m * phi /\ word = positions * FullTurn
    BY <1>7, <2>1
  <2>3. product % word = product
    BY <1>7, <2>2
  <2>4. QED
    BY <2>2, <2>3
<1>9. rope_theta_rom(i) = phi
  BY <1>3 DEF rope_theta_rom
<1>10. random_phase(m, i) = (m * phi) % FullTurn
  BY <1>2, <1>5, <1>6, <1>8, <1>9 DEF random_phase
<1>11. QED
  BY <1>3, <1>10 DEF phase_of

-----------------------------------------------------------------------------
(* The bench: what a line can be, in each kind of vector file.              *)

(* A line of the kind `which' holds no more than its two operands.          *)
LineOf(which, As, Bs) ==
  kind = which => /\ line \in Seq(As \cup Bs)
                  /\ Len(line) >= 1 => line[1] \in As
                  /\ Len(line) >= 2 => line[2] \in Bs

BenchInv ==
  /\ SeqInv /\ HeadInv
  /\ LineOf("round", N!Patterns, {})
  /\ LineOf("bf16", N!Patterns, N!Patterns)
  /\ LineOf("fma", Multiplicands, Multipliers)
  /\ LineOf("phase", 0 .. 2^PosBits - 1, Pairs)
  /\ LineOf("lut", Phases, {})
  /\ LineOf("datapath", SPECIAL_BF16, Multipliers)
  /\ LineOf("xif", SPECIAL_BF16, Multiplicands)

(* A line grows by operands of its kind, and is empty again when written.   *)
LEMMA LineGrows ==
  ASSUME NEW which, NEW As, NEW Bs, LineOf(which, As, Bs), kind' = kind,
         \/ kind # which \/ First(which, As) \/ Second(which, Bs) \/ Written \/ line' = line
  PROVE  LineOf(which, As, Bs)'
<1>1. CASE First(which, As)
  BY <1>1 DEF LineOf, First
<1>2. CASE Second(which, Bs)
  <2>1. PICK b \in Bs : line' = Append(line, b) /\ Len(line) = 1 /\ kind = which
    BY <1>2 DEF Second
  <2>2. line \in Seq(As \cup Bs) /\ line[1] \in As
    BY <2>1 DEF LineOf
  <2>3. line' \in Seq(As \cup Bs) /\ line'[1] = line[1] /\ line'[2] = b
    <3>1. b \in As \cup Bs
      BY <2>1
    <3>2. /\ Append(line, b) \in Seq(As \cup Bs)
          /\ \A j \in 1 .. Len(line) : Append(line, b)[j] = line[j]
          /\ Append(line, b)[Len(line) + 1] = b
      BY <2>2, <3>1, AppendProperties
    <3>3. QED
      BY <2>1, <3>2
  <2>4. QED
    BY <2>1, <2>2, <2>3 DEF LineOf
<1>3. CASE Written
  BY <1>3 DEF LineOf, Written
<1>4. CASE line' = line \/ kind # which
  BY <1>4 DEF LineOf
<1>5. QED
  BY <1>1, <1>2, <1>3, <1>4

(* Every step of the bench is one of the two parts with a state, or leaves  *)
(* both and goes on with a line of its kind.                                *)
LEMMA BenchSteps ==
  ASSUME [BenchNext]_benchVars
  PROVE  /\ kind' = kind
         /\ [SeqNext]_seqVars /\ [HeadNext]_headVars
         /\ kind # "round" \/ First("round", N!Patterns) \/ Written \/ line' = line
         /\ \/ kind # "bf16" \/ Written \/ line' = line
            \/ First("bf16", N!Patterns) \/ Second("bf16", N!Patterns)
         /\ \/ kind # "fma" \/ Written \/ line' = line
            \/ First("fma", Multiplicands) \/ Second("fma", Multipliers)
         /\ \/ kind # "phase" \/ Written \/ line' = line
            \/ First("phase", 0 .. 2^PosBits - 1) \/ Second("phase", Pairs)
         /\ kind # "lut" \/ First("lut", Phases) \/ Written \/ line' = line
         /\ \/ kind # "datapath" \/ Written \/ line' = line
            \/ First("datapath", SPECIAL_BF16) \/ Second("datapath", Multipliers)
         /\ \/ kind # "xif" \/ Written \/ line' = line
            \/ First("xif", SPECIAL_BF16) \/ Second("xif", Multiplicands)
<1>1. ASSUME NEW which, NEW S, First(which, S) \/ Second(which, S)
      PROVE  kind = which /\ kind' = kind /\ UNCHANGED seqVars /\ UNCHANGED headVars
  BY <1>1 DEF First, Second
<1>2. CASE RoundLine
  <2>1. First("round", N!Patterns)
    BY <1>2 DEF RoundLine
  <2>2. QED
    BY <1>1, <2>1
<1>3. CASE gen_bf16
  BY <1>1, <1>3 DEF gen_bf16
<1>4. CASE FmaLine
  BY <1>1, <1>4 DEF FmaLine
<1>5. CASE gen_phase
  BY <1>1, <1>5 DEF gen_phase
<1>6. CASE gen_lut
  BY <1>1, <1>6 DEF gen_lut
<1>7. CASE gen_datapath
  BY <1>1, <1>7 DEF gen_datapath
<1>8. CASE gen_xif
  BY <1>1, <1>8 DEF gen_xif
<1>9. CASE SequenceStep
  BY <1>9 DEF SequenceStep
<1>10. CASE HeadStep
  BY <1>10 DEF HeadStep
<1>11. CASE Written
  BY <1>11 DEF Written
<1>12. CASE UNCHANGED benchVars
  BY <1>12 DEF benchVars, seqVars, headVars
<1>13. QED
  BY <1>2, <1>3, <1>4, <1>5, <1>6, <1>7, <1>8, <1>9, <1>10, <1>11, <1>12 DEF BenchNext

(* The bench draws operands of the formats, and runs the two parts with a   *)
(* state as their own specifications do.                                    *)
THEOREM BenchInvariant == BenchSpec => []BenchInv
<1>1. BenchInit => BenchInv
  BY StartHasNoDrift, HeadInvInit DEF BenchInit, BenchInv, LineOf
<1>2. BenchInv /\ [BenchNext]_benchVars => BenchInv'
  <2> SUFFICES ASSUME BenchInv, [BenchNext]_benchVars PROVE BenchInv'
    OBVIOUS
  <2>1. SeqInv' /\ HeadInv'
    BY BenchSteps, StepHasNoDrift, HeadInvNext DEF BenchInv
  <2>2. kind' = kind
    BY BenchSteps
  <2>3. LineOf("round", N!Patterns, {})'
    BY <2>2, BenchSteps, LineGrows DEF BenchInv
  <2>4. LineOf("bf16", N!Patterns, N!Patterns)'
    BY <2>2, BenchSteps, LineGrows DEF BenchInv
  <2>5. LineOf("fma", Multiplicands, Multipliers)'
    BY <2>2, BenchSteps, LineGrows DEF BenchInv
  <2>6. LineOf("phase", 0 .. 2^PosBits - 1, Pairs)'
    BY <2>2, BenchSteps, LineGrows DEF BenchInv
  <2>7. LineOf("lut", Phases, {})'
    BY <2>2, BenchSteps, LineGrows DEF BenchInv
  <2>8. LineOf("datapath", SPECIAL_BF16, Multipliers)'
    BY <2>2, BenchSteps, LineGrows DEF BenchInv
  <2>9. LineOf("xif", SPECIAL_BF16, Multiplicands)'
    BY <2>2, BenchSteps, LineGrows DEF BenchInv
  <2>10. QED
    BY <2>1, <2>3, <2>4, <2>5, <2>6, <2>7, <2>8, <2>9 DEF BenchInv
<1>3. QED
  BY <1>1, <1>2, PTL DEF BenchSpec

(* Both modes of the phase generator hold the exact phase, for every width, *)
(* table, pair and position, and after every sequence of steps.             *)
THEOREM PhaseExact == BenchSpec => []PhaseIsExact
<1>1. BenchInv => PhaseIsExact
  <2> SUFFICES ASSUME BenchInv PROVE PhaseIsExact
    OBVIOUS
  <2>1. NoDrift
    BY DEF BenchInv, SeqInv
  <2>2. ASSUME Complete("phase", 2)
        PROVE  random_phase(line[1], line[2]) = phase_of(line[1], line[2])
    <3>1. line[1] \in 0 .. 2^PosBits - 1 /\ line[2] \in Pairs
      BY <2>2 DEF BenchInv, LineOf, Complete
    <3>2. QED
      BY <3>1, HardwarePhase
  <2>3. QED
    BY <2>1, <2>2 DEF PhaseIsExact
<1>2. QED
  BY <1>1, BenchInvariant, PTL

-----------------------------------------------------------------------------
(* The sine table.                                                          *)

LEMMA QuotientUnique ==
  ASSUME NEW n \in Int, NEW d \in Nat \ {0}, NEW q \in Int, NEW r \in 0 .. d - 1,
         n = (d * q) + r
  PROVE  n \div d = q
OBVIOUS

(* The quotient of a number below d * n is below n. *)
LEMMA QuotientBelow ==
  ASSUME NEW d \in Nat \ {0}, NEW n \in Nat, NEW p \in 0 .. (d * n) - 1
  PROVE  p \div d \in 0 .. n - 1
<1>1. PICK q \in Int, r \in 0 .. d - 1 : p = (d * q) + r /\ q = p \div d
  <2>1. p \in Int
    OBVIOUS
  <2>2. QED
    BY <2>1, Division
<1>2. q >= 0
  <2>1. SUFFICES ASSUME q <= -1 PROVE FALSE
    BY <1>1
  <2>2. d * q <= d * (-1)
    BY <2>1
  <2>3. QED
    BY <1>1, <2>2
<1>3. q < n
  <2>1. SUFFICES ASSUME q >= n PROVE FALSE
    BY <1>1
  <2>2. d * q >= d * n
    BY <2>1
  <2>3. QED
    BY <1>1, <2>2
<1>4. QED
  BY <1>1, <1>2, <1>3

(* A turn has four quarters, a quarter as many buckets as the table entries. *)
Bucket == 2^(PhaseBits - 2 - LutBits)

LEMMA TurnDivides ==
  /\ Bucket \in Nat \ {0} /\ LutN \in Nat \ {0} /\ QuarterTurn \in Nat \ {0}
  /\ QuarterTurn = Bucket * LutN
  /\ FullTurn = 4 * QuarterTurn
<1>1. /\ PhaseBits \in Nat /\ LutBits \in Nat /\ PosBits \in Nat
      /\ PhaseBits - 2 - LutBits \in Nat
  BY PhaseAssumption
<1>2. Bucket \in Nat \ {0} /\ LutN \in Nat \ {0} /\ QuarterTurn \in Nat \ {0}
  <2>1. /\ PhaseBits - 2 - LutBits \in 0 .. PosBits + PhaseBits
        /\ LutBits \in 0 .. PosBits + PhaseBits
        /\ PhaseBits - 2 \in 0 .. PosBits + PhaseBits
    BY <1>1
  <2>2. QED
    BY <2>1, PhasePowers DEF PowersOfTwo, Bucket, LutN, QuarterTurn
<1>3. QuarterTurn = Bucket * LutN
  <2>1. /\ PhaseBits - 2 - LutBits \in 0 .. PosBits + PhaseBits
        /\ LutBits \in 0 .. (PosBits + PhaseBits) - (PhaseBits - 2 - LutBits)
    BY <1>1
  <2>2. 2^((PhaseBits - 2 - LutBits) + LutBits) = Bucket * LutN
    BY <2>1, PhasePowers DEF PowersOfTwo, Bucket, LutN
  <2>3. (PhaseBits - 2 - LutBits) + LutBits = PhaseBits - 2
    BY <1>1
  <2>4. QED
    BY <2>2, <2>3 DEF QuarterTurn
<1>4. FullTurn = 4 * QuarterTurn
  <2>1. 2 \in 0 .. PosBits + PhaseBits /\ PhaseBits - 2 \in 0 .. (PosBits + PhaseBits) - 2
    BY <1>1
  <2>2. 2^(2 + (PhaseBits - 2)) = 2^2 * QuarterTurn
    BY <2>1, PhasePowers DEF PowersOfTwo, QuarterTurn
  <2>3. 2 + (PhaseBits - 2) = PhaseBits /\ 2^2 = 4
    BY <1>1
  <2>4. QED
    BY <2>2, <2>3 DEF FullTurn
<1>5. QED
  BY <1>2, <1>3, <1>4

(* A phase is a bucket of a quarter of the turn.                            *)
LEMMA BucketOfPhase ==
  ASSUME NEW p \in Phases
  PROVE  \E q \in 0 .. 3, i \in 0 .. LutN - 1 :
           p \div Bucket = (LutN * q) + i /\ quad(p) = q /\ idx(p) = i
<1>1. PICK b \in Nat \ {0}, n \in Nat \ {0} : b = Bucket /\ n = LutN
  BY TurnDivides
<1>2. PICK q \in 0 .. 3 : q = p \div QuarterTurn
  <2>1. p \in 0 .. (QuarterTurn * 4) - 1 /\ QuarterTurn \in Nat \ {0}
    BY TurnDivides DEF Phases
  <2>2. QED
    BY <2>1, QuotientBelow
<1>3. PICK rest \in 0 .. (b * n) - 1 : p = ((b * n) * q) + rest
  <2>1. QuarterTurn = b * n /\ QuarterTurn \in Nat \ {0} /\ p \in Int
    BY <1>1, TurnDivides DEF Phases
  <2>2. p = (QuarterTurn * (p \div QuarterTurn)) + (p % QuarterTurn)
        /\ (p % QuarterTurn) \in 0 .. QuarterTurn - 1
    BY <2>1, Division
  <2>3. QED
    BY <1>2, <2>1, <2>2
<1>4. PICK i \in 0 .. n - 1, r \in 0 .. b - 1 : rest = (b * i) + r
  <2>1. rest \div b \in 0 .. n - 1
    BY QuotientBelow
  <2>2. rest = (b * (rest \div b)) + (rest % b) /\ (rest % b) \in 0 .. b - 1
    BY <1>3, Division
  <2>3. QED
    BY <2>1, <2>2
<1>5. p = (b * ((n * q) + i)) + r
  <2>1. b * ((n * q) + i) = (b * (n * q)) + (b * i)
    BY Distributes
  <2>2. b * (n * q) = (b * n) * q
    OBVIOUS
  <2>3. b * (n * q) \in Int /\ b * i \in Int
    OBVIOUS
  <2>4. QED
    BY <1>3, <1>4, <2>1, <2>2, <2>3
<1>6. p \div b = (n * q) + i
  <2>1. (n * q) + i \in Int /\ p \in Int
    BY DEF Phases
  <2>2. QED
    BY <1>5, <2>1, QuotientUnique
<1>7. ((n * q) + i) % n = i
  <2>1. (n * q) + i \in Int
    OBVIOUS
  <2>2. QED
    BY <2>1, RemainderUnique
<1>8. quad(p) = q
  BY <1>2 DEF quad
<1>9. idx(p) = i
  BY <1>1, <1>6, <1>7 DEF idx, Bucket
<1>10. QED
  BY <1>1, <1>6, <1>8, <1>9

(* The entry a phase selects is the one sampled at the centre of its bucket, *)
(* folded into the first quarter, and its sign is that of the sine there.    *)
LEMMA TableFolds ==
  ASSUME NEW p \in Phases
  PROVE  2 * ridx(p) + 1 = Folded(p) /\ negate(p) = SineNegative(p)
<1>1. PICK q \in 0 .. 3, i \in 0 .. LutN - 1 :
        p \div Bucket = (LutN * q) + i /\ quad(p) = q /\ idx(p) = i
  BY BucketOfPhase
<1>2. PICK n \in Nat \ {0} : n = LutN
  BY TurnDivides
<1>3. Centre(p) = 2 * ((n * q) + i) + 1
  BY <1>1, <1>2 DEF Centre, Bucket
<1>4. CASE q = 0
  <2>1. Centre(p) = 2 * i + 1 /\ Centre(p) % (4 * n) = 2 * i + 1
    BY <1>1, <1>2, <1>3, <1>4
  <2>2. QED
    BY <1>1, <1>2, <1>4, <2>1 DEF ridx, reflect, Folded, negate, SineNegative
<1>5. CASE q = 1
  <2>1. Centre(p) = 2 * n + 2 * i + 1 /\ Centre(p) % (4 * n) = 2 * n + 2 * i + 1
    BY <1>1, <1>2, <1>3, <1>5
  <2>2. QED
    BY <1>1, <1>2, <1>5, <2>1 DEF ridx, reflect, Folded, negate, SineNegative
<1>6. CASE q = 2
  <2>1. Centre(p) = 4 * n + 2 * i + 1
    BY <1>1, <1>2, <1>3, <1>6
  <2>2. Centre(p) % (4 * n) = 2 * i + 1
    BY <1>1, <1>2, <2>1, RemainderUnique
  <2>3. QED
    BY <1>1, <1>2, <1>6, <2>1, <2>2 DEF ridx, reflect, Folded, negate, SineNegative
<1>7. CASE q = 3
  <2>1. Centre(p) = 6 * n + 2 * i + 1
    BY <1>1, <1>2, <1>3, <1>7
  <2>2. Centre(p) % (4 * n) = 2 * n + 2 * i + 1
    BY <1>1, <1>2, <2>1, RemainderUnique
  <2>3. QED
    BY <1>1, <1>2, <1>7, <2>1, <2>2 DEF ridx, reflect, Folded, negate, SineNegative
<1>8. QED
  BY <1>4, <1>5, <1>6, <1>7

(* The hardware selects the same entry, and the same sign. *)
LEMMA PathFolds ==
  ASSUME NEW p \in Phases
  PROVE  /\ path_index(p) = ridx(p) /\ path_negate(p) = negate(p)
         /\ ridx(p) \in 0 .. LutN - 1
<1>1. PICK q \in 0 .. 3, i \in 0 .. LutN - 1 :
        p \div Bucket = (LutN * q) + i /\ quad(p) = q /\ idx(p) = i
  BY BucketOfPhase
<1>2. PICK n \in Nat \ {0} : n = LutN
  BY TurnDivides
<1>3. path_quad(p) = q
  <2>1. 2^2 = 4
    OBVIOUS
  <2>2. QED
    BY <1>1, <2>1 DEF path_quad, Slice, quad, QuarterTurn
<1>4. Slice(p, PhaseBits - 2 - LutBits, LutBits) = i
  BY <1>1 DEF Slice, idx, LutN
<1>5. (n - 1 - i) % n = n - 1 - i
  BY <1>2
<1>6. path_index(p) = ridx(p) /\ ridx(p) \in 0 .. LutN - 1
  BY <1>1, <1>2, <1>3, <1>4, <1>5 DEF path_index, ridx, reflect
<1>7. path_negate(p) = negate(p)
  <2>1. 2^1 = 2
    OBVIOUS
  <2>2. Slice(q, 1, 1) = (q \div 2) % 2
    BY <2>1 DEF Slice
  <2>3. (Slice(q, 1, 1) = 1) = (q >= 2)
    BY <2>2
  <2>4. QED
    BY <1>1, <1>3, <2>3 DEF path_negate, negate
<1>8. QED
  BY <1>6, <1>7

(* A quarter turn on from a phase is a phase. *)
LEMMA QuarterOn == ASSUME NEW p \in Phases PROVE cos_phase(p) \in Phases
<1>1. p + QuarterTurn \in Int /\ FullTurn \in Nat \ {0}
  BY TurnDivides, TurnIsPower DEF Phases
<1>2. ((p + QuarterTurn) % FullTurn) \in 0 .. FullTurn - 1
  BY <1>1, Division, Zenon
<1>3. QED
  BY <1>2 DEF cos_phase, Phases

-----------------------------------------------------------------------------
(* Floating-point patterns.                                                 *)

(* Sign, exponent field and significand of a pattern, with f fields of m    *)
(* significands each.                                                       *)
LEMMA Parts ==
  ASSUME NEW f \in Nat \ {0}, NEW m \in Nat \ {0}, NEW mask \in Nat \ {0}, mask = f * m,
         NEW s \in 0 .. 1, NEW field \in 0 .. f - 1, NEW man \in 0 .. m - 1,
         NEW u \in Int, u = (mask * s) + ((m * field) + man)
  PROVE  /\ (m * field) + man \in 0 .. mask - 1
         /\ u \div mask = s /\ u % mask = (m * field) + man
         /\ ((m * field) + man) \div m = field /\ u % m = man
<1>1. (m * field) + man \in 0 .. mask - 1
  <2>1. m * field \in Nat
    OBVIOUS
  <2>2. m * field <= m * (f - 1)
    OBVIOUS
  <2>3. m * (f - 1) = mask - m
    OBVIOUS
  <2>4. QED
    BY <2>1, <2>2, <2>3
<1>2. PICK r \in 0 .. mask - 1 : r = (m * field) + man
  BY <1>1
<1>3. u \div mask = s /\ u % mask = r
  <2>1. s \in Int /\ u = (mask * s) + r
    BY <1>2
  <2>2. u \div mask = s
    BY <2>1, QuotientUnique
  <2>3. u % mask = r
    BY <2>1, RemainderUnique
  <2>4. QED
    BY <2>2, <2>3
<1>4. r \div m = field
  <2>1. r \in Int /\ field \in Int
    OBVIOUS
  <2>2. QED
    BY <1>2, <2>1, QuotientUnique
<1>5. u % m = man
  <2>1. PICK n \in Int : n = (f * s) + field
    OBVIOUS
  <2>2. u = (m * n) + man
    <3>1. m * n = (m * (f * s)) + (m * field)
      BY <2>1, Distributes
    <3>2. m * (f * s) = mask * s
      OBVIOUS
    <3>3. m * (f * s) \in Int /\ m * field \in Int
      OBVIOUS
    <3>4. QED
      BY <3>1, <3>2, <3>3
  <2>3. QED
    BY <2>2, RemainderUnique
<1>6. QED
  BY <1>1, <1>2, <1>3, <1>4, <1>5

(* Every pattern has such parts. *)
LEMMA PartsExist ==
  ASSUME NEW f \in Nat \ {0}, NEW m \in Nat \ {0}, NEW u \in 0 .. (2 * (f * m)) - 1
  PROVE  \E s \in 0 .. 1, field \in 0 .. f - 1, man \in 0 .. m - 1 :
           u = ((f * m) * s) + ((m * field) + man)
<1>1. f * m \in Nat \ {0} /\ u \in Int
  OBVIOUS
<1>2. PICK s \in 0 .. 1, rest \in 0 .. (f * m) - 1 : u = ((f * m) * s) + rest
  <2>1. u \in 0 .. ((f * m) * 2) - 1
    BY <1>1
  <2>2. u \div (f * m) \in 0 .. 1
    BY <1>1, <2>1, QuotientBelow
  <2>3. QED
    BY <1>1, <2>2, Division
<1>3. PICK field \in 0 .. f - 1, man \in 0 .. m - 1 : rest = (m * field) + man
  <2>1. rest \in 0 .. (m * f) - 1
    OBVIOUS
  <2>2. rest \div m \in 0 .. f - 1
    BY <2>1, QuotientBelow
  <2>3. rest \in Int
    OBVIOUS
  <2>4. QED
    BY <2>2, <2>3, Division
<1>4. QED
  BY <1>2, <1>3

(* The sizes of the two formats, from those of their fields. *)
Fields == 2^ExpBits
Mantissas == 2^ManBits
Lows == 2^LowBits
WideMantissas == 2^(ManBits + LowBits)

LEMMA WidthPowers == PowersOfTwo(ExpBits + ManBits + LowBits)
<1>1. ExpBits + ManBits + LowBits \in 0 .. MaxBits
  BY WidthAssumption, BitsAssumption
<1>2. PICK top \in 0 .. MaxBits : top = ExpBits + ManBits + LowBits
  BY <1>1
<1>3. \A a \in 0 .. top : a \in 0 .. MaxBits
  BY BitsAssumption
<1>4. \A a \in 0 .. top : \A b \in 0 .. top - a : b \in 0 .. MaxBits - a
  BY BitsAssumption
<1>5. PowersOfTwo(top)
  BY <1>3, <1>4, BitsAssumption DEF PowersOfTwo
<1>6. QED
  BY <1>2, <1>5

LEMMA Sizes ==
  /\ Fields \in Nat /\ Fields >= 4 /\ Mantissas \in Nat /\ Mantissas >= 2
  /\ Lows \in Nat /\ Lows = 2 * 2^(LowBits - 1) /\ 2^(LowBits - 1) \in Nat \ {0}
  /\ \E n \in Nat \ {0} : Fields = 2 * n
  /\ N!SignMask = Fields * Mantissas /\ N!ExpOnes = Fields - 1
  /\ N!SignMask \in Nat \ {0} /\ W!SignMask \in Nat \ {0}
  /\ N!PosInf = (Fields - 1) * Mantissas
  /\ WideMantissas = Mantissas * Lows /\ WideMantissas \in Nat \ {0}
  /\ W!SignMask = Fields * WideMantissas /\ W!ExpOnes = Fields - 1
  /\ W!PosInf = (Fields - 1) * WideMantissas
<1>1. /\ ExpBits \in Nat /\ ExpBits >= 2 /\ ManBits \in Nat /\ ManBits >= 1
      /\ LowBits \in Nat /\ LowBits >= 1
  BY WidthAssumption
<1>2. PICK top \in Nat : top = ExpBits + ManBits + LowBits
  BY <1>1
<1>3. \A a \in 0 .. top : 2^a \in Nat \ {0}
  BY <1>2, WidthPowers DEF PowersOfTwo
<1>4. \A a \in 0 .. top : \A b \in 0 .. top - a : 2^(a + b) = 2^a * 2^b
  BY <1>2, WidthPowers DEF PowersOfTwo
<1>5. /\ Fields \in Nat \ {0} /\ Mantissas \in Nat \ {0} /\ Lows \in Nat \ {0}
      /\ 2^(ExpBits - 2) \in Nat \ {0} /\ 2^(ManBits - 1) \in Nat \ {0}
      /\ 2^(LowBits - 1) \in Nat \ {0}
  <2>1. /\ ExpBits \in 0 .. top /\ ManBits \in 0 .. top /\ LowBits \in 0 .. top
        /\ ExpBits - 2 \in 0 .. top /\ ManBits - 1 \in 0 .. top /\ LowBits - 1 \in 0 .. top
    BY <1>1, <1>2
  <2>2. QED
    BY <1>3, <2>1 DEF Fields, Mantissas, Lows
<1>6. Fields = 4 * 2^(ExpBits - 2)
  <2>1. 2 \in 0 .. top /\ ExpBits - 2 \in 0 .. top - 2 /\ 2 + (ExpBits - 2) = ExpBits
    BY <1>1, <1>2
  <2>2. 2^(2 + (ExpBits - 2)) = 2^2 * 2^(ExpBits - 2)
    BY <1>4, <2>1
  <2>3. 2^2 = 4
    OBVIOUS
  <2>4. QED
    BY <2>1, <2>2, <2>3 DEF Fields
<1>7. Mantissas = 2 * 2^(ManBits - 1)
  <2>1. 1 \in 0 .. top /\ ManBits - 1 \in 0 .. top - 1 /\ 1 + (ManBits - 1) = ManBits
    BY <1>1, <1>2
  <2>2. 2^(1 + (ManBits - 1)) = 2^1 * 2^(ManBits - 1)
    BY <1>4, <2>1
  <2>3. 2^1 = 2
    OBVIOUS
  <2>4. QED
    BY <2>1, <2>2, <2>3 DEF Mantissas
<1>8. Lows = 2 * 2^(LowBits - 1)
  <2>1. 1 \in 0 .. top /\ LowBits - 1 \in 0 .. top - 1 /\ 1 + (LowBits - 1) = LowBits
    BY <1>1, <1>2
  <2>2. 2^(1 + (LowBits - 1)) = 2^1 * 2^(LowBits - 1)
    BY <1>4, <2>1
  <2>3. 2^1 = 2
    OBVIOUS
  <2>4. QED
    BY <2>1, <2>2, <2>3 DEF Lows
<1>9. N!SignMask = Fields * Mantissas
  <2>1. ExpBits \in 0 .. top /\ ManBits \in 0 .. top - ExpBits
    BY <1>1, <1>2
  <2>2. 2^(ExpBits + ManBits) = Fields * Mantissas
    BY <1>4, <2>1 DEF Fields, Mantissas
  <2>3. QED
    BY <2>2 DEF N!SignMask
<1>10. WideMantissas = Mantissas * Lows /\ WideMantissas \in Nat \ {0}
  <2>1. /\ ManBits \in 0 .. top /\ LowBits \in 0 .. top - ManBits
        /\ ManBits + LowBits \in 0 .. top
    BY <1>1, <1>2
  <2>2. QED
    BY <1>3, <1>4, <2>1 DEF Mantissas, Lows, WideMantissas
<1>11. W!SignMask = Fields * WideMantissas
  <2>1. ExpBits \in 0 .. top /\ ManBits + LowBits \in 0 .. top - ExpBits
    BY <1>1, <1>2
  <2>2. 2^(ExpBits + (ManBits + LowBits)) = Fields * WideMantissas
    BY <1>4, <2>1 DEF Fields, WideMantissas
  <2>3. QED
    BY <2>2 DEF W!SignMask
<1>12. /\ N!ExpOnes = Fields - 1 /\ N!PosInf = (Fields - 1) * Mantissas
       /\ W!ExpOnes = Fields - 1 /\ W!PosInf = (Fields - 1) * WideMantissas
  BY DEF N!ExpOnes, N!PosInf, W!ExpOnes, W!PosInf, Fields, Mantissas, WideMantissas
<1>13. /\ Fields >= 4 /\ Mantissas >= 2 /\ \E n \in Nat \ {0} : Fields = 2 * n
  <2>1. 2 * 2^(ExpBits - 2) \in Nat \ {0} /\ Fields = 2 * (2 * 2^(ExpBits - 2))
    BY <1>5, <1>6
  <2>2. QED
    BY <1>5, <1>6, <1>7, <2>1
<1>14. N!SignMask \in Nat \ {0} /\ W!SignMask \in Nat \ {0}
  <2>1. ExpBits + ManBits \in 0 .. top /\ ExpBits + (ManBits + LowBits) \in 0 .. top
    BY <1>1, <1>2
  <2>2. QED
    BY <1>3, <2>1 DEF N!SignMask, W!SignMask
<1>15. QED
  BY <1>5, <1>8, <1>9, <1>10, <1>11, <1>12, <1>13, <1>14

(* What the accessors of the narrow format read of a pattern put together    *)
(* from a sign, an exponent field and a significand; then of the wide one.   *)
LEMMA NarrowParts ==
  ASSUME NEW s \in 0 .. 1, NEW field \in 0 .. Fields - 1, NEW man \in 0 .. Mantissas - 1,
         NEW u, u = (N!SignMask * s) + ((Mantissas * field) + man)
  PROVE  /\ u \in N!Patterns /\ N!Sign(u) = s /\ N!Magnitude(u) = (Mantissas * field) + man
         /\ N!Magnitude(u) \in 0 .. N!SignMask - 1
         /\ N!Field(u) = field /\ N!Mantissa(u) = man
<1>1. /\ Fields \in Nat \ {0} /\ Mantissas \in Nat \ {0} /\ N!SignMask = Fields * Mantissas
      /\ N!SignMask \in Nat \ {0}
  BY Sizes
<1>2. u \in Int
  BY <1>1
<1>3. /\ (Mantissas * field) + man \in 0 .. N!SignMask - 1
      /\ u \div N!SignMask = s
      /\ u % N!SignMask = (Mantissas * field) + man
      /\ ((Mantissas * field) + man) \div Mantissas = field
      /\ u % Mantissas = man
  <2>1. (Mantissas * field) + man \in 0 .. N!SignMask - 1
    BY <1>1, <1>2, Parts
  <2>2. u \div N!SignMask = s
    BY <1>1, <1>2, Parts
  <2>3. u % N!SignMask = (Mantissas * field) + man
    <3>1. PICK r \in 0 .. N!SignMask - 1 : r = (Mantissas * field) + man
      BY <2>1
    <3>2. u = (N!SignMask * s) + r /\ s \in Int
      BY <3>1
    <3>3. QED
      BY <1>1, <1>2, <3>1, <3>2, RemainderUnique
  <2>4. ((Mantissas * field) + man) \div Mantissas = field
    BY <1>1, <1>2, Parts
  <2>5. u % Mantissas = man
    BY <1>1, <1>2, Parts
  <2>6. QED
    BY <2>1, <2>2, <2>3, <2>4, <2>5
<1>4. N!Sign(u) = s /\ N!Magnitude(u) = (Mantissas * field) + man
  BY <1>1, <1>3 DEF N!Sign, N!Magnitude
<1>5. N!Field(u) = field /\ N!Mantissa(u) = man
  BY <1>3, <1>4 DEF N!Field, N!Mantissa, Mantissas
<1>6. (Mantissas * field) + man \in 0 .. N!SignMask - 1
  BY <1>3
<1>7. u \in N!Patterns
  <2>1. CASE s = 0
    BY <1>1, <1>6, <2>1 DEF N!Patterns
  <2>2. CASE s = 1
    BY <1>1, <1>6, <2>2 DEF N!Patterns
  <2>3. QED
    BY <2>1, <2>2
<1>8. QED
  BY <1>4, <1>5, <1>6, <1>7

LEMMA WideParts ==
  ASSUME NEW s \in 0 .. 1, NEW field \in 0 .. Fields - 1, NEW man \in 0 .. WideMantissas - 1,
         NEW w, w = (W!SignMask * s) + ((WideMantissas * field) + man)
  PROVE  /\ w \in W!Patterns /\ W!Sign(w) = s /\ W!Magnitude(w) = (WideMantissas * field) + man
         /\ W!Magnitude(w) \in 0 .. W!SignMask - 1
         /\ W!Field(w) = field /\ W!Mantissa(w) = man
<1>1. /\ Fields \in Nat \ {0} /\ WideMantissas \in Nat \ {0}
      /\ W!SignMask = Fields * WideMantissas /\ W!SignMask \in Nat \ {0}
  BY Sizes
<1>2. w \in Int
  BY <1>1
<1>3. /\ (WideMantissas * field) + man \in 0 .. W!SignMask - 1
      /\ w \div W!SignMask = s
      /\ w % W!SignMask = (WideMantissas * field) + man
      /\ ((WideMantissas * field) + man) \div WideMantissas = field
      /\ w % WideMantissas = man
  <2>1. (WideMantissas * field) + man \in 0 .. W!SignMask - 1
    BY <1>1, <1>2, Parts
  <2>2. w \div W!SignMask = s
    BY <1>1, <1>2, Parts
  <2>3. w % W!SignMask = (WideMantissas * field) + man
    <3>1. PICK r \in 0 .. W!SignMask - 1 : r = (WideMantissas * field) + man
      BY <2>1
    <3>2. w = (W!SignMask * s) + r /\ s \in Int
      BY <3>1
    <3>3. QED
      BY <1>1, <1>2, <3>1, <3>2, RemainderUnique
  <2>4. ((WideMantissas * field) + man) \div WideMantissas = field
    BY <1>1, <1>2, Parts
  <2>5. w % WideMantissas = man
    BY <1>1, <1>2, Parts
  <2>6. QED
    BY <2>1, <2>2, <2>3, <2>4, <2>5
<1>4. W!Sign(w) = s /\ W!Magnitude(w) = (WideMantissas * field) + man
  BY <1>1, <1>3 DEF W!Sign, W!Magnitude
<1>5. W!Field(w) = field /\ W!Mantissa(w) = man
  BY <1>3, <1>4 DEF W!Field, W!Mantissa, WideMantissas
<1>6. w \in W!Patterns
  <2>1. CASE s = 0
    BY <1>1, <1>3, <2>1 DEF W!Patterns
  <2>2. CASE s = 1
    BY <1>1, <1>3, <2>2 DEF W!Patterns
  <2>3. QED
    BY <2>1, <2>2
<1>7. QED
  BY <1>3, <1>4, <1>5, <1>6

(* Every narrow pattern is put together so. *)
LEMMA NarrowPattern ==
  ASSUME NEW u \in N!Patterns
  PROVE  /\ N!Sign(u) \in 0 .. 1 /\ N!Field(u) \in 0 .. Fields - 1
         /\ N!Mantissa(u) \in 0 .. Mantissas - 1
         /\ N!Magnitude(u) = (Mantissas * N!Field(u)) + N!Mantissa(u)
         /\ u = (N!SignMask * N!Sign(u)) + N!Magnitude(u)
<1>1. Fields \in Nat \ {0} /\ Mantissas \in Nat \ {0} /\ N!SignMask = Fields * Mantissas
  BY Sizes
<1>2. u \in 0 .. (2 * (Fields * Mantissas)) - 1
  BY <1>1 DEF N!Patterns
<1>3. PICK s \in 0 .. 1, field \in 0 .. Fields - 1, man \in 0 .. Mantissas - 1 :
        u = ((Fields * Mantissas) * s) + ((Mantissas * field) + man)
  BY <1>1, <1>2, PartsExist
<1>4. u = (N!SignMask * s) + ((Mantissas * field) + man)
  BY <1>1, <1>3
<1>5. /\ N!Sign(u) = s /\ N!Magnitude(u) = (Mantissas * field) + man
      /\ N!Field(u) = field /\ N!Mantissa(u) = man
  BY <1>4, NarrowParts
<1>6. QED
  BY <1>4, <1>5

(* Appended low bits are the lower part of the significand: the rest of the  *)
(* wide pattern is that of the narrow one (bf16_to_f32).                     *)
LEMMA Widened ==
  ASSUME NEW u \in N!Patterns, NEW low \in 0 .. Lows - 1,
         NEW w, w = bf16_to_f32(u) + low
  PROVE  /\ w \in W!Patterns /\ w = (u * Lows) + low
         /\ W!Sign(w) = N!Sign(u) /\ W!Field(w) = N!Field(u)
         /\ W!Mantissa(w) = (Lows * N!Mantissa(u)) + low
         /\ W!Significand(w) = (Lows * N!Significand(u)) + low
         /\ W!Exponent(w) = N!Exponent(u) - LowBits
<1>1. /\ Fields \in Nat \ {0} /\ Mantissas \in Nat \ {0} /\ Lows \in Nat \ {0}
      /\ N!SignMask = Fields * Mantissas /\ W!SignMask = Fields * (Mantissas * Lows)
      /\ WideMantissas = Mantissas * Lows
      /\ ManBits \in Nat /\ LowBits \in Nat
  BY Sizes, WidthAssumption
<1>2. PICK s \in 0 .. 1, field \in 0 .. Fields - 1, man \in 0 .. Mantissas - 1 :
        /\ s = N!Sign(u) /\ field = N!Field(u) /\ man = N!Mantissa(u)
        /\ u = (N!SignMask * s) + ((Mantissas * field) + man)
  BY NarrowPattern
<1>3. w = (u * Lows) + low
  BY DEF bf16_to_f32, Lows
<1>4. (Lows * man) + low \in 0 .. WideMantissas - 1
  <2>1. Lows * man \in Nat /\ Lows * man <= Lows * (Mantissas - 1)
    BY <1>1
  <2>2. Lows * (Mantissas - 1) = WideMantissas - Lows
    BY <1>1
  <2>3. WideMantissas \in Int
    BY <1>1
  <2>4. QED
    BY <1>1, <2>1, <2>2, <2>3
<1>5. w = (W!SignMask * s) + ((WideMantissas * field) + ((Lows * man) + low))
  <2>1. u * Lows = ((N!SignMask * s) * Lows) + (((Mantissas * field) * Lows) + (man * Lows))
    BY <1>1, <1>2
  <2>2. (N!SignMask * s) * Lows = W!SignMask * s
    BY <1>1
  <2>3. (Mantissas * field) * Lows = WideMantissas * field
    BY <1>1
  <2>4. W!SignMask * s \in Int /\ WideMantissas * field \in Int /\ Lows * man \in Int
    BY <1>1
  <2>5. QED
    BY <1>1, <1>3, <2>1, <2>2, <2>3, <2>4
<1>6. /\ w \in W!Patterns /\ W!Sign(w) = s /\ W!Field(w) = field
      /\ W!Mantissa(w) = (Lows * man) + low
  BY <1>4, <1>5, WideParts
<1>7. W!Significand(w) = (Lows * N!Significand(u)) + low
  <2>1. CASE field = 0
    BY <1>2, <1>6, <2>1 DEF W!Significand, N!Significand
  <2>2. CASE field # 0
    <3>1. W!Significand(w) = (Mantissas * Lows) + ((Lows * man) + low)
      BY <1>1, <1>6, <2>2 DEF W!Significand, WideMantissas
    <3>2. N!Significand(u) = Mantissas + man
      BY <1>2, <2>2 DEF N!Significand, Mantissas
    <3>3. Lows * (Mantissas + man) = (Mantissas * Lows) + (Lows * man)
      BY <1>1
    <3>4. Mantissas * Lows \in Int /\ Lows * man \in Int
      BY <1>1
    <3>5. QED
      BY <1>1, <3>1, <3>2, <3>3, <3>4
  <2>3. QED
    BY <2>1, <2>2
<1>8. W!Exponent(w) = N!Exponent(u) - LowBits
  <2>1. W!Bias = N!Bias /\ N!Bias \in Int
    <3>1. ExpBits - 1 \in 0 .. ExpBits + ManBits + LowBits
      BY WidthAssumption
    <3>2. 2^(ExpBits - 1) \in Nat
      BY <3>1, WidthPowers DEF PowersOfTwo
    <3>3. QED
      BY <3>2 DEF W!Bias, N!Bias
  <2>2. PICK bias \in Int : W!Bias = bias /\ N!Bias = bias
    BY <2>1
  <2>3. CASE field = 0
    <3>1. W!Exponent(w) = 1 - bias - (ManBits + LowBits) /\ N!Exponent(u) = 1 - bias - ManBits
      BY <1>2, <1>6, <2>2, <2>3 DEF W!Exponent, N!Exponent
    <3>2. QED
      BY <1>1, <3>1
  <2>4. CASE field # 0
    <3>1. W!Exponent(w) = field - bias - (ManBits + LowBits) /\ N!Exponent(u) = field - bias - ManBits
      BY <1>2, <1>6, <2>2, <2>4 DEF W!Exponent, N!Exponent
    <3>2. QED
      BY <1>1, <1>2, <3>1
  <2>5. QED
    BY <2>3, <2>4
<1>9. QED
  BY <1>2, <1>3, <1>6, <1>7, <1>8

-----------------------------------------------------------------------------
(* Rounding.                                                                *)

(* What the low bits tell: above the midpoint, or on it with an odd pattern. *)
RoundsUp(u, low) == low > 2^(LowBits - 1) \/ (low = 2^(LowBits - 1) /\ u % 2 = 1)

(* Adding half a unit less one, and one more for an odd pattern, carries     *)
(* into the retained bits exactly when the pattern is to be rounded up.      *)
LEMMA CarryRounds ==
  ASSUME NEW u \in N!Patterns, NEW low \in 0 .. Lows - 1,
         NEW w, w = bf16_to_f32(u) + low
  PROVE  f32_to_bf16(w) = IF W!IsNaN(w) THEN N!QNaN
                          ELSE (u + (IF RoundsUp(u, low) THEN 1 ELSE 0)) % (2 * N!SignMask)
<1>1. PICK half \in Nat \ {0} : half = 2^(LowBits - 1) /\ Lows = 2 * half
  BY Sizes
<1>2. u \in Nat /\ w = (Lows * u) + low /\ Lows \in Nat \ {0} /\ u \in Int /\ low \in Int
  BY <1>1, Sizes, Widened DEF N!Patterns
<1>3. w \div 2^LowBits = u
  <2>1. w \in Int
    BY <1>2
  <2>2. w \div Lows = u
    BY <1>2, <2>1, QuotientUnique
  <2>3. QED
    BY <2>2 DEF Lows
<1>4. PICK lsb \in 0 .. 1 : lsb = u % 2
  BY <1>2
<1>5. PICK up \in 0 .. 1 : up = IF RoundsUp(u, low) THEN 1 ELSE 0
  OBVIOUS
<1>6. (w + half - 1 + lsb) \div Lows = u + up
  <2>1. PICK r \in Int : r = low + half - 1 + lsb - (Lows * up)
    BY <1>1, <1>2
  <2>2. r \in 0 .. Lows - 1
    <3>1. CASE up = 1
      <4>1. low > half \/ (low = half /\ lsb = 1)
        BY <1>1, <1>4, <1>5, <3>1 DEF RoundsUp
      <4>2. r = low + half - 1 + lsb - Lows
        BY <1>1, <1>2, <2>1, <3>1
      <4>3. QED
        BY <1>1, <1>2, <4>1, <4>2
    <3>2. CASE up = 0
      <4>1. low <= half /\ (low = half => lsb = 0)
        BY <1>1, <1>2, <1>4, <1>5, <3>2 DEF RoundsUp
      <4>2. r = low + half - 1 + lsb
        BY <1>1, <1>2, <2>1, <3>2
      <4>3. CASE low = half
        BY <1>1, <4>1, <4>2, <4>3
      <4>4. CASE low < half
        BY <1>1, <4>2, <4>4
      <4>5. QED
        BY <1>1, <1>2, <4>1, <4>3, <4>4
    <3>3. QED
      BY <3>1, <3>2
  <2>3. PICK n \in Int : n = w + half - 1 + lsb
    BY <1>1, <1>2
  <2>4. n = (Lows * (u + up)) + r
    <3>1. Lows * (u + up) = (Lows * u) + (Lows * up)
      BY <1>2, Distributes
    <3>2. Lows * u \in Int /\ Lows * up \in Int
      BY <1>2
    <3>3. QED
      BY <1>1, <1>2, <2>1, <2>3, <3>1, <3>2
  <2>5. n \div Lows = u + up
    <3>1. u + up \in Int
      BY <1>2
    <3>2. QED
      BY <1>2, <2>2, <2>4, <3>1, QuotientUnique
  <2>6. QED
    BY <2>3, <2>5
<1>7. ((w + 2^(LowBits - 1) - 1 + ((w \div 2^LowBits) % 2)) \div 2^LowBits) = u + up
  BY <1>1, <1>3, <1>4, <1>6 DEF Lows
<1>8. QED
  BY <1>5, <1>7 DEF f32_to_bf16, round_f32_to_bf16

(* A magnitude is a pattern of its own value. *)
LEMMA MagnitudePattern ==
  ASSUME NEW u \in N!Patterns
  PROVE  LET n == N!Magnitude(u)
         IN /\ n \in 0 .. N!SignMask - 1 /\ n \in N!Patterns
            /\ N!Field(n) = N!Field(u) /\ N!Mantissa(n) = N!Mantissa(u)
            /\ N!Significand(n) = N!Significand(u) /\ N!Exponent(n) = N!Exponent(u)
            /\ n % 2 = u % 2
<1>1. PICK s \in 0 .. 1, field \in 0 .. Fields - 1, man \in 0 .. Mantissas - 1 :
        /\ s = N!Sign(u) /\ field = N!Field(u) /\ man = N!Mantissa(u)
        /\ N!Magnitude(u) = (Mantissas * field) + man
        /\ u = (N!SignMask * s) + N!Magnitude(u)
  BY NarrowPattern
<1>2. PICK n : n = N!Magnitude(u)
  OBVIOUS
<1>3. Mantissas * field \in Int /\ N!SignMask \in Nat
  BY Sizes
<1>4. n = (N!SignMask * 0) + ((Mantissas * field) + man)
  BY <1>1, <1>2, <1>3
<1>5. /\ n \in N!Patterns /\ N!Sign(n) = 0 /\ N!Magnitude(n) = (Mantissas * field) + man
      /\ N!Magnitude(n) \in 0 .. N!SignMask - 1
      /\ N!Field(n) = field /\ N!Mantissa(n) = man
  BY <1>4, NarrowParts
<1>6. N!Significand(n) = N!Significand(u) /\ N!Exponent(n) = N!Exponent(u)
  BY <1>1, <1>5 DEF N!Significand, N!Exponent
<1>7. n % 2 = u % 2
  <2>1. PICK h \in Nat : N!SignMask = 2 * h
    <3>1. PICK half \in Nat : Fields = 2 * half
      BY Sizes
    <3>2. N!SignMask = 2 * (half * Mantissas) /\ half * Mantissas \in Nat
      BY <3>1, Sizes
    <3>3. QED
      BY <3>2
  <2>2. n \in Int /\ u = ((2 * h) * s) + n
    BY <1>1, <1>2, <1>3, <2>1
  <2>3. CASE s = 0
    BY <2>2, <2>3
  <2>4. CASE s = 1
    BY <2>2, <2>4
  <2>5. QED
    BY <2>3, <2>4
<1>8. QED
  BY <1>1, <1>2, <1>5, <1>6, <1>7

(* The significand and exponent of a pattern are numbers. *)
LEMMA NarrowValue ==
  ASSUME NEW u \in N!Patterns
  PROVE  N!Significand(u) \in Nat /\ N!Exponent(u) \in Int /\ N!Bias \in Int
<1>1. N!Bias \in Int
  <2>1. ExpBits - 1 \in 0 .. ExpBits + ManBits + LowBits
    BY WidthAssumption
  <2>2. 2^(ExpBits - 1) \in Nat
    BY <2>1, WidthPowers DEF PowersOfTwo
  <2>3. QED
    BY <2>2 DEF N!Bias
<1>2. N!Field(u) \in Nat /\ N!Mantissa(u) \in Nat /\ Mantissas \in Nat /\ ManBits \in Nat
  BY NarrowPattern, Sizes, WidthAssumption
<1>3. N!Significand(u) \in Nat
  BY <1>2 DEF N!Significand, Mantissas
<1>4. N!Exponent(u) \in Int
  BY <1>1, <1>2 DEF N!Exponent
<1>5. QED
  BY <1>1, <1>3, <1>4

(* The next magnitude is one unit of the last place on, in the same binade   *)
(* or at the start of the next one.                                          *)
LEMMA NextMagnitude ==
  ASSUME NEW n \in 0 .. N!PosInf - 1
  PROVE  /\ n \in N!Patterns /\ n + 1 \in N!Patterns
         /\ \/ /\ N!Significand(n + 1) = N!Significand(n) + 1
               /\ N!Exponent(n + 1) = N!Exponent(n)
            \/ /\ N!Significand(n + 1) = Mantissas
               /\ N!Exponent(n + 1) = N!Exponent(n) + 1
               /\ N!Significand(n) = 2 * Mantissas - 1
<1>1. /\ Fields \in Nat /\ Fields >= 4 /\ Mantissas \in Nat /\ Mantissas >= 2
      /\ N!PosInf = (Fields - 1) * Mantissas /\ N!SignMask \in Nat \ {0}
      /\ N!PosInf \in Nat
  BY Sizes
<1>2. PICK field \in 0 .. Fields - 2, man \in 0 .. Mantissas - 1 : n = (Mantissas * field) + man
  <2>1. n \in 0 .. (Mantissas * (Fields - 1)) - 1
    BY <1>1
  <2>2. PICK q \in 0 .. Fields - 2 : q = n \div Mantissas
    <3>1. n \div Mantissas \in 0 .. (Fields - 1) - 1
      BY <1>1, <2>1, QuotientBelow
    <3>2. QED
      BY <1>1, <3>1
  <2>3. n \in Int /\ Mantissas \in Nat \ {0}
    BY <1>1
  <2>4. n = (Mantissas * (n \div Mantissas)) + (n % Mantissas) /\ (n % Mantissas) \in 0 .. Mantissas - 1
    BY <2>3, Division
  <2>5. QED
    BY <1>1, <2>2, <2>4
<1>3. Mantissas * field \in Int /\ N!SignMask * 0 = 0 /\ field \in 0 .. Fields - 1
  BY <1>1
<1>4. n \in N!Patterns /\ N!Field(n) = field /\ N!Mantissa(n) = man
  <2>1. n = (N!SignMask * 0) + ((Mantissas * field) + man)
    BY <1>2, <1>3
  <2>2. QED
    BY <1>3, <2>1, NarrowParts
<1>5. N!Bias \in Int /\ ManBits \in Int
  BY <1>4, NarrowValue, WidthAssumption
<1>6. N!Significand(n) = IF field = 0 THEN man ELSE Mantissas + man
  BY <1>4 DEF N!Significand, Mantissas
<1>7. N!Exponent(n) = (IF field = 0 THEN 1 ELSE field) - N!Bias - ManBits
  BY <1>4 DEF N!Exponent
<1>8. CASE man < Mantissas - 1
  <2>1. man + 1 \in 0 .. Mantissas - 1
    BY <1>1, <1>8
  <2>2. n + 1 = (N!SignMask * 0) + ((Mantissas * field) + (man + 1))
    BY <1>2, <1>3
  <2>3. n + 1 \in N!Patterns /\ N!Field(n + 1) = field /\ N!Mantissa(n + 1) = man + 1
    BY <1>3, <2>1, <2>2, NarrowParts
  <2>4. N!Significand(n + 1) = N!Significand(n) + 1
    BY <1>1, <1>6, <2>3 DEF N!Significand, Mantissas
  <2>5. N!Exponent(n + 1) = N!Exponent(n)
    BY <1>7, <2>3 DEF N!Exponent
  <2>6. QED
    BY <1>4, <2>3, <2>4, <2>5
<1>9. CASE man = Mantissas - 1
  <2>1. field + 1 \in 0 .. Fields - 1 /\ 0 \in 0 .. Mantissas - 1
    BY <1>1
  <2>2. n + 1 = (N!SignMask * 0) + ((Mantissas * (field + 1)) + 0)
    <3>1. Mantissas * (field + 1) = (Mantissas * field) + Mantissas
      BY <1>1
    <3>2. QED
      BY <1>1, <1>2, <1>3, <1>9, <3>1
  <2>3. n + 1 \in N!Patterns /\ N!Field(n + 1) = field + 1 /\ N!Mantissa(n + 1) = 0
    BY <2>1, <2>2, NarrowParts
  <2>4. N!Significand(n + 1) = Mantissas
    BY <1>1, <2>3 DEF N!Significand, Mantissas
  <2>5. N!Exponent(n + 1) = field + 1 - N!Bias - ManBits
    <3>1. N!Exponent(n + 1) = (IF field + 1 = 0 THEN 1 ELSE field + 1) - N!Bias - ManBits
      BY <2>3 DEF N!Exponent
    <3>2. field + 1 # 0
      OBVIOUS
    <3>3. QED
      BY <1>5, <3>1, <3>2
  <2>6. CASE field = 0
    BY <1>1, <1>4, <1>5, <1>6, <1>7, <1>9, <2>3, <2>4, <2>5, <2>6
  <2>7. CASE field # 0
    BY <1>1, <1>4, <1>5, <1>6, <1>7, <1>9, <2>3, <2>4, <2>5, <2>7
  <2>8. QED
    BY <2>6, <2>7
<1>10. QED
  BY <1>1, <1>8, <1>9

(* Comparing two reals whose exponents are a known distance apart. *)
LEMMA Aligned ==
  ASSUME NEW a \in Int, NEW b \in Int, NEW e \in Int, NEW d \in Nat, 2^d \in Nat
  PROVE  /\ N!LeqAt(a, e + d, b, e) <=> a * 2^d <= b
         /\ N!LeqAt(a, e, b, e + d) <=> a <= b * 2^d
<1>1. N!LeqAt(a, e + d, b, e) <=> a * 2^d <= b
  <2>1. e + d >= e /\ (e + d) - e = d
    OBVIOUS
  <2>2. QED
    BY <2>1 DEF N!LeqAt
<1>2. N!LeqAt(a, e, b, e + d) <=> a <= b * 2^d
  <2>1. CASE d = 0
    <3>1. 2^0 = 1
      OBVIOUS
    <3>2. e + d = e /\ e - (e + d) = 0 /\ e >= e + d
      BY <2>1
    <3>3. N!LeqAt(a, e, b, e + d) <=> a * 1 <= b
      BY <3>1, <3>2 DEF N!LeqAt
    <3>4. b * 2^d = b
      BY <2>1, <3>1
    <3>5. QED
      BY <3>3, <3>4
  <2>2. CASE d # 0
    <3>1. ~ (e >= e + d) /\ (e + d) - e = d
      BY <2>2
    <3>2. QED
      BY <3>1 DEF N!LeqAt
  <2>3. QED
    BY <2>1, <2>2
<1>3. QED
  BY <1>1, <1>2

LEMMA Doubled ==
  ASSUME NEW s \in Int, NEW h \in Int
  PROVE  /\ (2 * h) * s = 2 * (h * s) /\ h * s \in Int
         /\ (2 * s + 1) * h = 2 * (h * s) + h
         /\ (2 * s - 1) * h = 2 * (h * s) - h
         /\ (2 * s + 3) * h = 2 * (h * s) + 3 * h
OBVIOUS

(* Rounding a finite wide value goes to a nearest magnitude, and on a tie to *)
(* an even one: within a binade, into the next one, and to infinity.         *)
LEMMA NearestMagnitude ==
  ASSUME NEW u \in N!Patterns, NEW low \in 0 .. Lows - 1,
         NEW w, w = bf16_to_f32(u) + low, N!Field(u) # N!ExpOnes
  PROVE  LET r == N!Magnitude(u) + (IF RoundsUp(u, low) THEN 1 ELSE 0)
         IN /\ r \in 0 .. N!PosInf
            /\ N!RoundsTo(W!Significand(w), W!Exponent(w), r)
<1>1. PICK n : n = N!Magnitude(u)
  OBVIOUS
<1>2. n \in 0 .. N!PosInf - 1 /\ n \in Nat /\ N!PosInf \in Nat
  <2>1. PICK field \in 0 .. Fields - 2, man \in 0 .. Mantissas - 1 : n = (Mantissas * field) + man
    <3>1. N!Field(u) \in 0 .. Fields - 1 /\ N!Field(u) # Fields - 1 /\ Fields \in Nat
      BY NarrowPattern, Sizes
    <3>2. N!Field(u) \in 0 .. Fields - 2
      BY <3>1
    <3>3. QED
      BY <1>1, <3>2, NarrowPattern
  <2>2. /\ Fields \in Nat /\ Fields >= 4 /\ Mantissas \in Nat
        /\ N!PosInf = (Fields - 1) * Mantissas
    BY Sizes
  <2>3. Mantissas * field <= Mantissas * (Fields - 2) /\ Mantissas * field \in Nat
    BY <2>2
  <2>4. Mantissas * (Fields - 2) = N!PosInf - Mantissas
    BY <2>2
  <2>5. N!PosInf \in Int
    BY <2>2
  <2>6. QED
    BY <2>1, <2>2, <2>3, <2>4, <2>5
<1>3. PICK sig \in Nat, e \in Int : sig = N!Significand(u) /\ e = N!Exponent(u)
  BY NarrowValue
<1>4. N!Significand(n) = sig /\ N!Exponent(n) = e /\ n % 2 = u % 2
  BY <1>1, <1>3, MagnitudePattern
<1>5. PICK L \in Nat : L = LowBits /\ L >= 1
  BY WidthAssumption
<1>6. PICK h \in Nat \ {0} : h = 2^(L - 1) /\ Lows = 2 * h
  BY <1>5, Sizes
<1>7. PICK x \in Int : x = e - L
  OBVIOUS
<1>8. PICK num \in Nat : num = (Lows * sig) + low
  BY <1>6
<1>9. W!Significand(w) = num /\ W!Exponent(w) = x
  BY <1>3, <1>5, <1>7, <1>8, Widened
<1>10. PICK hs \in Nat : hs = h * sig
  BY <1>6
<1>11. num = 2 * hs + low
  <2>1. (2 * h) * sig = 2 * hs
    BY <1>10, Doubled
  <2>2. QED
    BY <1>6, <1>8, <2>1
<1>12. \A a \in Int : /\ N!LeqAt(num, x, a, e - 1) <=> num <= a * h
                      /\ N!LeqAt(a, e - 1, num, x) <=> a * h <= num
  <2>1. e - 1 = x + (L - 1) /\ L - 1 \in Nat /\ 2^(L - 1) \in Nat
    BY <1>5, <1>6, <1>7
  <2>2. QED
    BY <1>6, <2>1, Aligned
<1>13. 2 * sig + 1 \in Int /\ (2 * sig + 1) * h = 2 * hs + h
  BY <1>6, <1>10, Doubled
<1>14. CASE ~ RoundsUp(u, low)
  <2>1. low <= h /\ (n % 2 = 1 => low < h)
    <3>1. low \in Int /\ h \in Int
      BY <1>6
    <3>2. QED
      BY <1>4, <1>5, <1>6, <1>14, <3>1 DEF RoundsUp
  <2>2. n % 2 = 0 => N!LeqAt(num, x, 2 * sig + 1, e - 1)
    BY <1>6, <1>11, <1>12, <1>13, <2>1
  <2>3. n % 2 # 0 => ~ N!LeqAt(2 * sig + 1, e - 1, num, x)
    <3>1. n % 2 # 0 => n % 2 = 1
      BY <1>2
    <3>2. QED
      BY <1>6, <1>11, <1>12, <1>13, <2>1, <3>1
  <2>4. ASSUME n # 0
        PROVE  /\ N!LeqAt(2 * N!Significand(n - 1) + 1, N!Exponent(n - 1) - 1, num, x)
               /\ ~ N!LeqAt(num, x, 2 * N!Significand(n - 1) + 1, N!Exponent(n - 1) - 1)
    <3>1. n - 1 \in 0 .. N!PosInf - 1 /\ (n - 1) + 1 = n
      BY <1>2, <2>4
    <3>2. PICK s \in Nat, b \in Int : s = N!Significand(n - 1) /\ b = N!Exponent(n - 1)
      BY <3>1, NextMagnitude, NarrowValue
    <3>3. \/ sig = s + 1 /\ e = b
          \/ sig = Mantissas /\ e = b + 1 /\ s = 2 * Mantissas - 1
      BY <1>4, <3>1, <3>2, NextMagnitude
    <3>4. CASE sig = s + 1 /\ e = b
      <4>1. 2 * s + 1 = 2 * sig - 1 /\ 2 * sig - 1 \in Int /\ (2 * sig - 1) * h = 2 * hs - h
        BY <1>6, <1>10, <3>4, Doubled
      <4>2. QED
        BY <1>6, <1>11, <1>12, <3>2, <3>4, <4>1
    <3>5. CASE sig = Mantissas /\ e = b + 1 /\ s = 2 * Mantissas - 1
      <4>1. 2 * s + 1 = 4 * sig - 1 /\ 4 * sig - 1 \in Int /\ b - 1 = e - 2
        BY <3>5
      <4>2. CASE L = 1
        <5>1. h = 1
          <6>1. L - 1 = 0 /\ 2^0 = 1
            BY <4>2
          <6>2. QED
            BY <1>6, <6>1
        <5>2. 2^1 = 2
          OBVIOUS
        <5>3. e - 2 = x - 1 /\ x = (x - 1) + 1 /\ x - 1 \in Int
          BY <1>7, <4>2
        <5>4. /\ N!LeqAt(4 * sig - 1, x - 1, num, x) <=> 4 * sig - 1 <= num * 2
              /\ N!LeqAt(num, x, 4 * sig - 1, x - 1) <=> num * 2 <= 4 * sig - 1
          <6>1. PICK y \in Int, two \in Nat : y = x - 1 /\ two = 2^L /\ two = 2 /\ x = y + L
            BY <4>2, <5>2, <5>3
          <6>2. 2^L \in Nat /\ 4 * sig - 1 \in Int /\ num \in Int
            BY <4>1, <6>1
          <6>3. /\ N!LeqAt(4 * sig - 1, y, num, y + L) <=> 4 * sig - 1 <= num * 2^L
                /\ N!LeqAt(num, y + L, 4 * sig - 1, y) <=> num * 2^L <= 4 * sig - 1
            BY <6>2, Aligned
          <6>4. QED
            BY <6>1, <6>3
        <5>5. hs = sig
          BY <1>10, <5>1
        <5>6. QED
          BY <1>11, <3>2, <4>1, <5>3, <5>4, <5>5
      <4>3. CASE L # 1
        <5>1. L - 2 \in Nat /\ e - 2 = x + (L - 2)
          BY <1>5, <1>7, <4>3
        <5>2. PICK g \in Nat \ {0} : g = 2^(L - 2) /\ h = 2 * g
          <6>1. /\ 1 \in 0 .. ExpBits + ManBits + LowBits
                /\ L - 2 \in 0 .. (ExpBits + ManBits + LowBits) - 1
                /\ L - 2 \in 0 .. ExpBits + ManBits + LowBits
                /\ 1 + (L - 2) = L - 1
            BY <1>5, <5>1, WidthAssumption
          <6>2. 2^(1 + (L - 2)) = 2^1 * 2^(L - 2) /\ 2^(L - 2) \in Nat \ {0}
            BY <6>1, WidthPowers DEF PowersOfTwo
          <6>3. 2^1 = 2
            OBVIOUS
          <6>4. QED
            BY <1>6, <6>1, <6>2, <6>3
        <5>3. /\ N!LeqAt(4 * sig - 1, e - 2, num, x) <=> (4 * sig - 1) * g <= num
              /\ N!LeqAt(num, x, 4 * sig - 1, e - 2) <=> num <= (4 * sig - 1) * g
          <6>1. PICK d \in Nat : d = L - 2 /\ e - 2 = x + d /\ 2^d = g
            BY <5>1, <5>2
          <6>2. /\ N!LeqAt(4 * sig - 1, x + d, num, x) <=> (4 * sig - 1) * 2^d <= num
                /\ N!LeqAt(num, x, 4 * sig - 1, x + d) <=> num <= (4 * sig - 1) * 2^d
            <7>1. PICK a \in Int : a = 4 * sig - 1
              BY <4>1
            <7>2. num \in Int /\ 2^d \in Nat
              BY <5>2, <6>1
            <7>3. N!LeqAt(a, x + d, num, x) <=> a * 2^d <= num
              BY <7>2, Aligned
            <7>4. N!LeqAt(num, x, a, x + d) <=> num <= a * 2^d
              BY <7>2, Aligned
            <7>5. QED
              BY <7>1, <7>3, <7>4
          <6>3. QED
            BY <6>1, <6>2, Zenon
        <5>4. (4 * sig - 1) * g = 2 * hs - g
          BY <1>10, <5>2
        <5>5. QED
          BY <1>11, <3>2, <4>1, <5>2, <5>3, <5>4
      <4>4. QED
        BY <4>2, <4>3
    <3>6. QED
      BY <3>3, <3>4, <3>5
  <2>5. N!RoundsTo(num, x, n)
    BY <1>2, <1>4, <2>2, <2>3, <2>4 DEF N!RoundsTo, N!LessAt
  <2>6. N!Magnitude(u) + (IF RoundsUp(u, low) THEN 1 ELSE 0) = n
    BY <1>1, <1>2, <1>14
  <2>7. QED
    BY <1>2, <1>9, <2>5, <2>6
<1>15. CASE RoundsUp(u, low)
  <2>1. low >= h /\ (n % 2 = 0 => low > h)
    <3>1. low \in Int /\ h \in Int
      BY <1>6
    <3>2. QED
      BY <1>4, <1>5, <1>6, <1>15, <3>1 DEF RoundsUp
  <2>2. PICK r \in Nat : /\ r = n + 1 /\ r - 1 = n /\ r \in 1 .. N!PosInf
                         /\ r % 2 = 0 \/ n % 2 = 0
    BY <1>2
  <2>3. N!LeqAt(2 * sig + 1, e - 1, num, x)
    BY <1>6, <1>11, <1>12, <1>13, <2>1
  <2>4. n % 2 = 0 => ~ N!LeqAt(num, x, 2 * sig + 1, e - 1)
    BY <1>6, <1>11, <1>12, <1>13, <2>1
  <2>5. /\ N!LeqAt(num, x, 2 * N!Significand(r) + 1, N!Exponent(r) - 1)
        /\ ~ N!LeqAt(2 * N!Significand(r) + 1, N!Exponent(r) - 1, num, x)
    <3>1. \/ N!Significand(r) = sig + 1 /\ N!Exponent(r) = e
          \/ N!Significand(r) = Mantissas /\ N!Exponent(r) = e + 1 /\ sig = 2 * Mantissas - 1
      BY <1>2, <1>4, <2>2, NextMagnitude
    <3>2. CASE N!Significand(r) = sig + 1 /\ N!Exponent(r) = e
      <4>1. 2 * (sig + 1) + 1 = 2 * sig + 3 /\ 2 * sig + 3 \in Int
            /\ (2 * sig + 3) * h = 2 * hs + 3 * h
        BY <1>6, <1>10, Doubled
      <4>2. QED
        BY <1>6, <1>11, <1>12, <3>2, <4>1
    <3>3. CASE N!Significand(r) = Mantissas /\ N!Exponent(r) = e + 1 /\ sig = 2 * Mantissas - 1
      <4>1. Mantissas \in Nat /\ 2 * Mantissas + 1 = sig + 2 /\ (e + 1) - 1 = x + L
        BY <1>5, <1>7, <3>3, Sizes
      <4>2. 2^L = 2 * h /\ 2 * h \in Nat
        BY <1>5, <1>6 DEF Lows
      <4>3. /\ N!LeqAt(num, x, sig + 2, x + L) <=> num <= (sig + 2) * (2 * h)
            /\ N!LeqAt(sig + 2, x + L, num, x) <=> (sig + 2) * (2 * h) <= num
        <5>1. 2^L \in Nat /\ sig + 2 \in Int
          BY <4>2
        <5>2. /\ N!LeqAt(num, x, sig + 2, x + L) <=> num <= (sig + 2) * 2^L
              /\ N!LeqAt(sig + 2, x + L, num, x) <=> (sig + 2) * 2^L <= num
          <6>1. PICK a \in Int : a = sig + 2
            BY <5>1
          <6>2. N!LeqAt(num, x, a, x + L) <=> num <= a * 2^L
            BY <5>1, Aligned
          <6>3. N!LeqAt(a, x + L, num, x) <=> a * 2^L <= num
            BY <5>1, Aligned
          <6>4. QED
            BY <6>1, <6>2, <6>3
        <5>3. QED
          BY <4>2, <5>2, Zenon
      <4>4. (sig + 2) * (2 * h) = 2 * hs + 4 * h
        BY <1>6, <1>10
      <4>5. QED
        BY <1>6, <1>11, <3>3, <4>1, <4>3, <4>4
    <3>4. QED
      BY <3>1, <3>2, <3>3
  <2>6. N!RoundsTo(num, x, r)
    BY <1>4, <2>2, <2>3, <2>4, <2>5 DEF N!RoundsTo, N!LessAt
  <2>7. N!Magnitude(u) + (IF RoundsUp(u, low) THEN 1 ELSE 0) = r
    BY <1>1, <1>15, <2>2
  <2>8. QED
    BY <1>9, <2>2, <2>6, <2>7
<1>16. QED
  BY <1>14, <1>15

(* The neighbour search of the test suite finds the same pattern: the lower  *)
(* neighbour is the narrow pattern, and the low bits are the distance to it. *)
LEMMA ReferenceAgrees ==
  ASSUME NEW u \in N!Patterns, NEW low \in 0 .. Lows - 1,
         NEW w, w = bf16_to_f32(u) + low
  PROVE  f32_to_bf16(w) = round_reference_scalar(w)
<1>1. PICK half \in Nat \ {0} : half = 2^(LowBits - 1) /\ Lows = 2 * half
  BY Sizes
<1>2. /\ u \in Int /\ low \in Int /\ w \in Int /\ w = (Lows * u) + low /\ Lows \in Nat \ {0}
      /\ u \in 0 .. 2 * N!SignMask - 1 /\ N!SignMask \in Nat \ {0}
  BY <1>1, Sizes, Widened DEF N!Patterns
<1>3. w \div 2^LowBits = u
  <2>1. w \div Lows = u
    BY <1>2, QuotientUnique
  <2>2. QED
    BY <2>1 DEF Lows
<1>4. W!Significand(w) - N!Significand(u) * 2^LowBits = low
  <2>1. PICK sig \in Nat : sig = N!Significand(u)
    BY NarrowValue
  <2>2. W!Significand(w) = (Lows * sig) + low
    BY <2>1, Widened
  <2>3. ((Lows * sig) + low) - sig * Lows = low
    BY <1>2
  <2>4. QED
    BY <2>1, <2>2, <2>3 DEF Lows
<1>5. round_reference_scalar(w) =
        IF W!IsNaN(w) THEN N!QNaN
        ELSE IF W!IsInf(w) \/ low = 0 \/ low < Lows - low THEN u
        ELSE IF Lows - low < low THEN (u + 1) % (2 * N!SignMask)
        ELSE IF u % 2 = 0 THEN u ELSE (u + 1) % (2 * N!SignMask)
  BY <1>3, <1>4, Zenon DEF round_reference_scalar, Lows
<1>6. W!IsInf(w) => low = 0
  <2>1. W!Mantissa(w) = (Lows * N!Mantissa(u)) + low /\ N!Mantissa(u) \in Nat
    BY Widened, NarrowPattern, Sizes
  <2>2. Lows * N!Mantissa(u) \in Nat
    BY <1>2, <2>1
  <2>3. QED
    BY <2>1, <2>2 DEF W!IsInf
<1>7. u % (2 * N!SignMask) = u
  BY <1>2
<1>8. (u + 0) % (2 * N!SignMask) = u
  BY <1>2, <1>7
<1>9. CASE RoundsUp(u, low)
  <2>1. low > half \/ (low = half /\ u % 2 = 1)
    BY <1>1, <1>9 DEF RoundsUp
  <2>2. low # 0 /\ ~ (low < Lows - low) /\ (Lows - low < low \/ u % 2 # 0)
    BY <1>1, <1>2, <2>1
  <2>3. f32_to_bf16(w) = IF W!IsNaN(w) THEN N!QNaN ELSE (u + 1) % (2 * N!SignMask)
    BY <1>9, CarryRounds
  <2>4. QED
    BY <1>5, <1>6, <2>2, <2>3
<1>10. CASE ~ RoundsUp(u, low)
  <2>1. low <= half /\ (low = half => u % 2 # 1)
    BY <1>1, <1>2, <1>10 DEF RoundsUp
  <2>2. \/ low < Lows - low
        \/ ~ (Lows - low < low) /\ u % 2 = 0
    BY <1>1, <1>2, <2>1
  <2>3. f32_to_bf16(w) = IF W!IsNaN(w) THEN N!QNaN ELSE (u + 0) % (2 * N!SignMask)
    BY <1>10, CarryRounds
  <2>4. f32_to_bf16(w) = IF W!IsNaN(w) THEN N!QNaN ELSE u
    BY <1>8, <2>3
  <2>5. QED
    BY <1>5, <2>2, <2>4
<1>11. QED
  BY <1>9, <1>10

(* The sign is kept, also through the carry into infinity. *)
LEMMA RoundedSign ==
  ASSUME NEW u \in N!Patterns, NEW up \in 0 .. 1,
         N!Magnitude(u) + up \in 0 .. N!PosInf
  PROVE  LET r == (u + up) % (2 * N!SignMask)
         IN N!Sign(r) = N!Sign(u) /\ N!Magnitude(r) = N!Magnitude(u) + up
<1>1. PICK mask \in Nat \ {0} : mask = N!SignMask /\ N!PosInf \in 0 .. mask - 1
  <2>1. /\ Fields \in Nat /\ Fields >= 4 /\ Mantissas \in Nat /\ Mantissas >= 2
        /\ N!PosInf = (Fields - 1) * Mantissas /\ N!SignMask = Fields * Mantissas
        /\ N!SignMask \in Nat \ {0}
    BY Sizes
  <2>2. N!PosInf = N!SignMask - Mantissas /\ N!PosInf \in Nat
    BY <2>1
  <2>3. QED
    BY <2>1, <2>2
<1>2. PICK s \in 0 .. 1, n \in Nat :
        s = N!Sign(u) /\ n = N!Magnitude(u) + up /\ n \in 0 .. mask - 1
  BY <1>1, NarrowPattern
<1>3. u + up = (mask * s) + n
  <2>1. N!Magnitude(u) \in Int /\ u = (mask * s) + N!Magnitude(u)
    BY <1>1, <1>2, NarrowPattern, MagnitudePattern
  <2>2. mask * s \in Int
    OBVIOUS
  <2>3. QED
    BY <1>2, <2>1, <2>2
<1>4. (u + up) % (2 * mask) = (mask * s) + n
  <2>1. CASE s = 0
    BY <1>2, <1>3, <2>1
  <2>2. CASE s = 1
    BY <1>2, <1>3, <2>2
  <2>3. QED
    BY <2>1, <2>2
<1>5. ((mask * s) + n) \div mask = s /\ ((mask * s) + n) % mask = n
  <2>1. CASE s = 0
    BY <1>2, <2>1
  <2>2. CASE s = 1
    BY <1>2, <2>2
  <2>3. QED
    BY <2>1, <2>2
<1>6. QED
  BY <1>1, <1>2, <1>4, <1>5 DEF N!Sign, N!Magnitude

(* The rounding primitive rounds to nearest, ties to even, for every width   *)
(* of the formats and every wide pattern, and is the neighbour search.       *)
THEOREM RoundsToNearest == BenchSpec => []RoundingIsNearest
<1>1. ASSUME NEW u \in N!Patterns, NEW low \in 0 .. Lows - 1, NEW w, w = bf16_to_f32(u) + low,
             ~ W!IsNaN(w), ~ W!IsInf(w)
      PROVE  LET r == f32_to_bf16(w)
             IN /\ N!Sign(r) = W!Sign(w)
                /\ N!RoundsTo(W!Significand(w), W!Exponent(w), N!Magnitude(r))
  <2>1. N!Field(u) # N!ExpOnes
    <3>1. W!Field(w) # W!ExpOnes
      BY <1>1 DEF W!IsNaN, W!IsInf
    <3>2. QED
      BY <1>1, <3>1, Widened, Sizes
  <2>2. PICK up \in 0 .. 1 : up = IF RoundsUp(u, low) THEN 1 ELSE 0
    OBVIOUS
  <2>3. /\ N!Magnitude(u) + up \in 0 .. N!PosInf
        /\ N!RoundsTo(W!Significand(w), W!Exponent(w), N!Magnitude(u) + up)
    BY <1>1, <2>1, <2>2, NearestMagnitude
  <2>4. f32_to_bf16(w) = (u + up) % (2 * N!SignMask)
    BY <1>1, <2>2, CarryRounds
  <2>5. N!Sign(f32_to_bf16(w)) = N!Sign(u) /\ N!Magnitude(f32_to_bf16(w)) = N!Magnitude(u) + up
    BY <2>3, <2>4, RoundedSign
  <2>6. W!Sign(w) = N!Sign(u)
    BY <1>1, Widened
  <2>7. QED
    BY <2>3, <2>5, <2>6
<1>2. BenchInv => RoundingIsNearest
  <2> SUFFICES ASSUME BenchInv, Complete("round", 1), NEW low \in 0 .. Lows - 1
               PROVE  LET w == bf16_to_f32(line[1]) + low
                          r == f32_to_bf16(w)
                      IN /\ r = round_reference_scalar(w)
                         /\ ~ W!IsNaN(w) /\ ~ W!IsInf(w) =>
                              /\ N!Sign(r) = W!Sign(w)
                              /\ N!RoundsTo(W!Significand(w), W!Exponent(w), N!Magnitude(r))
    BY DEF RoundingIsNearest, Lows
  <2>1. line[1] \in N!Patterns
    BY DEF BenchInv, LineOf, Complete
  <2>2. QED
    BY <1>1, <2>1, ReferenceAgrees
<1>3. QED
  BY <1>2, BenchInvariant, PTL

-----------------------------------------------------------------------------
(* Rounding onto a binade's grid, as the IEEE arithmetic does.              *)

(* The powers of two grow, and are a power and its double.                  *)
LEMMA PowersGrow ==
  ASSUME NEW a \in 0 .. MaxBits, NEW b \in a .. MaxBits
  PROVE  2^a \in Nat \ {0} /\ 2^b \in Nat \ {0} /\ 2^a <= 2^b
<1>1. MaxBits \in Nat /\ b \in 0 .. MaxBits /\ b - a \in 0 .. MaxBits /\ b - a \in 0 .. MaxBits - a
  BY BitsAssumption
<1>2. 2^a \in Nat \ {0} /\ 2^b \in Nat \ {0} /\ 2^(b - a) \in Nat \ {0}
  BY <1>1, BitsAssumption DEF PowersOfTwo
<1>3. 2^(a + (b - a)) = 2^a * 2^(b - a) /\ a + (b - a) = b
  BY <1>1, BitsAssumption DEF PowersOfTwo
<1>4. PICK x \in Nat \ {0}, y \in Nat \ {0} : x = 2^a /\ y = 2^(b - a)
  BY <1>2
<1>5. x * y >= x
  BY <1>4
<1>6. QED
  BY <1>2, <1>3, <1>4, <1>5

LEMMA PowersAdd ==
  ASSUME NEW a \in Nat, NEW b \in Nat, a + b <= MaxBits
  PROVE  2^(a + b) = 2^a * 2^b /\ 2^a \in Nat \ {0} /\ 2^b \in Nat \ {0} /\ 2^(a + b) \in Nat \ {0}
<1>1. /\ a \in 0 .. MaxBits /\ b \in 0 .. MaxBits - a /\ b \in 0 .. MaxBits
      /\ a + b \in 0 .. MaxBits
  BY BitsAssumption
<1>2. QED
  BY <1>1, BitsAssumption DEF PowersOfTwo

(* A power of two is twice the one before.                                  *)
LEMMA PowerHalved ==
  ASSUME NEW n \in Nat, n >= 1, n <= MaxBits
  PROVE  2^n = 2 * 2^(n - 1) /\ 2^(n - 1) \in Nat \ {0} /\ 2^n \in Nat \ {0}
<1>1. PICK j \in Nat : j = n - 1 /\ n = j + 1 /\ j + 1 <= MaxBits
  OBVIOUS
<1>2. 2^(j + 1) = 2^j * 2^1 /\ 2^j \in Nat \ {0} /\ 2^(j + 1) \in Nat \ {0}
  <2>1. 1 \in Nat
    OBVIOUS
  <2>2. QED
    BY <1>1, <2>1, PowersAdd
<1>3. 2^1 = 2
  OBVIOUS
<1>4. PICK a \in Nat \ {0} : a = 2^j
  BY <1>2
<1>5. a * 2 = 2 * a
  OBVIOUS
<1>6. QED
  BY <1>1, <1>2, <1>3, <1>4, <1>5

(* The significand, and the exponent of its leading bit, of a number.       *)
LEMMA LeadingBit ==
  ASSUME NEW n \in 1 .. 2^MaxBits - 1
  PROVE  \E len \in 1 .. MaxBits : 2^(len - 1) <= n /\ n < 2^len
<1>1. MaxBits \in Nat /\ 2^MaxBits \in Nat \ {0} /\ 2^0 = 1
  <2>1. MaxBits \in Nat /\ MaxBits \in 0 .. MaxBits
    BY BitsAssumption
  <2>2. QED
    BY <2>1, PowersGrow
<1> DEFINE T == {len \in 0 .. MaxBits : n < 2^len}
           R == OpToRel(<, Nat)
<1>2. PICK len \in T : \A j \in T : ~ (<<j, len>> \in R)
  <2>1. T \subseteq Nat /\ T # {}
    <3>1. MaxBits \in T
      BY <1>1
    <3>2. QED
      BY <1>1, <3>1
  <2>2. IsWellFoundedOn(R, Nat)
    BY NatLessThanWellFounded
  <2>3. QED
    BY <2>1, <2>2, WFMin, Zenon
<1>3. len # 0
  <2>1. SUFFICES ASSUME len = 0 PROVE FALSE
    OBVIOUS
  <2>2. 2^len = 2^0
    BY <2>1, Zenon
  <2>3. 2^0 = 1
    OBVIOUS
  <2>4. 2^len = 1 /\ n < 2^len
    BY <1>2, <2>2, <2>3
  <2>5. QED
    BY <2>4
<1>4. len \in 1 .. MaxBits /\ len - 1 \in 0 .. MaxBits /\ n < 2^len
  <2>1. len \in 0 .. MaxBits /\ n < 2^len
    BY <1>2
  <2>2. len \in 1 .. MaxBits /\ len - 1 \in 0 .. MaxBits
    BY <1>1, <1>3, <2>1
  <2>3. QED
    BY <2>1, <2>2
<1>5. len - 1 \notin T
  <2>1. len - 1 \in Nat /\ len \in Nat /\ len - 1 < len
    BY <1>1, <1>4
  <2>2. <<len - 1, len>> \in R
    BY <2>1 DEF OpToRel
  <2>3. QED
    BY <1>2, <2>2
<1>6. 2^(len - 1) \in Nat
  BY <1>1, <1>4, PowersGrow
<1>7. 2^(len - 1) <= n
  BY <1>4, <1>5, <1>6
<1>8. QED
  BY <1>4, <1>7

LEMMA Quotient ==
  ASSUME NEW n \in Nat, NEW d \in Nat \ {0}
  PROVE  n \div d \in Nat /\ n % d \in 0 .. d - 1
<1>1. n \in Int /\ n = (d * (n \div d)) + (n % d) /\ n \div d \in Int /\ n % d \in 0 .. d - 1
  BY Division
<1>2. PICK q \in Int, r \in 0 .. d - 1 : q = n \div d /\ r = n % d /\ n = (d * q) + r
  BY <1>1
<1>3. q >= 0
  <2>1. SUFFICES ASSUME q <= -1 PROVE FALSE
    BY <1>2
  <2>2. d * q <= d * (-1)
    BY <2>1
  <2>3. QED
    BY <1>2, <2>2
<1>4. QED
  BY <1>2, <1>3

(* A number rounded onto a grid of its binade, or of the lowest one.        *)
LEMMA OnGrid ==
  ASSUME NEW num \in Nat, NEW bits \in Int, bits >= 1, bits <= MaxBits, NEW m \in 0 .. MaxBits,
         NEW low \in Int, NEW e \in Int, e >= low - MaxBits,
         NEW grid, grid = IF e + bits - 1 - m > low THEN e + bits - 1 - m ELSE low
  PROVE  (grid - low) * 2^m + (IF e >= grid THEN num * 2^(e - grid)
                               ELSE W!RoundedQuotient(num, 2^(grid - e))) \in Nat
<1>1. MaxBits \in Nat
  BY BitsAssumption
<1>2. /\ grid \in Int /\ grid >= low /\ grid >= e + bits - 1 - m
      /\ grid = low \/ grid = e + bits - 1 - m
  BY <1>1
<1> DEFINE sig == IF e >= grid THEN num * 2^(e - grid)
                  ELSE W!RoundedQuotient(num, 2^(grid - e))
<1>3. sig \in Nat
  <2>1. CASE e >= grid
    <3>1. e - grid \in 0 .. MaxBits
      BY <1>1, <1>2, <2>1
    <3>2. 2^(e - grid) \in Nat
      BY <3>1, PowersGrow, <1>1
    <3>3. num * 2^(e - grid) \in Nat
      BY <3>2
    <3>4. QED
      BY <2>1, <3>3
  <2>2. CASE ~ (e >= grid)
    <3>1. grid - e \in 0 .. MaxBits
      BY <1>1, <1>2, <2>2
    <3>2. PICK d \in Nat \ {0} : d = 2^(grid - e)
      BY <1>1, <3>1, PowersGrow
    <3>3. num \div d \in Nat /\ num % d \in 0 .. d - 1
      BY Quotient
    <3>4. W!RoundedQuotient(num, d) \in Nat
      BY <3>3 DEF W!RoundedQuotient
    <3>5. QED
      BY <2>2, <3>2, <3>4
  <2>3. QED
    BY <2>1, <2>2
<1>4. PICK man \in Nat : man = 2^m
  BY <1>1, PowersGrow
<1>5. (grid - low) * man \in Nat
  <2>1. grid - low \in Nat
    BY <1>2
  <2>2. QED
    BY <2>1
<1>6. (grid - low) * man + sig \in Nat
  BY <1>3, <1>5
<1>7. QED
  BY <1>4, <1>6

(* What rounding to FP32 gives is a magnitude up to infinity; then to FP64. *)
LEMMA WideMagnitude ==
  ASSUME NEW num \in 0 .. 2^MaxBits - 1, NEW e \in Int, e >= W!MinExp - MaxBits
  PROVE  /\ W!RoundMagnitude(num, e) \in 0 .. W!PosInf
         /\ W!MinExp \in Int /\ W!PosInf \in Nat
<1>1. MaxBits \in Nat /\ ManBits + LowBits \in 0 .. MaxBits /\ 2^MaxBits \in Nat
  <2>1. MaxBits \in Nat /\ ManBits + LowBits \in 0 .. MaxBits /\ MaxBits \in 0 .. MaxBits
    BY BitsAssumption, WidthAssumption
  <2>2. QED
    BY <2>1, PowersGrow
<1>2. W!MinExp \in Int /\ W!PosInf \in Nat
  <2>1. W!Bias \in Int
    <3>1. ExpBits - 1 \in 0 .. MaxBits
      BY WidthAssumption, BitsAssumption
    <3>2. 2^(ExpBits - 1) \in Nat
      BY <3>1, BitsAssumption DEF PowersOfTwo
    <3>3. QED
      BY <3>2 DEF W!Bias
  <2>2. Fields - 1 \in Nat /\ WideMantissas \in Nat /\ W!PosInf = (Fields - 1) * WideMantissas
    BY Sizes
  <2>3. W!PosInf \in Nat
    BY <2>2
  <2>4. W!MinExp \in Int
    BY <1>1, <2>1 DEF W!MinExp
  <2>5. QED
    BY <2>3, <2>4
<1>3. CASE num = 0
  BY <1>2, <1>3 DEF W!RoundMagnitude
<1>4. CASE num # 0
  <2>1. num \in 1 .. 2^MaxBits - 1 /\ num \in Nat
    BY <1>1, <1>4
  <2>2. PICK bits \in 1 .. MaxBits : bits = W!BitLength(num)
    <3>1. \E j \in 1 .. MaxBits : 2^(j - 1) <= num /\ num < 2^j
      BY <2>1, LeadingBit
    <3>2. QED
      BY <1>4, <3>1, Zenon DEF W!BitLength
  <2>3. PICK low \in Int, m \in 0 .. MaxBits : low = W!MinExp /\ m = ManBits + LowBits
    BY <1>1, <1>2
  <2>4. PICK grid : grid = IF e + bits - 1 - m > low THEN e + bits - 1 - m ELSE low
    OBVIOUS
  <2>5. PICK n \in Nat : n = (grid - low) * 2^m + (IF e >= grid THEN num * 2^(e - grid)
                                                  ELSE W!RoundedQuotient(num, 2^(grid - e)))
    <3>1. bits \in Int /\ bits >= 1 /\ bits <= MaxBits /\ e >= low - MaxBits
      BY <1>1, <2>2, <2>3
    <3>2. QED
      BY <2>1, <2>4, <3>1, OnGrid
  <2>6. W!RoundMagnitude(num, e) = IF n > W!PosInf THEN W!PosInf ELSE n
    BY <1>4, <2>2, <2>3, <2>4, <2>5, Zenon DEF W!RoundMagnitude
  <2>7. QED
    BY <1>2, <2>6
<1>5. QED
  BY <1>2, <1>3, <1>4

LEMMA DoubleMagnitude ==
  ASSUME NEW num \in 0 .. 2^MaxBits - 1, NEW e \in Int, e >= D!MinExp - MaxBits
  PROVE  D!RoundMagnitude(num, e) \in Nat /\ D!MinExp \in Int
<1>1. MaxBits \in Nat /\ DoubleMan \in 0 .. MaxBits /\ 2^MaxBits \in Nat
  <2>1. MaxBits \in Nat /\ DoubleMan \in 0 .. MaxBits /\ MaxBits \in 0 .. MaxBits
    BY BitsAssumption, FmaAssumption
  <2>2. QED
    BY <2>1, PowersGrow
<1>2. D!MinExp \in Int /\ D!PosInf \in Nat
  <2>1. DoubleExp - 1 \in 0 .. MaxBits /\ DoubleExp \in 0 .. MaxBits
    BY FmaAssumption, BitsAssumption
  <2>2. PICK x \in Nat \ {0}, y \in Nat \ {0}, z \in Nat \ {0} :
          x = 2^(DoubleExp - 1) /\ y = 2^DoubleExp /\ z = 2^DoubleMan
    BY <1>1, <2>1, BitsAssumption DEF PowersOfTwo
  <2>3. D!MinExp \in Int
    BY <1>1, <2>2 DEF D!MinExp, D!Bias
  <2>4. (y - 1) * z \in Nat
    BY <2>2
  <2>5. QED
    BY <2>2, <2>3, <2>4 DEF D!PosInf, D!ExpOnes
<1>3. CASE num = 0
  BY <1>2, <1>3 DEF D!RoundMagnitude
<1>4. CASE num # 0
  <2>1. num \in 1 .. 2^MaxBits - 1 /\ num \in Nat
    BY <1>1, <1>4
  <2>2. PICK bits \in 1 .. MaxBits : bits = D!BitLength(num)
    <3>1. \E j \in 1 .. MaxBits : 2^(j - 1) <= num /\ num < 2^j
      BY <2>1, LeadingBit
    <3>2. QED
      BY <1>4, <3>1, Zenon DEF D!BitLength
  <2>3. PICK low \in Int, m \in 0 .. MaxBits : low = D!MinExp /\ m = DoubleMan
    BY <1>1, <1>2
  <2>4. PICK grid : grid = IF e + bits - 1 - m > low THEN e + bits - 1 - m ELSE low
    OBVIOUS
  <2>5. PICK n \in Nat : n = (grid - low) * 2^m + (IF e >= grid THEN num * 2^(e - grid)
                                                  ELSE W!RoundedQuotient(num, 2^(grid - e)))
    <3>1. bits \in Int /\ bits >= 1 /\ bits <= MaxBits /\ e >= low - MaxBits
      BY <1>1, <2>2, <2>3
    <3>2. QED
      BY <2>1, <2>4, <3>1, OnGrid
  <2>6. D!RoundedQuotient(num, 2^(grid - e)) = W!RoundedQuotient(num, 2^(grid - e))
    BY Zenon DEF D!RoundedQuotient, W!RoundedQuotient
  <2>7. D!RoundMagnitude(num, e) = IF n > D!PosInf THEN D!PosInf ELSE n
    BY <1>4, <2>2, <2>3, <2>4, <2>5, <2>6, Zenon DEF D!RoundMagnitude
  <2>8. QED
    BY <1>2, <2>7
<1>5. QED
  BY <1>2, <1>3, <1>4

-----------------------------------------------------------------------------
(* Signs.                                                                   *)

LEMMA SignApart ==
  ASSUME NEW mask \in Nat \ {0}, NEW s \in 0 .. 1, NEW n \in 0 .. mask - 1
  PROVE  /\ s * mask + n \in 0 .. 2 * mask - 1
         /\ (s * mask + n) \div mask = s /\ (s * mask + n) % mask = n
<1>1. CASE s = 0
  BY <1>1
<1>2. CASE s = 1
  BY <1>2
<1>3. QED
  BY <1>1, <1>2

(* A pattern of a sign and a magnitude, and the same one of the other sign. *)
LEMMA NarrowSigned ==
  ASSUME NEW s \in 0 .. 1, NEW n \in 0 .. N!SignMask - 1
  PROVE  LET u == N!WithSign(s, n)
         IN /\ u \in N!Patterns /\ N!Sign(u) = s /\ N!Magnitude(u) = n
            /\ N!FlipSign(u) = N!WithSign(1 - s, n) /\ 1 - s \in 0 .. 1
<1>1. N!SignMask \in Nat \ {0}
  BY Sizes
<1>2. PICK u : u = N!WithSign(s, n)
  OBVIOUS
<1>3. u \in N!Patterns /\ N!Sign(u) = s /\ N!Magnitude(u) = n
  BY <1>1, <1>2, SignApart DEF N!WithSign, N!Patterns, N!Sign, N!Magnitude
<1>4. N!FlipSign(u) = N!WithSign(1 - s, n)
  BY <1>3 DEF N!FlipSign
<1>5. 1 - s \in 0 .. 1
  OBVIOUS
<1>6. QED
  BY <1>2, <1>3, <1>4, <1>5

LEMMA WideSigned ==
  ASSUME NEW s \in 0 .. 1, NEW n \in 0 .. W!SignMask - 1
  PROVE  LET w == W!WithSign(s, n)
         IN /\ w \in W!Patterns /\ W!Sign(w) = s /\ W!Magnitude(w) = n
            /\ W!FlipSign(w) = W!WithSign(1 - s, n) /\ 1 - s \in 0 .. 1
<1>1. W!SignMask \in Nat \ {0}
  BY Sizes
<1>2. PICK w : w = W!WithSign(s, n)
  OBVIOUS
<1>3. w \in W!Patterns /\ W!Sign(w) = s /\ W!Magnitude(w) = n
  BY <1>1, <1>2, SignApart DEF W!WithSign, W!Patterns, W!Sign, W!Magnitude
<1>4. W!FlipSign(w) = W!WithSign(1 - s, n)
  BY <1>3 DEF W!FlipSign
<1>5. 1 - s \in 0 .. 1
  OBVIOUS
<1>6. QED
  BY <1>2, <1>3, <1>4, <1>5

(* The last field is that of infinity and the NaNs above it.                *)
LEMMA LastField ==
  ASSUME NEW u \in N!Patterns
  PROVE  /\ N!PosInf \in 0 .. N!SignMask - 1
         /\ N!Field(u) = N!ExpOnes <=> N!Magnitude(u) >= N!PosInf
         /\ N!IsInf(u) <=> N!Magnitude(u) = N!PosInf
         /\ N!IsNaN(u) <=> N!Magnitude(u) > N!PosInf
<1>1. /\ Fields \in Nat /\ Fields >= 4 /\ Mantissas \in Nat /\ Mantissas >= 2
      /\ N!PosInf = (Fields - 1) * Mantissas /\ N!SignMask = Fields * Mantissas
      /\ N!ExpOnes = Fields - 1
  BY Sizes
<1>2. PICK field \in 0 .. Fields - 1, man \in 0 .. Mantissas - 1 :
        /\ field = N!Field(u) /\ man = N!Mantissa(u)
        /\ N!Magnitude(u) = (Mantissas * field) + man
  BY NarrowPattern
<1>3. N!PosInf \in Nat /\ N!SignMask = N!PosInf + Mantissas
  BY <1>1
<1>4. CASE field = Fields - 1
  <2>1. N!Magnitude(u) = N!PosInf + man
    BY <1>1, <1>2, <1>4
  <2>2. QED
    BY <1>1, <1>2, <1>3, <1>4, <2>1 DEF N!IsInf, N!IsNaN
<1>5. CASE field # Fields - 1
  <2>1. field <= Fields - 2
    BY <1>1, <1>5
  <2>2. Mantissas * field <= Mantissas * (Fields - 2)
    BY <1>1, <2>1
  <2>3. Mantissas * (Fields - 2) = N!PosInf - Mantissas /\ Mantissas * field \in Nat
    BY <1>1
  <2>4. N!Magnitude(u) < N!PosInf
    BY <1>1, <1>2, <1>3, <2>2, <2>3
  <2>5. N!Magnitude(u) \in Nat
    BY <1>2, <2>3
  <2>6. QED
    BY <1>1, <1>2, <1>3, <1>5, <2>4, <2>5 DEF N!IsInf, N!IsNaN
<1>6. QED
  BY <1>4, <1>5

(* The narrow magnitude a wide one is rounded to, of either sign.           *)
Narrow(n) == n \div Lows + (IF RoundsUp(n \div Lows, n % Lows) THEN 1 ELSE 0)

LEMMA Narrowed ==
  ASSUME NEW s \in 0 .. 1, NEW n \in 0 .. W!PosInf
  PROVE  /\ Narrow(n) \in 0 .. N!PosInf
         /\ f32_to_bf16(W!WithSign(s, n)) = N!WithSign(s, Narrow(n))
<1>1. /\ Lows \in Nat \ {0} /\ N!PosInf \in Nat /\ N!SignMask \in Nat \ {0}
      /\ W!PosInf = N!PosInf * Lows /\ W!SignMask = N!SignMask * Lows
      /\ 2^(LowBits - 1) \in Nat /\ Lows = 2 * 2^(LowBits - 1)
  <2>1. /\ Fields \in Nat /\ Fields >= 4 /\ Mantissas \in Nat
        /\ N!PosInf = (Fields - 1) * Mantissas /\ N!SignMask = Fields * Mantissas
        /\ WideMantissas = Mantissas * Lows
        /\ W!PosInf = (Fields - 1) * WideMantissas /\ W!SignMask = Fields * WideMantissas
    BY Sizes
  <2>2. Lows \in Nat \ {0} /\ 2^(LowBits - 1) \in Nat /\ Lows = 2 * 2^(LowBits - 1)
    BY Sizes
  <2>3. N!SignMask \in Nat \ {0}
    BY Sizes
  <2>4. W!PosInf = N!PosInf * Lows
    BY <2>1, <2>2
  <2>5. W!SignMask = N!SignMask * Lows
    BY <2>1, <2>2
  <2>6. QED
    BY <2>1, <2>2, <2>3, <2>4, <2>5
<1>2. PICK q \in Nat, low \in 0 .. Lows - 1 :
        q = n \div Lows /\ low = n % Lows /\ n = (Lows * q) + low
  <2>1. n \in Nat /\ n \in Int
    BY <1>1
  <2>2. n = (Lows * (n \div Lows)) + (n % Lows) /\ n % Lows \in 0 .. Lows - 1
    BY <1>1, <2>1, Division
  <2>3. n \div Lows \in Nat
    BY <1>1, <2>1, Quotient
  <2>4. QED
    BY <2>2, <2>3
<1>3. q <= N!PosInf /\ (q = N!PosInf => low = 0)
  <2>1. n <= Lows * N!PosInf /\ n \in Nat
    BY <1>1
  <2>2. ASSUME q >= N!PosInf + 1 PROVE FALSE
    <3>1. Lows * q >= Lows * (N!PosInf + 1)
      BY <1>1, <2>2
    <3>2. Lows * (N!PosInf + 1) = (Lows * N!PosInf) + Lows /\ Lows * N!PosInf \in Nat
      BY <1>1
    <3>3. QED
      BY <1>1, <1>2, <2>1, <3>1, <3>2
  <2>3. ASSUME q = N!PosInf PROVE low = 0
    <3>1. Lows * q = Lows * N!PosInf /\ Lows * N!PosInf \in Nat
      BY <1>1, <2>3
    <3>2. QED
      BY <1>1, <1>2, <2>1, <3>1
  <2>4. QED
    BY <1>1, <2>2, <2>3
<1>4. N!PosInf \in 0 .. N!SignMask - 1 /\ q \in 0 .. N!SignMask - 1
  <2>1. 0 \in N!Patterns
    BY <1>1 DEF N!Patterns
  <2>2. N!PosInf \in 0 .. N!SignMask - 1
    BY <2>1, LastField
  <2>3. QED
    BY <1>1, <1>3, <2>2
<1>5. PICK u \in N!Patterns : u = N!WithSign(s, q) /\ N!Sign(u) = s /\ N!Magnitude(u) = q
  BY <1>4, NarrowSigned
<1>6. PICK w : w = bf16_to_f32(u) + low
  OBVIOUS
<1>7. w = W!WithSign(s, n)
  <2>1. u * Lows = ((s * N!SignMask) * Lows) + (q * Lows)
    BY <1>1, <1>5 DEF N!WithSign
  <2>2. (s * N!SignMask) * Lows = s * W!SignMask
    BY <1>1
  <2>3. s * W!SignMask \in Int /\ q * Lows \in Int /\ q * Lows = Lows * q
    BY <1>1
  <2>4. bf16_to_f32(u) = u * Lows
    BY DEF bf16_to_f32, Lows
  <2>5. w = (s * W!SignMask) + n
    <3>1. PICK x \in Int, y \in Int : x = s * W!SignMask /\ y = Lows * q
      BY <2>3
    <3>2. u * Lows = x + y
      BY <2>1, <2>2, <2>3, <3>1
    <3>3. w = (x + y) + low /\ n = y + low
      BY <1>2, <1>6, <2>4, <3>1, <3>2
    <3>4. QED
      BY <3>1, <3>3
  <2>6. QED
    BY <2>5 DEF W!WithSign
<1>8. PICK up \in 0 .. 1 : up = (IF RoundsUp(q, low) THEN 1 ELSE 0) /\ Narrow(n) = q + up
  BY <1>2 DEF Narrow
<1>9. RoundsUp(u, low) <=> RoundsUp(q, low)
  <2>1. u % 2 = q % 2
    BY <1>5, MagnitudePattern
  <2>2. QED
    BY <2>1 DEF RoundsUp
<1>10. Narrow(n) \in 0 .. N!PosInf
  <2>1. CASE q = N!PosInf
    <3>1. low = 0 /\ ~ RoundsUp(q, low)
      BY <1>1, <1>3, <2>1 DEF RoundsUp
    <3>2. QED
      BY <1>1, <1>8, <2>1, <3>1
  <2>2. CASE q # N!PosInf
    <3>1. q <= N!PosInf - 1
      BY <1>1, <1>3, <2>2
    <3>2. QED
      BY <1>1, <1>8, <3>1
  <2>3. QED
    BY <2>1, <2>2
<1>11. ~ W!IsNaN(w)
  <2>1. W!Field(w) = N!Field(u) /\ W!ExpOnes = N!ExpOnes /\ W!Mantissa(w) = (Lows * N!Mantissa(u)) + low
    BY <1>6, Widened, Sizes
  <2>2. CASE q = N!PosInf
    <3>1. low = 0 /\ N!IsInf(u)
      BY <1>3, <1>5, <2>2, LastField
    <3>2. N!Mantissa(u) = 0
      BY <3>1 DEF N!IsInf
    <3>3. W!Mantissa(w) = 0
      BY <1>1, <2>1, <3>1, <3>2
    <3>4. QED
      BY <3>3 DEF W!IsNaN
  <2>3. CASE q # N!PosInf
    <3>1. N!Field(u) # N!ExpOnes
      BY <1>1, <1>3, <1>5, <2>3, LastField
    <3>2. QED
      BY <2>1, <3>1 DEF W!IsNaN
  <2>4. QED
    BY <2>2, <2>3
<1>12. f32_to_bf16(w) = (u + up) % (2 * N!SignMask)
  BY <1>6, <1>8, <1>9, <1>11, CarryRounds
<1>13. u + up = s * N!SignMask + Narrow(n) /\ u + up \in 0 .. 2 * N!SignMask - 1
  <2>1. Narrow(n) \in 0 .. N!SignMask - 1
    BY <1>1, <1>4, <1>10
  <2>2. s * N!SignMask + Narrow(n) \in 0 .. 2 * N!SignMask - 1
    BY <1>1, <2>1, SignApart
  <2>3. u + up = s * N!SignMask + Narrow(n)
    <3>1. u = s * N!SignMask + q /\ s * N!SignMask \in Int
      BY <1>1, <1>5 DEF N!WithSign
    <3>2. QED
      BY <1>8, <3>1
  <2>4. QED
    BY <2>2, <2>3
<1>14. (u + up) % (2 * N!SignMask) = u + up
  BY <1>1, <1>13
<1>15. QED
  BY <1>7, <1>10, <1>12, <1>13, <1>14 DEF N!WithSign

-----------------------------------------------------------------------------
(* The table.                                                               *)

(* Every entry is a pattern without a sign.                                 *)
LEMMA TableEntry ==
  ASSUME NEW n \in 0 .. LutN - 1
  PROVE  /\ sin_lut_bf16[n] \in N!Patterns /\ N!Sign(sin_lut_bf16[n]) = 0
         /\ N!Magnitude(sin_lut_bf16[n]) \in 0 .. N!PosInf
         /\ rope_sin_rom[n] = sin_lut_bf16[n]
<1>1. Sine[n] \in 0 .. 2^MaxBits - 1 /\ -SineBits \in Int /\ -SineBits >= W!MinExp - MaxBits
  <2>1. SineBits \in 0 .. MaxBits - 1 /\ MaxBits \in Nat /\ Sine[n] \in 0 .. 2^SineBits
    BY SineAssumption, BitsAssumption DEF LutN
  <2>2. 2^SineBits \in Nat \ {0} /\ 2^(SineBits + 1) = 2^SineBits * 2
    <3>1. SineBits \in Nat /\ 1 \in Nat /\ SineBits + 1 <= MaxBits
      BY <2>1
    <3>2. 2^(SineBits + 1) = 2^SineBits * 2^1 /\ 2^SineBits \in Nat \ {0}
      BY <3>1, PowersAdd
    <3>3. 2^1 = 2
      OBVIOUS
    <3>4. QED
      BY <3>2, <3>3
  <2>3. 2^(SineBits + 1) <= 2^MaxBits /\ 2^MaxBits \in Nat
    <3>1. SineBits + 1 \in 0 .. MaxBits /\ MaxBits \in SineBits + 1 .. MaxBits
      BY <2>1
    <3>2. QED
      BY <3>1, PowersGrow
  <2>4. Sine[n] \in 0 .. 2^MaxBits - 1
    BY <2>1, <2>2, <2>3
  <2>5. W!MinExp <= 0 /\ W!MinExp \in Int
    <3>1. N!Bias \in Nat /\ W!Bias = N!Bias
      <4>1. ExpBits - 1 \in 0 .. MaxBits
        BY WidthAssumption, BitsAssumption
      <4>2. 2^(ExpBits - 1) \in Nat \ {0}
        BY <4>1, BitsAssumption DEF PowersOfTwo
      <4>3. QED
        BY <4>2 DEF N!Bias, W!Bias
    <3>2. QED
      BY <3>1, WidthAssumption DEF W!MinExp
  <2>6. QED
    BY <2>1, <2>4, <2>5
<1>2. PICK r \in 0 .. W!PosInf : r = W!RoundMagnitude(Sine[n], -SineBits)
  BY <1>1, WideMagnitude
<1>3. sin_lut_bf16[n] = N!WithSign(0, Narrow(r)) /\ Narrow(r) \in 0 .. N!PosInf
  BY <1>2, Narrowed DEF sin_lut_bf16, to_bf16
<1>4. rope_sin_rom[n] = sin_lut_bf16[n]
  BY DEF rope_sin_rom, sin_lut_bf16
<1>5. Narrow(r) \in 0 .. N!SignMask - 1
  <2>1. 0 \in N!Patterns
    BY Sizes DEF N!Patterns
  <2>2. N!PosInf \in 0 .. N!SignMask - 1 /\ N!SignMask \in Nat
    BY <2>1, LastField, Sizes
  <2>3. QED
    BY <1>3, <2>2
<1>6. QED
  BY <1>3, <1>4, <1>5, NarrowSigned

(* One lookup path answers what the golden model does.                       *)
LEMMA PathAnswers == ASSUME NEW q \in Phases PROVE path_value(q) = lut_sin(q)
<1>1. PICK i \in 0 .. LutN - 1 : i = ridx(q) /\ path_index(q) = i
  BY PathFolds
<1>2. PICK entry \in N!Patterns : /\ entry = sin_lut_bf16[i] /\ entry = rope_sin_rom[i]
                                  /\ N!Sign(entry) = 0
  BY TableEntry
<1>3. entry = N!WithSign(0, N!Magnitude(entry))
  BY <1>2, NarrowPattern, MagnitudePattern, Sizes DEF N!WithSign
<1>4. CASE negate(q)
  <2>1. path_negate(q)
    BY <1>4, PathFolds
  <2>2. path_value(q) = N!WithSign((0 + 1) % 2, N!Magnitude(entry))
    BY <1>1, <1>2, <2>1 DEF path_value, H!Bool
  <2>3. lut_sin(q) = N!WithSign(1 - 0, N!Magnitude(entry))
    BY <1>1, <1>2, <1>4 DEF lut_sin, bf16_neg, N!FlipSign
  <2>4. (0 + 1) % 2 = 1 - 0
    OBVIOUS
  <2>5. QED
    BY <2>2, <2>3, <2>4
<1>5. CASE ~ negate(q)
  <2>1. ~ path_negate(q)
    BY <1>5, PathFolds
  <2>2. path_value(q) = N!WithSign((0 + 0) % 2, N!Magnitude(entry))
    BY <1>1, <1>2, <2>1 DEF path_value, H!Bool
  <2>3. lut_sin(q) = entry
    BY <1>1, <1>2, <1>5 DEF lut_sin
  <2>4. (0 + 0) % 2 = 0
    OBVIOUS
  <2>5. QED
    BY <1>3, <2>2, <2>3, <2>4
<1>6. QED
  BY <1>4, <1>5

(* The table and its addressing in hardware and in Python fold the angle     *)
(* alike, for every width of the phase and of the table.                     *)
THEOREM LutFolds == BenchSpec => []LutFoldsTheAngle
<1>1. BenchInv => LutFoldsTheAngle
  <2> SUFFICES ASSUME BenchInv, Complete("lut", 1),
                      NEW q \in {line[1], cos_phase(line[1])}
               PROVE  /\ 2 * ridx(q) + 1 = Folded(q)
                      /\ negate(q) = SineNegative(q)
                      /\ path_value(q) = lut_sin(q)
    BY DEF LutFoldsTheAngle
  <2>1. line[1] \in Phases
    BY DEF BenchInv, LineOf, Complete
  <2>2. q \in Phases
    BY <2>1, QuarterOn
  <2>3. QED
    BY <2>2, PathAnswers, TableFolds
<1>2. QED
  BY <1>1, BenchInvariant, PTL

-----------------------------------------------------------------------------
(* The other half of the number line: the arithmetic treats the two signs    *)
(* alike.                                                                   *)

LEMMA WidePattern ==
  ASSUME NEW w \in W!Patterns
  PROVE  /\ W!Sign(w) \in 0 .. 1 /\ W!Field(w) \in 0 .. Fields - 1
         /\ W!Mantissa(w) \in 0 .. WideMantissas - 1
         /\ W!Magnitude(w) = (WideMantissas * W!Field(w)) + W!Mantissa(w)
         /\ W!Magnitude(w) \in 0 .. W!SignMask - 1
         /\ w = (W!SignMask * W!Sign(w)) + W!Magnitude(w)
<1>1. /\ Fields \in Nat \ {0} /\ WideMantissas \in Nat \ {0}
      /\ W!SignMask = Fields * WideMantissas
  BY Sizes
<1>2. w \in 0 .. (2 * (Fields * WideMantissas)) - 1
  BY <1>1 DEF W!Patterns
<1>3. PICK s \in 0 .. 1, field \in 0 .. Fields - 1, man \in 0 .. WideMantissas - 1 :
        w = ((Fields * WideMantissas) * s) + ((WideMantissas * field) + man)
  BY <1>1, <1>2, PartsExist
<1>4. w = (W!SignMask * s) + ((WideMantissas * field) + man)
  BY <1>1, <1>3
<1>5. /\ W!Sign(w) = s /\ W!Magnitude(w) = (WideMantissas * field) + man
      /\ W!Magnitude(w) \in 0 .. W!SignMask - 1
      /\ W!Field(w) = field /\ W!Mantissa(w) = man
  BY <1>4, WideParts
<1>6. QED
  BY <1>4, <1>5

(* Only the sign tells a pattern from the one of the other sign.            *)
LEMMA WideFlipped ==
  ASSUME NEW w \in W!Patterns
  PROVE  LET v == W!FlipSign(w)
         IN /\ v \in W!Patterns /\ W!Sign(v) = 1 - W!Sign(w) /\ W!Magnitude(v) = W!Magnitude(w)
            /\ W!Field(v) = W!Field(w) /\ W!Mantissa(v) = W!Mantissa(w)
            /\ W!Significand(v) = W!Significand(w) /\ W!Exponent(v) = W!Exponent(w)
            /\ W!FlipSign(v) = w
<1>0. PICK n : n = W!Magnitude(w)
  OBVIOUS
<1>1. PICK s \in 0 .. 1, field \in 0 .. Fields - 1, man \in 0 .. WideMantissas - 1 :
        /\ s = W!Sign(w) /\ field = W!Field(w) /\ man = W!Mantissa(w)
        /\ n = W!Magnitude(w) /\ n = (WideMantissas * field) + man /\ w = (W!SignMask * s) + n
  BY <1>0, WidePattern
<1>2. PICK v : v = W!FlipSign(w)
  OBVIOUS
<1>3. 1 - s \in 0 .. 1 /\ v = (W!SignMask * (1 - s)) + ((WideMantissas * field) + man)
  <2>1. (1 - s) * W!SignMask = W!SignMask * (1 - s)
    BY Sizes
  <2>2. v = ((1 - s) * W!SignMask) + n
    BY <1>1, <1>2 DEF W!FlipSign, W!WithSign
  <2>3. 1 - s \in 0 .. 1
    OBVIOUS
  <2>4. QED
    BY <1>1, <2>1, <2>2, <2>3, Zenon
<1>4. /\ v \in W!Patterns /\ W!Sign(v) = 1 - s /\ W!Magnitude(v) = (WideMantissas * field) + man
      /\ W!Field(v) = field /\ W!Mantissa(v) = man
  BY <1>3, WideParts
<1>5. W!Significand(v) = W!Significand(w) /\ W!Exponent(v) = W!Exponent(w)
  BY <1>1, <1>4 DEF W!Significand, W!Exponent
<1>6. W!FlipSign(v) = w
  <2>1. W!FlipSign(v) = (s * W!SignMask) + n
    <3>1. W!Sign(v) = 1 - s /\ W!Magnitude(v) = n
      BY <1>1, <1>4
    <3>2. W!FlipSign(v) = ((1 - (1 - s)) * W!SignMask) + n
      BY <3>1, Zenon DEF W!FlipSign, W!WithSign
    <3>3. 1 - (1 - s) = s
      OBVIOUS
    <3>4. QED
      BY <3>2, <3>3, Zenon
  <2>2. s * W!SignMask = W!SignMask * s
    BY Sizes
  <2>3. QED
    BY <1>1, <2>1, <2>2, Zenon
<1>7. QED
  BY <1>1, <1>2, <1>4, <1>5, <1>6

(* The value of a finite wide pattern.                                      *)
LEMMA WideValue ==
  ASSUME NEW w \in W!Patterns, W!Field(w) # W!ExpOnes
  PROVE  /\ W!Significand(w) \in 0 .. 2 * WideMantissas - 1
         /\ W!Exponent(w) \in W!MinExp .. W!MinExp + (Fields - 3)
         /\ W!MinExp \in Int /\ W!MinExp >= - MaxBits /\ W!MinExp <= 0
<1>1. /\ Fields \in Nat /\ Fields >= 4 /\ WideMantissas \in Nat /\ W!ExpOnes = Fields - 1
  BY Sizes
<1>2. W!Field(w) \in 0 .. Fields - 2 /\ W!Mantissa(w) \in 0 .. WideMantissas - 1
  BY <1>1, WidePattern
<1>3. PICK bias \in Nat : bias = W!Bias /\ 2 * bias = Fields - 2
  <2>1. ExpBits \in Nat /\ ExpBits >= 1 /\ ExpBits <= MaxBits
    BY WidthAssumption, BitsAssumption
  <2>2. Fields = 2 * 2^(ExpBits - 1) /\ 2^(ExpBits - 1) \in Nat \ {0}
    BY <2>1, PowerHalved DEF Fields
  <2>3. W!Bias = 2^(ExpBits - 1) - 1
    BY DEF W!Bias
  <2>4. QED
    BY <2>2, <2>3
<1>4. W!MinExp = 1 - bias - (ManBits + LowBits) /\ ManBits \in Nat /\ LowBits \in Nat
  BY <1>3, WidthAssumption DEF W!MinExp
<1>5. W!Significand(w) \in 0 .. 2 * WideMantissas - 1
  <2>1. W!Significand(w) = IF W!Field(w) = 0 THEN W!Mantissa(w) ELSE WideMantissas + W!Mantissa(w)
    BY DEF W!Significand, WideMantissas
  <2>2. QED
    BY <1>1, <1>2, <2>1
<1>6. W!Exponent(w) \in W!MinExp .. W!MinExp + (Fields - 3)
  <2>1. W!Exponent(w) = (IF W!Field(w) = 0 THEN 1 ELSE W!Field(w)) - bias - (ManBits + LowBits)
    BY <1>3 DEF W!Exponent
  <2>2. QED
    BY <1>1, <1>2, <1>4, <2>1
<1>7. W!MinExp >= - MaxBits /\ W!MinExp <= 0
  <2>1. ManBits + LowBits + Fields <= MaxBits /\ ManBits >= 1 /\ LowBits >= 1
    BY BitsAssumption, WidthAssumption, <1>1, <1>4 DEF Fields
  <2>2. MaxBits \in Nat
    BY BitsAssumption
  <2>3. QED
    BY <1>1, <1>3, <1>4, <2>1, <2>2
<1>8. QED
  BY <1>1, <1>3, <1>4, <1>5, <1>6, <1>7

(* Two results of a rounded operation, and of the operation on the other     *)
(* signs: opposite, or both not numbers; or the zero of an exact sum.        *)
Opposite(v, w) ==
  \/ v = W!QNaN /\ w = W!QNaN
  \/ \E s \in 0 .. 1, n \in 0 .. W!PosInf : v = W!WithSign(s, n) /\ w = W!WithSign(1 - s, n)
Alike(v, w) == Opposite(v, w) \/ (v = W!WithSign(0, 0) /\ w = W!WithSign(0, 0))

LEMMA ProductFlips ==
  ASSUME NEW a \in W!Patterns, NEW b \in W!Patterns
  PROVE  Opposite(W!IeeeMul(a, b), W!IeeeMul(a, W!FlipSign(b)))
<1>1. PICK b2 \in W!Patterns :
        /\ b2 = W!FlipSign(b) /\ W!Sign(b2) = 1 - W!Sign(b) /\ W!Magnitude(b2) = W!Magnitude(b)
        /\ W!Field(b2) = W!Field(b) /\ W!Mantissa(b2) = W!Mantissa(b)
        /\ W!Significand(b2) = W!Significand(b) /\ W!Exponent(b2) = W!Exponent(b)
  BY WideFlipped
<1>2. PICK s \in 0 .. 1 : s = (W!Sign(a) + W!Sign(b)) % 2 /\ 1 - s = (W!Sign(a) + W!Sign(b2)) % 2
  BY <1>1, WidePattern
<1>3. /\ W!IsNaN(b2) <=> W!IsNaN(b)
      /\ W!IsInf(b2) <=> W!IsInf(b)
      /\ W!IsZero(b2) <=> W!IsZero(b)
  BY <1>1 DEF W!IsNaN, W!IsInf, W!IsZero
<1>4. W!PosInf \in Nat
  <2>1. Fields - 1 \in Nat /\ WideMantissas \in Nat /\ W!PosInf = (Fields - 1) * WideMantissas
    BY Sizes
  <2>2. QED
    BY <2>1
<1>5. CASE \/ W!IsNaN(a) \/ W!IsNaN(b)
           \/ (W!IsInf(a) /\ W!IsZero(b)) \/ (W!IsZero(a) /\ W!IsInf(b))
  <2>1. W!IeeeMul(a, b) = W!QNaN
    BY <1>5 DEF W!IeeeMul
  <2>2. W!IeeeMul(a, b2) = W!QNaN
    BY <1>3, <1>5 DEF W!IeeeMul
  <2>3. QED
    BY <1>1, <2>1, <2>2 DEF Opposite
<1>6. CASE ~ (\/ W!IsNaN(a) \/ W!IsNaN(b)
              \/ (W!IsInf(a) /\ W!IsZero(b)) \/ (W!IsZero(a) /\ W!IsInf(b)))
  <2>1. CASE W!IsInf(a) \/ W!IsInf(b)
    <3>1. W!IeeeMul(a, b) = W!WithSign(s, W!PosInf)
      BY <1>2, <1>6, <2>1 DEF W!IeeeMul
    <3>2. W!IeeeMul(a, b2) = W!WithSign(1 - s, W!PosInf)
      BY <1>2, <1>3, <1>6, <2>1 DEF W!IeeeMul
    <3>3. W!PosInf \in 0 .. W!PosInf
      BY <1>4
    <3>4. QED
      BY <1>1, <3>1, <3>2, <3>3 DEF Opposite
  <2>2. CASE ~ (W!IsInf(a) \/ W!IsInf(b))
    <3>1. W!Field(a) # W!ExpOnes /\ W!Field(b) # W!ExpOnes
      BY <1>6, <2>2 DEF W!IsNaN, W!IsInf
    <3>2. W!Significand(a) * W!Significand(b) \in 0 .. 2^MaxBits - 1
      <4>1. PICK m \in Nat \ {0} : m = 2 * WideMantissas
        BY Sizes
      <4>2. W!Significand(a) \in 0 .. m - 1 /\ W!Significand(b) \in 0 .. m - 1
        BY <3>1, <4>1, WideValue
      <4>3. PICK x \in 0 .. m - 1, y \in 0 .. m - 1 : x = W!Significand(a) /\ y = W!Significand(b)
        BY <4>2
      <4>4. x * y \in Nat /\ x * y < m * m
        <5>1. x * y \in Nat /\ x * y <= x * m
          OBVIOUS
        <5>2. x * m <= (m - 1) * m
          OBVIOUS
        <5>3. (m - 1) * m < m * m
          OBVIOUS
        <5>4. x * m \in Int /\ (m - 1) * m \in Int /\ m * m \in Int
          OBVIOUS
        <5>5. QED
          BY <5>1, <5>2, <5>3, <5>4
      <4>5. m * m <= 2^MaxBits /\ 2^MaxBits \in Nat /\ m * m \in Nat
        <5>1. PICK bits \in Nat : bits = ManBits + LowBits + 1 /\ bits + bits <= MaxBits
          BY WidthAssumption, BitsAssumption
        <5>2. m = 2^bits
          <6>1. ManBits + LowBits \in Nat /\ 1 \in Nat /\ (ManBits + LowBits) + 1 <= MaxBits
            BY <5>1, WidthAssumption, BitsAssumption
          <6>2. 2^((ManBits + LowBits) + 1) = 2^(ManBits + LowBits) * 2^1
            BY <6>1, PowersAdd
          <6>3. 2^1 = 2
            OBVIOUS
          <6>4. bits = (ManBits + LowBits) + 1
            BY <5>1, WidthAssumption
          <6>5. QED
            BY <4>1, <6>2, <6>3, <6>4, Sizes DEF WideMantissas
        <5>3. 2^(bits + bits) = m * m
          BY <5>1, <5>2, PowersAdd
        <5>4. bits + bits \in 0 .. MaxBits /\ MaxBits \in bits + bits .. MaxBits
          BY <5>1, BitsAssumption
        <5>5. 2^(bits + bits) <= 2^MaxBits /\ 2^MaxBits \in Nat
          BY <5>4, PowersGrow
        <5>6. QED
          BY <5>3, <5>5
      <4>6. QED
        BY <4>3, <4>4, <4>5
    <3>3. W!Exponent(a) + W!Exponent(b) \in Int /\ W!Exponent(a) + W!Exponent(b) >= W!MinExp - MaxBits
      <4>1. /\ W!Exponent(a) \in Int /\ W!Exponent(a) >= W!MinExp
            /\ W!Exponent(b) \in Int /\ W!Exponent(b) >= W!MinExp
            /\ W!MinExp \in Int /\ W!MinExp >= - MaxBits
        BY <3>1, WideValue
      <4>2. MaxBits \in Nat
        BY BitsAssumption
      <4>3. QED
        BY <4>1, <4>2
    <3>4. PICK n \in 0 .. W!PosInf :
            n = W!RoundMagnitude(W!Significand(a) * W!Significand(b), W!Exponent(a) + W!Exponent(b))
      BY <3>2, <3>3, WideMagnitude
    <3>5. W!IeeeMul(a, b) = W!WithSign(s, n)
      BY <1>2, <1>6, <2>2, <3>4 DEF W!IeeeMul
    <3>6. W!IeeeMul(a, b2) = W!WithSign(1 - s, n)
      BY <1>1, <1>2, <1>3, <1>6, <2>2, <3>4 DEF W!IeeeMul
    <3>7. QED
      BY <1>1, <3>5, <3>6 DEF Opposite
  <2>3. QED
    BY <2>1, <2>2
<1>7. QED
  BY <1>5, <1>6

(* A sum of two significands aligned at the smaller exponent.               *)
LEMMA SumFlips ==
  ASSUME NEW s1 \in 0 .. 1, NEW s2 \in 0 .. 1,
         NEW n1 \in 0 .. 2 * WideMantissas - 1, NEW n2 \in 0 .. 2 * WideMantissas - 1,
         NEW e1 \in W!MinExp .. W!MinExp + (Fields - 3),
         NEW e2 \in W!MinExp .. W!MinExp + (Fields - 3), W!MinExp \in Int
  PROVE  LET t == W!SumOf(s1, n1, e1, s2, n2, e2)
             o == W!SumOf(1 - s1, n1, e1, 1 - s2, n2, e2)
         IN /\ t.num \in 0 .. 2^MaxBits - 1 /\ t.exp \in Int /\ t.exp >= W!MinExp
            /\ t.sign \in 0 .. 1
            /\ o.num = t.num /\ o.exp = t.exp
            /\ t.num # 0 => o.sign = 1 - t.sign
<1>1. PICK low \in Int : low = (IF e1 < e2 THEN e1 ELSE e2)
  OBVIOUS
<1>2. Fields \in Nat /\ Fields >= 4 /\ WideMantissas \in Nat \ {0}
  BY Sizes
<1>3. /\ e1 \in Int /\ e2 \in Int /\ low >= W!MinExp
      /\ e1 - low \in 0 .. Fields - 3 /\ e2 - low \in 0 .. Fields - 3
  BY <1>1, <1>2
<1>4. PICK span \in Nat \ {0} :
        /\ span = 2^(Fields - 3)
        /\ \A d \in 0 .. Fields - 3 : 2^d \in 1 .. span
        /\ (4 * WideMantissas) * span <= 2^MaxBits /\ 2^MaxBits \in Nat
  <2>1. PICK f \in Nat, m \in Nat : f = Fields - 3 /\ m = ManBits + LowBits /\ m + 2 + f <= MaxBits
    <3>1. Fields + ManBits + LowBits <= MaxBits /\ ManBits \in Nat /\ LowBits \in Nat
      BY BitsAssumption, WidthAssumption DEF Fields
    <3>2. MaxBits \in Nat
      BY BitsAssumption
    <3>3. QED
      BY <1>2, <3>1, <3>2
  <2>2. MaxBits \in Nat /\ f \in 0 .. MaxBits
    BY <2>1, BitsAssumption
  <2>3. 2^f \in Nat \ {0}
    BY <2>2, PowersGrow
  <2>4. ASSUME NEW d \in 0 .. f PROVE 2^d \in 1 .. 2^f
    <3>1. d \in 0 .. MaxBits /\ f \in d .. MaxBits
      BY <2>2
    <3>2. QED
      BY <3>1, PowersGrow
  <2>5. (4 * WideMantissas) * 2^f = 2^((m + 2) + f)
    <3>1. 2^(m + 2) = 2^m * 2^2 /\ 2^m \in Nat \ {0}
      <4>1. m + 2 <= MaxBits /\ 2 \in Nat
        BY <2>1, <2>2
      <4>2. QED
        BY <4>1, PowersAdd
    <3>2. 2^2 = 4
      OBVIOUS
    <3>3. 2^(m + 2) = 4 * WideMantissas
      BY <2>1, <3>1, <3>2 DEF WideMantissas
    <3>4. m + 2 \in Nat
      BY <2>1
    <3>5. 2^((m + 2) + f) = 2^(m + 2) * 2^f
      BY <2>1, <3>4, PowersAdd
    <3>6. QED
      BY <3>3, <3>5, Zenon
  <2>6. (m + 2) + f \in 0 .. MaxBits /\ MaxBits \in (m + 2) + f .. MaxBits
    BY <2>1, <2>2
  <2>7. 2^((m + 2) + f) <= 2^MaxBits /\ 2^MaxBits \in Nat
    BY <2>6, PowersGrow
  <2>8. QED
    BY <2>1, <2>3, <2>4, <2>5, <2>7
<1>5. PICK p1 \in 1 .. span, p2 \in 1 .. span : p1 = 2^(e1 - low) /\ p2 = 2^(e2 - low)
  BY <1>3, <1>4
<1>6. PICK x1 \in Nat, x2 \in Nat :
        /\ x1 = n1 * p1 /\ x2 = n2 * p2 /\ x1 + x2 \in 0 .. 2^MaxBits - 1
        /\ (-n1) * p1 = -x1 /\ (-n2) * p2 = -x2
  <2>1. PICK m \in Nat \ {0} : m = 2 * WideMantissas
    BY <1>2
  <2>2. n1 \in 0 .. m - 1 /\ n2 \in 0 .. m - 1 /\ p1 \in Nat /\ p2 \in Nat
    BY <1>4, <1>5, <2>1
  <2>3. n1 * p1 \in Nat /\ n2 * p2 \in Nat /\ (-n1) * p1 = -(n1 * p1) /\ (-n2) * p2 = -(n2 * p2)
    BY <2>2
  <2>4. ASSUME NEW n \in 0 .. m - 1, NEW p \in 1 .. span PROVE n * p <= m * span - span
    <3>1. n * p <= n * span
      BY <1>4
    <3>2. n * span <= (m - 1) * span
      BY <1>4
    <3>3. (m - 1) * span = m * span - span
      BY <1>4
    <3>4. n * p \in Int /\ n * span \in Int /\ m * span \in Int
      BY <1>4
    <3>5. QED
      BY <1>4, <3>1, <3>2, <3>3, <3>4
  <2>5. n1 * p1 <= m * span - span /\ n2 * p2 <= m * span - span
    BY <2>2, <2>4
  <2>6. (4 * WideMantissas) * span = 2 * (m * span) /\ m * span \in Nat
    BY <1>2, <1>4, <2>1
  <2>7. QED
    BY <1>4, <2>3, <2>5, <2>6
<1> DEFINE total == (IF s1 = 1 THEN -x1 ELSE x1) + (IF s2 = 1 THEN -x2 ELSE x2)
<1>7. W!SumOf(s1, n1, e1, s2, n2, e2) =
        [sign |-> IF total < 0 THEN 1 ELSE 0, num |-> IF total < 0 THEN -total ELSE total,
         exp |-> low]
  <2>1. /\ (IF s1 = 1 THEN -n1 ELSE n1) * 2^(e1 - low) = IF s1 = 1 THEN -x1 ELSE x1
        /\ (IF s2 = 1 THEN -n2 ELSE n2) * 2^(e2 - low) = IF s2 = 1 THEN -x2 ELSE x2
    BY <1>5, <1>6
  <2>2. QED
    BY <1>1, <2>1, Zenon DEF W!SumOf
<1>8. W!SumOf(1 - s1, n1, e1, 1 - s2, n2, e2) =
        [sign |-> IF -total < 0 THEN 1 ELSE 0, num |-> IF -total < 0 THEN -(-total) ELSE -total,
         exp |-> low]
  <2>1. /\ (IF 1 - s1 = 1 THEN -n1 ELSE n1) * 2^(e1 - low) = -(IF s1 = 1 THEN -x1 ELSE x1)
        /\ (IF 1 - s2 = 1 THEN -n2 ELSE n2) * 2^(e2 - low) = -(IF s2 = 1 THEN -x2 ELSE x2)
    BY <1>5, <1>6
  <2>2. (-(IF s1 = 1 THEN -x1 ELSE x1)) + (-(IF s2 = 1 THEN -x2 ELSE x2)) = -total
    OBVIOUS
  <2>3. QED
    BY <1>1, <2>1, <2>2, Zenon DEF W!SumOf
<1>9. total \in Int /\ total \in -(x1 + x2) .. x1 + x2
  OBVIOUS
<1>10. PICK x \in Int : x = total /\ x \in -(x1 + x2) .. x1 + x2
  BY <1>9
<1>11. -(-x) = x /\ (x < 0 <=> -x > 0)
  OBVIOUS
<1>12. QED
  BY <1>3, <1>4, <1>6, <1>7, <1>8, <1>10, <1>11

LEMMA WideSumFlips ==
  ASSUME NEW a \in W!Patterns, NEW b \in W!Patterns
  PROVE  Alike(W!IeeeAdd(a, b), W!IeeeAdd(W!FlipSign(a), W!FlipSign(b)))
<1>1. PICK a2 \in W!Patterns :
        /\ a2 = W!FlipSign(a) /\ W!Sign(a2) = 1 - W!Sign(a) /\ W!Magnitude(a2) = W!Magnitude(a)
        /\ W!Field(a2) = W!Field(a) /\ W!Mantissa(a2) = W!Mantissa(a)
        /\ W!Significand(a2) = W!Significand(a) /\ W!Exponent(a2) = W!Exponent(a)
  BY WideFlipped
<1>2. PICK b2 \in W!Patterns :
        /\ b2 = W!FlipSign(b) /\ W!Sign(b2) = 1 - W!Sign(b) /\ W!Magnitude(b2) = W!Magnitude(b)
        /\ W!Field(b2) = W!Field(b) /\ W!Mantissa(b2) = W!Mantissa(b)
        /\ W!Significand(b2) = W!Significand(b) /\ W!Exponent(b2) = W!Exponent(b)
  BY WideFlipped
<1>3. PICK s1 \in 0 .. 1, s2 \in 0 .. 1 : s1 = W!Sign(a) /\ s2 = W!Sign(b)
  BY WidePattern
<1>4. /\ W!IsNaN(a2) <=> W!IsNaN(a)
      /\ W!IsInf(a2) <=> W!IsInf(a)
      /\ W!IsNaN(b2) <=> W!IsNaN(b)
      /\ W!IsInf(b2) <=> W!IsInf(b)
      /\ W!Sign(a2) # W!Sign(b2) <=> W!Sign(a) # W!Sign(b)
  BY <1>1, <1>2, <1>3 DEF W!IsNaN, W!IsInf
<1>5. ASSUME NEW w \in W!Patterns, W!IsInf(w)
      PROVE  Opposite(w, W!FlipSign(w))
  <2>1. PICK s \in 0 .. 1 : s = W!Sign(w) /\ w = (W!SignMask * s) + W!Magnitude(w)
    BY WidePattern
  <2>2. W!Magnitude(w) = W!PosInf /\ W!PosInf \in Nat
    <3>1. /\ Fields - 1 \in Nat /\ WideMantissas \in Nat /\ W!PosInf = (Fields - 1) * WideMantissas
          /\ W!ExpOnes = Fields - 1
      BY Sizes
    <3>2. W!Field(w) = Fields - 1 /\ W!Mantissa(w) = 0
      BY <1>5, <3>1 DEF W!IsInf
    <3>3. W!Magnitude(w) = (WideMantissas * (Fields - 1)) + 0
      BY <3>2, WidePattern
    <3>4. QED
      BY <3>1, <3>3
  <2>3. w = W!WithSign(s, W!PosInf)
    <3>1. W!SignMask * s = s * W!SignMask
      BY Sizes
    <3>2. QED
      BY <2>1, <2>2, <3>1, Zenon DEF W!WithSign
  <2>4. W!FlipSign(w) = W!WithSign(1 - s, W!PosInf)
    BY <2>1, <2>2, Zenon DEF W!FlipSign
  <2>5. W!PosInf \in 0 .. W!PosInf
    BY <2>2
  <2>6. QED
    BY <2>3, <2>4, <2>5 DEF Opposite
<1>6. CASE W!IsNaN(a) \/ W!IsNaN(b) \/ (W!IsInf(a) /\ W!IsInf(b) /\ W!Sign(a) # W!Sign(b))
  <2>1. W!IeeeAdd(a, b) = W!QNaN
    BY <1>6 DEF W!IeeeAdd
  <2>2. W!IeeeAdd(a2, b2) = W!QNaN
    BY <1>4, <1>6 DEF W!IeeeAdd
  <2>3. QED
    BY <1>1, <1>2, <2>1, <2>2 DEF Alike, Opposite
<1>7. CASE ~ (W!IsNaN(a) \/ W!IsNaN(b) \/ (W!IsInf(a) /\ W!IsInf(b) /\ W!Sign(a) # W!Sign(b)))
  <2>1. CASE W!IsInf(a)
    <3>1. W!IeeeAdd(a, b) = a
      BY <1>7, <2>1 DEF W!IeeeAdd
    <3>2. W!IeeeAdd(a2, b2) = a2
      BY <1>4, <1>7, <2>1 DEF W!IeeeAdd
    <3>3. QED
      BY <1>1, <1>2, <1>5, <2>1, <3>1, <3>2 DEF Alike
  <2>2. CASE ~ W!IsInf(a) /\ W!IsInf(b)
    <3>1. W!IeeeAdd(a, b) = b
      BY <1>7, <2>2 DEF W!IeeeAdd
    <3>2. W!IeeeAdd(a2, b2) = b2
      BY <1>4, <1>7, <2>2 DEF W!IeeeAdd
    <3>3. QED
      BY <1>1, <1>2, <1>5, <2>2, <3>1, <3>2 DEF Alike
  <2>3. CASE ~ W!IsInf(a) /\ ~ W!IsInf(b)
    <3>1. W!Field(a) # W!ExpOnes /\ W!Field(b) # W!ExpOnes
      BY <1>7, <2>3 DEF W!IsNaN, W!IsInf
    <3>2. PICK n1 \in 0 .. 2 * WideMantissas - 1, n2 \in 0 .. 2 * WideMantissas - 1,
               e1 \in W!MinExp .. W!MinExp + (Fields - 3), e2 \in W!MinExp .. W!MinExp + (Fields - 3) :
            /\ n1 = W!Significand(a) /\ n2 = W!Significand(b)
            /\ e1 = W!Exponent(a) /\ e2 = W!Exponent(b)
      BY <3>1, WideValue
    <3>3. PICK t, o : /\ t = W!SumOf(s1, n1, e1, s2, n2, e2)
                      /\ o = W!SumOf(1 - s1, n1, e1, 1 - s2, n2, e2)
      OBVIOUS
    <3>4. W!MinExp \in Int
      BY <3>1, WideValue
    <3>5. /\ t.num \in 0 .. 2^MaxBits - 1 /\ t.exp \in Int /\ t.exp >= W!MinExp
          /\ t.sign \in 0 .. 1
          /\ o.num = t.num /\ o.exp = t.exp
          /\ t.num # 0 => o.sign = 1 - t.sign
      BY <3>3, <3>4, SumFlips
    <3>6. W!IeeeAdd(a, b) =
            IF t.num = 0 THEN W!WithSign(IF s1 = 1 /\ s2 = 1 THEN 1 ELSE 0, 0)
            ELSE W!WithSign(t.sign, W!RoundMagnitude(t.num, t.exp))
      BY <1>3, <1>7, <2>3, <3>2, <3>3 DEF W!IeeeAdd
    <3>7. W!IeeeAdd(a2, b2) =
            IF o.num = 0 THEN W!WithSign(IF 1 - s1 = 1 /\ 1 - s2 = 1 THEN 1 ELSE 0, 0)
            ELSE W!WithSign(o.sign, W!RoundMagnitude(o.num, o.exp))
      BY <1>1, <1>2, <1>3, <1>4, <1>7, <2>3, <3>2, <3>3 DEF W!IeeeAdd
    <3>8. W!PosInf \in Nat
      <4>1. Fields - 1 \in Nat /\ WideMantissas \in Nat /\ W!PosInf = (Fields - 1) * WideMantissas
        BY Sizes
      <4>2. QED
        BY <4>1
    <3>9. CASE t.num = 0
      <4>1. 0 \in 0 .. W!PosInf
        BY <3>8
      <4>2. CASE s1 = s2
        <5>1. W!IeeeAdd(a, b) = W!WithSign(s1, 0) /\ W!IeeeAdd(a2, b2) = W!WithSign(1 - s1, 0)
          BY <3>5, <3>6, <3>7, <3>9, <4>2
        <5>2. QED
          BY <1>1, <1>2, <4>1, <5>1 DEF Alike, Opposite
      <4>3. CASE s1 # s2
        <5>1. W!IeeeAdd(a, b) = W!WithSign(0, 0) /\ W!IeeeAdd(a2, b2) = W!WithSign(0, 0)
          BY <3>5, <3>6, <3>7, <3>9, <4>3
        <5>2. QED
          BY <1>1, <1>2, <5>1 DEF Alike
      <4>4. QED
        BY <4>2, <4>3
    <3>10. CASE t.num # 0
      <4>1. t.exp >= W!MinExp - MaxBits
        BY <3>4, <3>5, BitsAssumption
      <4>2. PICK n \in 0 .. W!PosInf : n = W!RoundMagnitude(t.num, t.exp)
        BY <3>5, <4>1, WideMagnitude
      <4>3. /\ W!IeeeAdd(a, b) = W!WithSign(t.sign, n)
            /\ W!IeeeAdd(a2, b2) = W!WithSign(1 - t.sign, n)
        BY <3>5, <3>6, <3>7, <3>10, <4>2
      <4>4. QED
        BY <1>1, <1>2, <3>5, <4>2, <4>3 DEF Alike, Opposite
    <3>11. QED
      BY <3>9, <3>10
  <2>4. QED
    BY <2>1, <2>2, <2>3
<1>8. QED
  BY <1>6, <1>7

(* What is not a number stays so with the other sign.                       *)
LEMMA NotANumber ==
  /\ W!QNaN \in W!Patterns /\ W!IsNaN(W!QNaN) /\ W!IsNaN(W!FlipSign(W!QNaN))
  /\ N!QNaN \in N!Patterns /\ N!IsNaN(N!QNaN) /\ N!IsNaN(N!FlipSign(N!QNaN))
  /\ f32_to_bf16(W!QNaN) = N!QNaN
  /\ W!IsNaN(bf16_to_f32(N!QNaN))
<1>1. /\ Fields \in Nat /\ Fields >= 4 /\ Mantissas \in Nat /\ Mantissas >= 2
      /\ WideMantissas \in Nat \ {0} /\ WideMantissas = Mantissas * Lows
      /\ Lows \in Nat /\ Lows >= 1
      /\ N!PosInf = (Fields - 1) * Mantissas /\ W!PosInf = (Fields - 1) * WideMantissas
      /\ N!ExpOnes = Fields - 1 /\ W!ExpOnes = Fields - 1
      /\ N!SignMask \in Nat \ {0} /\ W!SignMask \in Nat \ {0}
  BY Sizes
<1>2. 2^(ManBits - 1) \in 1 .. Mantissas - 1
  <2>1. ManBits \in Nat /\ ManBits >= 1 /\ ManBits <= MaxBits
    BY WidthAssumption, BitsAssumption
  <2>2. Mantissas = 2 * 2^(ManBits - 1) /\ 2^(ManBits - 1) \in Nat \ {0}
    BY <2>1, PowerHalved DEF Mantissas
  <2>3. QED
    BY <2>2
<1>3. 2^((ManBits + LowBits) - 1) \in 1 .. WideMantissas - 1
  <2>1. (ManBits + LowBits) - 1 \in Nat /\ 1 \in Nat /\ ((ManBits + LowBits) - 1) + 1 = ManBits + LowBits
        /\ ManBits + LowBits <= MaxBits
    BY WidthAssumption, BitsAssumption
  <2>2. 2^(((ManBits + LowBits) - 1) + 1) = 2^((ManBits + LowBits) - 1) * 2^1
        /\ 2^((ManBits + LowBits) - 1) \in Nat \ {0}
    BY <2>1, PowersAdd
  <2>3. 2^1 = 2
    OBVIOUS
  <2>4. QED
    BY <1>1, <2>1, <2>2, <2>3 DEF WideMantissas
<1>4. /\ N!QNaN \in N!Patterns /\ N!Field(N!QNaN) = Fields - 1
      /\ N!Mantissa(N!QNaN) = 2^(ManBits - 1)
  <2>1. PICK man \in 1 .. Mantissas - 1 : man = 2^(ManBits - 1)
    BY <1>2
  <2>2. N!QNaN = (N!SignMask * 0) + ((Mantissas * (Fields - 1)) + man)
    BY <1>1, <2>1 DEF N!QNaN
  <2>3. 0 \in 0 .. 1 /\ Fields - 1 \in 0 .. Fields - 1 /\ man \in 0 .. Mantissas - 1
    BY <1>1
  <2>4. QED
    BY <2>1, <2>2, <2>3, NarrowParts
<1>5. /\ W!QNaN \in W!Patterns /\ W!Field(W!QNaN) = Fields - 1
      /\ W!Mantissa(W!QNaN) = 2^((ManBits + LowBits) - 1)
  <2>1. PICK man \in 1 .. WideMantissas - 1 : man = 2^((ManBits + LowBits) - 1)
    BY <1>3
  <2>2. W!QNaN = (W!SignMask * 0) + ((WideMantissas * (Fields - 1)) + man)
    <3>1. W!QNaN = W!PosInf + man
      BY <2>1 DEF W!QNaN
    <3>2. WideMantissas * (Fields - 1) = W!PosInf /\ W!PosInf \in Nat /\ W!SignMask * 0 = 0
      BY <1>1
    <3>3. QED
      BY <2>1, <3>1, <3>2
  <2>3. 0 \in 0 .. 1 /\ Fields - 1 \in 0 .. Fields - 1 /\ man \in 0 .. WideMantissas - 1
    BY <1>1
  <2>4. QED
    BY <2>1, <2>2, <2>3, WideParts
<1>6. N!IsNaN(N!QNaN)
  BY <1>1, <1>2, <1>4 DEF N!IsNaN
<1>7. W!IsNaN(W!QNaN)
  BY <1>1, <1>3, <1>5 DEF W!IsNaN
<1>8. W!IsNaN(W!FlipSign(W!QNaN))
  BY <1>5, <1>7, WideFlipped DEF W!IsNaN
<1>9. N!IsNaN(N!FlipSign(N!QNaN))
  <2>1. PICK s \in 0 .. 1, n \in 0 .. N!SignMask - 1 :
          s = N!Sign(N!QNaN) /\ n = N!Magnitude(N!QNaN) /\ 1 - s \in 0 .. 1 /\ n > N!PosInf
    BY <1>4, <1>6, LastField, NarrowPattern, MagnitudePattern
  <2>2. /\ N!FlipSign(N!QNaN) = N!WithSign(1 - s, n)
        /\ N!WithSign(1 - s, n) \in N!Patterns /\ N!Magnitude(N!WithSign(1 - s, n)) = n
    BY <2>1, NarrowSigned DEF N!FlipSign
  <2>3. QED
    BY <2>1, <2>2, LastField
<1>10. f32_to_bf16(W!QNaN) = N!QNaN
  BY <1>7 DEF f32_to_bf16, round_f32_to_bf16
<1>11. W!IsNaN(bf16_to_f32(N!QNaN))
  <2>1. 0 \in 0 .. Lows - 1 /\ bf16_to_f32(N!QNaN) = bf16_to_f32(N!QNaN) + 0
    BY <1>1, <1>4 DEF bf16_to_f32, Lows, N!Patterns
  <2>2. PICK w : w = bf16_to_f32(N!QNaN)
    OBVIOUS
  <2>3. W!Field(w) = N!Field(N!QNaN) /\ W!Mantissa(w) = (Lows * N!Mantissa(N!QNaN)) + 0
    BY <1>4, <2>1, <2>2, Widened
  <2>4. PICK man \in Nat \ {0} : man = N!Mantissa(N!QNaN)
    BY <1>1, <1>2, <1>4
  <2>5. Lows * man # 0 /\ Lows * man \in Nat
    BY <1>1
  <2>6. QED
    BY <1>1, <1>4, <2>2, <2>3, <2>4, <2>5 DEF W!IsNaN
<1>12. QED
  BY <1>4, <1>5, <1>6, <1>7, <1>8, <1>9, <1>10, <1>11

(* The same of the narrow results.                                          *)
NarrowOpposite(u, v) ==
  \/ u = N!QNaN /\ v = N!QNaN
  \/ \E s \in 0 .. 1, n \in 0 .. N!PosInf : u = N!WithSign(s, n) /\ v = N!WithSign(1 - s, n)
NarrowAlike(u, v) == NarrowOpposite(u, v) \/ (u = N!WithSign(0, 0) /\ v = N!WithSign(0, 0))

LEMMA NarrowInfinity == N!PosInf \in 0 .. N!SignMask - 1 /\ N!PosInf \in Nat
<1>1. 0 \in N!Patterns
  BY Sizes DEF N!Patterns
<1>2. QED
  BY <1>1, LastField, Sizes

LEMMA WideInfinity == W!PosInf \in 0 .. W!SignMask - 1 /\ W!PosInf \in Nat
<1>1. /\ Fields \in Nat /\ Fields >= 4 /\ WideMantissas \in Nat \ {0}
      /\ W!PosInf = (Fields - 1) * WideMantissas /\ W!SignMask = Fields * WideMantissas
  BY Sizes
<1>2. W!SignMask = W!PosInf + WideMantissas /\ W!PosInf \in Nat
  BY <1>1
<1>3. QED
  BY <1>1, <1>2

LEMMA NarrowedOpposite ==
  ASSUME NEW v, NEW w
  PROVE  /\ Opposite(v, w) => NarrowOpposite(f32_to_bf16(v), f32_to_bf16(w))
         /\ Alike(v, w) => NarrowAlike(f32_to_bf16(v), f32_to_bf16(w))
<1>1. ASSUME Opposite(v, w) PROVE NarrowOpposite(f32_to_bf16(v), f32_to_bf16(w))
  <2>1. CASE v = W!QNaN /\ w = W!QNaN
    BY <2>1, NotANumber DEF NarrowOpposite
  <2>2. CASE \E s \in 0 .. 1, n \in 0 .. W!PosInf : v = W!WithSign(s, n) /\ w = W!WithSign(1 - s, n)
    <3>1. PICK s \in 0 .. 1, n \in 0 .. W!PosInf : v = W!WithSign(s, n) /\ w = W!WithSign(1 - s, n)
      BY <2>2
    <3>2. 1 - s \in 0 .. 1
      OBVIOUS
    <3>3. /\ Narrow(n) \in 0 .. N!PosInf
          /\ f32_to_bf16(v) = N!WithSign(s, Narrow(n))
          /\ f32_to_bf16(w) = N!WithSign(1 - s, Narrow(n))
      BY <3>1, <3>2, Narrowed
    <3>4. QED
      BY <3>3 DEF NarrowOpposite
  <2>3. QED
    BY <1>1, <2>1, <2>2 DEF Opposite
<1>2. ASSUME v = W!WithSign(0, 0), w = W!WithSign(0, 0)
      PROVE  f32_to_bf16(v) = N!WithSign(0, 0) /\ f32_to_bf16(w) = N!WithSign(0, 0)
  <2>1. 0 \in 0 .. W!PosInf /\ 0 \in 0 .. 1
    BY WideInfinity
  <2>2. Narrow(0) = 0
    <3>1. PICK h \in Nat \ {0} : h = 2^(LowBits - 1) /\ Lows \in Nat \ {0}
      BY Sizes
    <3>2. 0 \div Lows = 0 /\ 0 % Lows = 0
      BY <3>1
    <3>3. ~ RoundsUp(0, 0)
      BY <3>1 DEF RoundsUp
    <3>4. QED
      BY <3>2, <3>3 DEF Narrow
  <2>3. QED
    BY <1>2, <2>1, <2>2, Narrowed
<1>3. QED
  BY <1>1, <1>2 DEF Alike, NarrowAlike

(* Such results are of the same value, up to the sign.                      *)
LEMMA AlikeSame ==
  ASSUME NEW u, NEW v, NarrowAlike(u, v)
  PROVE  /\ SameValue(v, bf16_neg(u)) /\ u \in N!Patterns /\ v \in N!Patterns
         /\ NarrowOpposite(u, v) => (u = N!QNaN /\ v = N!QNaN) \/ v = bf16_neg(u)
<1>1. CASE u = N!QNaN /\ v = N!QNaN
  BY <1>1, NotANumber DEF SameValue, bf16_neg
<1>2. CASE \E s \in 0 .. 1, n \in 0 .. N!PosInf : u = N!WithSign(s, n) /\ v = N!WithSign(1 - s, n)
  <2>1. PICK s \in 0 .. 1, n \in 0 .. N!PosInf : u = N!WithSign(s, n) /\ v = N!WithSign(1 - s, n)
    BY <1>2
  <2>2. n \in 0 .. N!SignMask - 1 /\ 1 - s \in 0 .. 1
    BY NarrowInfinity, Sizes
  <2>3. v = bf16_neg(u) /\ u \in N!Patterns /\ v \in N!Patterns
    BY <2>1, <2>2, NarrowSigned DEF bf16_neg
  <2>4. QED
    BY <2>3 DEF SameValue
<1>3. CASE u = N!WithSign(0, 0) /\ v = N!WithSign(0, 0)
  <2>1. 0 \in 0 .. N!SignMask - 1 /\ 0 \in 0 .. 1 /\ 1 \in 0 .. 1 /\ 1 - 0 = 1 /\ 0 \in 0 .. N!PosInf
    BY Sizes, NarrowInfinity
  <2>2. /\ u \in N!Patterns /\ N!Magnitude(u) = 0
        /\ bf16_neg(u) = N!WithSign(1, 0) /\ N!Magnitude(N!WithSign(1, 0)) = 0
    BY <1>3, <2>1, NarrowSigned DEF bf16_neg
  <2>3. SameValue(v, bf16_neg(u))
    BY <1>3, <2>2 DEF SameValue, N!IsZero
  <2>4. ASSUME NarrowOpposite(u, v), ~ (u = N!QNaN /\ v = N!QNaN) PROVE v = bf16_neg(u)
    <3>1. PICK s \in 0 .. 1, n \in 0 .. N!PosInf : u = N!WithSign(s, n) /\ v = N!WithSign(1 - s, n)
      BY <2>4 DEF NarrowOpposite
    <3>2. n \in 0 .. N!SignMask - 1
      BY NarrowInfinity, Sizes
    <3>3. QED
      BY <3>1, <3>2, NarrowSigned DEF bf16_neg
  <2>5. QED
    BY <1>3, <2>2, <2>3, <2>4
<1>4. QED
  BY <1>1, <1>2, <1>3 DEF NarrowAlike, NarrowOpposite

(* Widening commutes with the sign, and gives patterns.                     *)
LEMMA WidenedSign ==
  ASSUME NEW u \in N!Patterns
  PROVE  /\ bf16_to_f32(u) \in W!Patterns /\ bf16_neg(u) \in N!Patterns
         /\ bf16_to_f32(bf16_neg(u)) = W!FlipSign(bf16_to_f32(u))
<1>1. Lows \in Nat \ {0} /\ N!SignMask \in Nat \ {0} /\ W!SignMask = N!SignMask * Lows
  <2>1. /\ Fields \in Nat /\ Mantissas \in Nat /\ Lows \in Nat /\ Lows >= 1
        /\ N!SignMask = Fields * Mantissas /\ WideMantissas = Mantissas * Lows
        /\ W!SignMask = Fields * WideMantissas /\ N!SignMask \in Nat \ {0}
    BY Sizes
  <2>2. QED
    BY <2>1
<1>2. PICK s \in 0 .. 1, n \in 0 .. N!SignMask - 1 :
        s = N!Sign(u) /\ n = N!Magnitude(u) /\ u = (N!SignMask * s) + n
  BY NarrowPattern, MagnitudePattern
<1>3. PICK v : v = bf16_neg(u) /\ v = N!WithSign(1 - s, n)
  BY <1>2 DEF bf16_neg, N!FlipSign
<1>4. 1 - s \in 0 .. 1
  OBVIOUS
<1>5. v \in N!Patterns
  BY <1>3, <1>4, NarrowSigned
<1>6. PICK w : w = bf16_to_f32(u) /\ w = u * Lows
  BY DEF bf16_to_f32, Lows
<1>7. w \in W!Patterns /\ W!Sign(w) = s
  <2>1. w \in Int
    BY <1>1, <1>6 DEF N!Patterns
  <2>2. 0 \in 0 .. Lows - 1 /\ w = bf16_to_f32(u) + 0
    BY <1>1, <1>6, <2>1
  <2>3. w \in W!Patterns /\ W!Sign(w) = N!Sign(u)
    BY <2>2, Widened
  <2>4. QED
    BY <1>2, <2>3
<1>8. w = (W!SignMask * s) + (n * Lows)
  <2>1. u * Lows = ((N!SignMask * s) * Lows) + (n * Lows)
    BY <1>1, <1>2
  <2>2. (N!SignMask * s) * Lows = W!SignMask * s
    BY <1>1
  <2>3. QED
    BY <1>6, <2>1, <2>2
<1>9. W!Magnitude(w) = n * Lows
  <2>1. w = (W!SignMask * s) + W!Magnitude(w) /\ W!Magnitude(w) \in Int
    BY <1>7, WidePattern, Sizes
  <2>2. W!SignMask * s \in Int /\ n * Lows \in Int
    BY <1>1
  <2>3. QED
    BY <1>8, <2>1, <2>2
<1>10. W!FlipSign(w) = (1 - s) * W!SignMask + n * Lows
  BY <1>7, <1>9, Zenon DEF W!FlipSign, W!WithSign
<1>11. bf16_to_f32(v) = (1 - s) * W!SignMask + n * Lows
  <2>1. v = (1 - s) * N!SignMask + n
    BY <1>3 DEF N!WithSign
  <2>2. v * Lows = (((1 - s) * N!SignMask) * Lows) + (n * Lows)
    BY <1>1, <1>4, <2>1
  <2>3. ((1 - s) * N!SignMask) * Lows = (1 - s) * W!SignMask
    BY <1>1, <1>4
  <2>4. QED
    BY <2>2, <2>3, Zenon DEF bf16_to_f32, Lows
<1>12. QED
  BY <1>3, <1>5, <1>6, <1>7, <1>10, <1>11

(* Products and sums of the strict model.                                   *)
LEMMA ProductOpposite ==
  ASSUME NEW u \in N!Patterns, NEW v \in N!Patterns
  PROVE  /\ NarrowOpposite(bf16_mul(u, v, FALSE), bf16_mul(u, bf16_neg(v), FALSE))
         /\ bf16_mul(u, v, FALSE) \in N!Patterns
<1>1. NarrowOpposite(bf16_mul(u, v, FALSE), bf16_mul(u, bf16_neg(v), FALSE))
  <2>1. Opposite(W!IeeeMul(bf16_to_f32(u), bf16_to_f32(v)),
                 W!IeeeMul(bf16_to_f32(u), bf16_to_f32(bf16_neg(v))))
    BY WidenedSign, ProductFlips
  <2>2. QED
    BY <2>1, NarrowedOpposite DEF bf16_mul, f32_to_bf16
<1>2. QED
  BY <1>1, AlikeSame DEF NarrowAlike

LEMMA SumAlike ==
  ASSUME NEW u \in N!Patterns, NEW v \in N!Patterns
  PROVE  /\ NarrowAlike(bf16_add(u, v, FALSE), bf16_add(bf16_neg(u), bf16_neg(v), FALSE))
         /\ bf16_sub(u, v, FALSE) = bf16_add(u, bf16_neg(v), FALSE)
         /\ u = N!QNaN \/ v = N!QNaN => bf16_add(u, v, FALSE) = N!QNaN
<1>1. NarrowAlike(bf16_add(u, v, FALSE), bf16_add(bf16_neg(u), bf16_neg(v), FALSE))
  <2>1. Alike(W!IeeeAdd(bf16_to_f32(u), bf16_to_f32(v)),
              W!IeeeAdd(bf16_to_f32(bf16_neg(u)), bf16_to_f32(bf16_neg(v))))
    BY WidenedSign, WideSumFlips
  <2>2. QED
    BY <2>1, NarrowedOpposite DEF bf16_add, f32_to_bf16
<1>2. bf16_sub(u, v, FALSE) = bf16_add(u, bf16_neg(v), FALSE)
  BY WidenedSign DEF bf16_sub, bf16_add
<1>3. ASSUME u = N!QNaN \/ v = N!QNaN PROVE bf16_add(u, v, FALSE) = N!QNaN
  <2>1. W!IsNaN(bf16_to_f32(u)) \/ W!IsNaN(bf16_to_f32(v))
    BY <1>3, NotANumber
  <2>2. W!IeeeAdd(bf16_to_f32(u), bf16_to_f32(v)) = W!QNaN
    BY <2>1 DEF W!IeeeAdd
  <2>3. QED
    BY <2>2, NotANumber DEF bf16_add, f32_to_bf16
<1>4. QED
  BY <1>1, <1>2, <1>3

(* A quarter turn on, the table's sine is the cosine and its cosine is the    *)
(* opposite of the sine; Turned says what a model then has to give.          *)
Turned(r, t) == SameValue(t[1], bf16_neg(r[2])) /\ SameValue(t[2], r[1])

LEMMA NegatedTwice == ASSUME NEW u \in N!Patterns PROVE bf16_neg(bf16_neg(u)) = u
<1>1. PICK s \in 0 .. 1, n \in 0 .. N!SignMask - 1 :
        s = N!Sign(u) /\ n = N!Magnitude(u) /\ u = (N!SignMask * s) + n
  BY NarrowPattern, MagnitudePattern
<1>2. bf16_neg(u) = N!WithSign(1 - s, n)
  BY <1>1 DEF bf16_neg, N!FlipSign
<1>3. 1 - s \in 0 .. 1 /\ 1 - (1 - s) = s
  OBVIOUS
<1>4. bf16_neg(bf16_neg(u)) = N!WithSign(1 - (1 - s), n)
  BY <1>2, <1>3, NarrowSigned DEF bf16_neg
<1>5. N!WithSign(s, n) = u
  <2>1. s * N!SignMask = N!SignMask * s
    BY Sizes
  <2>2. QED
    BY <1>1, <2>1, Zenon DEF N!WithSign
<1>6. QED
  BY <1>3, <1>4, <1>5

LEMMA TurnedPair ==
  ASSUME NEW r1, NEW r2, NEW t1, NEW t2, SameValue(t1, bf16_neg(r2)), SameValue(t2, r1)
  PROVE  Turned(<<r1, r2>>, <<t1, t2>>)
<1>1. <<r1, r2>>[1] = r1 /\ <<r1, r2>>[2] = r2 /\ <<t1, t2>>[1] = t1 /\ <<t1, t2>>[2] = t2
  OBVIOUS
<1>2. QED
  BY <1>1, Zenon DEF Turned

LEMMA StrictTurns ==
  ASSUME NEW x \in N!Patterns, NEW y \in N!Patterns, NEW c \in N!Patterns, NEW s \in N!Patterns
  PROVE  Turned(strict(x, y, c, s, FALSE), strict(x, y, bf16_neg(s), c, FALSE))
<1>1. PICK xc \in N!Patterns, ys \in N!Patterns, xs \in N!Patterns, yc \in N!Patterns :
        /\ xc = bf16_mul(x, c, FALSE) /\ ys = bf16_mul(y, s, FALSE)
        /\ xs = bf16_mul(x, s, FALSE) /\ yc = bf16_mul(y, c, FALSE)
  BY ProductOpposite
<1>2. PICK xn \in N!Patterns, yn \in N!Patterns :
        /\ xn = bf16_mul(x, bf16_neg(s), FALSE) /\ yn = bf16_mul(y, bf16_neg(s), FALSE)
        /\ (xs = N!QNaN /\ xn = N!QNaN) \/ xn = bf16_neg(xs)
        /\ (ys = N!QNaN /\ yn = N!QNaN) \/ yn = bf16_neg(ys)
  <2>1. /\ NarrowOpposite(xs, bf16_mul(x, bf16_neg(s), FALSE))
        /\ NarrowOpposite(ys, bf16_mul(y, bf16_neg(s), FALSE))
    BY <1>1, ProductOpposite
  <2>2. QED
    BY <2>1, AlikeSame DEF NarrowAlike
<1>3. /\ strict(x, y, c, s, FALSE) = <<bf16_sub(xc, ys, FALSE), bf16_add(xs, yc, FALSE)>>
      /\ strict(x, y, bf16_neg(s), c, FALSE) = <<bf16_sub(xn, yc, FALSE), bf16_add(xc, yn, FALSE)>>
  BY <1>1, <1>2, Zenon DEF strict
<1>4. SameValue(bf16_sub(xn, yc, FALSE), bf16_neg(bf16_add(xs, yc, FALSE)))
  <2>1. bf16_sub(xn, yc, FALSE) = bf16_add(xn, bf16_neg(yc), FALSE) /\ bf16_neg(yc) \in N!Patterns
    BY SumAlike, WidenedSign
  <2>2. CASE xs = N!QNaN /\ xn = N!QNaN
    <3>1. bf16_add(xn, bf16_neg(yc), FALSE) = N!QNaN /\ bf16_add(xs, yc, FALSE) = N!QNaN
      BY <2>1, <2>2, SumAlike
    <3>2. QED
      BY <2>1, <3>1, NotANumber DEF SameValue, bf16_neg
  <2>3. CASE xn = bf16_neg(xs)
    <3>1. NarrowAlike(bf16_add(xs, yc, FALSE), bf16_add(xn, bf16_neg(yc), FALSE))
      BY <2>3, SumAlike
    <3>2. QED
      BY <2>1, <3>1, AlikeSame
  <2>4. QED
    BY <1>2, <2>2, <2>3
<1>5. SameValue(bf16_add(xc, yn, FALSE), bf16_sub(xc, ys, FALSE))
  <2>1. bf16_sub(xc, ys, FALSE) = bf16_add(xc, bf16_neg(ys), FALSE)
    BY SumAlike
  <2>2. CASE ys = N!QNaN /\ yn = N!QNaN
    <3>1. bf16_add(xc, yn, FALSE) = N!QNaN
      BY <2>2, SumAlike
    <3>2. W!IsNaN(bf16_to_f32(bf16_neg(ys)))
      <4>1. N!IsNaN(bf16_neg(ys))
        BY <2>2, NotANumber DEF bf16_neg
      <4>2. bf16_to_f32(bf16_neg(ys)) = W!FlipSign(bf16_to_f32(ys)) /\ bf16_to_f32(ys) \in W!Patterns
        BY WidenedSign
      <4>3. W!IsNaN(bf16_to_f32(ys))
        BY <2>2, NotANumber
      <4>4. QED
        BY <4>2, <4>3, WideFlipped DEF W!IsNaN
    <3>3. W!IeeeAdd(bf16_to_f32(xc), bf16_to_f32(bf16_neg(ys))) = W!QNaN
      BY <3>2 DEF W!IeeeAdd
    <3>4. bf16_add(xc, bf16_neg(ys), FALSE) = N!QNaN
      BY <3>3, NotANumber DEF bf16_add, f32_to_bf16
    <3>5. QED
      BY <2>1, <3>1, <3>4 DEF SameValue
  <2>3. CASE yn = bf16_neg(ys)
    BY <2>1, <2>3 DEF SameValue
  <2>4. QED
    BY <1>2, <2>2, <2>3
<1>6. QED
  BY <1>3, <1>4, <1>5, TurnedPair

(* The wide model, before its one narrowing.                                *)
LEMMA WideResult ==
  ASSUME NEW a \in W!Patterns, NEW b \in W!Patterns
  PROVE  /\ W!IeeeMul(a, b) \in W!Patterns
         /\ \/ W!IeeeMul(a, b) = W!QNaN /\ W!IeeeMul(a, W!FlipSign(b)) = W!QNaN
            \/ W!IeeeMul(a, W!FlipSign(b)) = W!FlipSign(W!IeeeMul(a, b))
<1>1. Opposite(W!IeeeMul(a, b), W!IeeeMul(a, W!FlipSign(b)))
  BY ProductFlips
<1>2. CASE W!IeeeMul(a, b) = W!QNaN /\ W!IeeeMul(a, W!FlipSign(b)) = W!QNaN
  BY <1>2, NotANumber
<1>3. CASE \E s \in 0 .. 1, n \in 0 .. W!PosInf :
             W!IeeeMul(a, b) = W!WithSign(s, n) /\ W!IeeeMul(a, W!FlipSign(b)) = W!WithSign(1 - s, n)
  <2>1. PICK s \in 0 .. 1, n \in 0 .. W!PosInf :
             W!IeeeMul(a, b) = W!WithSign(s, n) /\ W!IeeeMul(a, W!FlipSign(b)) = W!WithSign(1 - s, n)
    BY <1>3
  <2>2. n \in 0 .. W!SignMask - 1
    BY WideInfinity, Sizes
  <2>3. W!WithSign(s, n) \in W!Patterns /\ W!FlipSign(W!WithSign(s, n)) = W!WithSign(1 - s, n)
    BY <2>2, WideSigned
  <2>4. QED
    BY <2>1, <2>3
<1>4. QED
  BY <1>1, <1>2, <1>3 DEF Opposite

LEMMA WideTurns ==
  ASSUME NEW x \in N!Patterns, NEW y \in N!Patterns, NEW c \in N!Patterns, NEW s \in N!Patterns
  PROVE  Turned(wide(x, y, c, s), wide(x, y, bf16_neg(s), c))
<1>1. PICK fx \in W!Patterns, fy \in W!Patterns, fc \in W!Patterns, fs \in W!Patterns :
        /\ fx = bf16_to_f32(x) /\ fy = bf16_to_f32(y)
        /\ fc = bf16_to_f32(c) /\ fs = bf16_to_f32(s)
        /\ bf16_to_f32(bf16_neg(s)) = W!FlipSign(fs)
  BY WidenedSign
<1>0. PICK xn, yn : xn = W!IeeeMul(fx, W!FlipSign(fs)) /\ yn = W!IeeeMul(fy, W!FlipSign(fs))
  OBVIOUS
<1>2. PICK xc \in W!Patterns, ys \in W!Patterns, xs \in W!Patterns, yc \in W!Patterns :
        /\ xc = W!IeeeMul(fx, fc) /\ ys = W!IeeeMul(fy, fs)
        /\ xs = W!IeeeMul(fx, fs) /\ yc = W!IeeeMul(fy, fc)
        /\ (xs = W!QNaN /\ xn = W!QNaN) \/ xn = W!FlipSign(xs)
        /\ (ys = W!QNaN /\ yn = W!QNaN) \/ yn = W!FlipSign(ys)
  BY <1>0, WideResult
<1>3. PICK r1, r2, t1, t2 :
        /\ r1 = f32_to_bf16(W!IeeeAdd(xc, W!FlipSign(ys))) /\ r2 = f32_to_bf16(W!IeeeAdd(xs, yc))
        /\ t1 = f32_to_bf16(W!IeeeAdd(xn, W!FlipSign(yc))) /\ t2 = f32_to_bf16(W!IeeeAdd(xc, yn))
  OBVIOUS
<1>4. wide(x, y, c, s) = <<r1, r2>> /\ wide(x, y, bf16_neg(s), c) = <<t1, t2>>
  BY <1>0, <1>1, <1>2, <1>3, Zenon DEF wide
<1>5. ASSUME NEW a, NEW b, W!IsNaN(a) \/ W!IsNaN(b)
      PROVE  f32_to_bf16(W!IeeeAdd(a, b)) = N!QNaN
  BY <1>5, NotANumber DEF W!IeeeAdd
<1>6. SameValue(t1, bf16_neg(r2))
  <2>1. CASE xs = W!QNaN /\ xn = W!QNaN
    <3>1. t1 = N!QNaN /\ r2 = N!QNaN
      BY <1>3, <1>5, <2>1, NotANumber
    <3>2. QED
      BY <3>1, NotANumber DEF SameValue, bf16_neg
  <2>2. CASE xn = W!FlipSign(xs)
    <3>1. Alike(W!IeeeAdd(xs, yc), W!IeeeAdd(xn, W!FlipSign(yc)))
      BY <2>2, WideSumFlips
    <3>2. QED
      BY <1>3, <3>1, NarrowedOpposite, AlikeSame
  <2>3. QED
    BY <1>2, <2>1, <2>2
<1>7. SameValue(t2, r1)
  <2>1. CASE ys = W!QNaN /\ yn = W!QNaN
    <3>1. t2 = N!QNaN /\ r1 = N!QNaN
      BY <1>3, <1>5, <2>1, NotANumber
    <3>2. QED
      BY <3>1 DEF SameValue
  <2>2. CASE yn = W!FlipSign(ys)
    BY <1>3, <2>2 DEF SameValue
  <2>3. QED
    BY <1>2, <2>1, <2>2
<1>8. QED
  BY <1>4, <1>6, <1>7, TurnedPair

-----------------------------------------------------------------------------
(* The fused operation.                                                     *)

(* The value of a finite narrow pattern.                                    *)
LEMMA NarrowFinite ==
  ASSUME NEW u \in N!Patterns, N!Field(u) # N!ExpOnes
  PROVE  /\ N!Significand(u) \in 0 .. 2^(ManBits + 1) - 1
         /\ N!Exponent(u) \in N!MinExp .. N!MinExp + (2 * N!Bias - 1)
         /\ N!MinExp \in Int /\ N!Bias \in Nat /\ N!MinExp = 1 - N!Bias - ManBits
<1>1. N!Bias \in Nat /\ Fields = 2 * N!Bias + 2 /\ 2^(ManBits + 1) = 2 * Mantissas
  <2>1. ExpBits - 1 \in Nat /\ ManBits \in Nat /\ 1 \in Nat /\ (ExpBits - 1) + 1 = ExpBits
        /\ (ExpBits - 1) + 1 <= MaxBits /\ ManBits + 1 <= MaxBits
    BY WidthAssumption, BitsAssumption
  <2>2. 2^((ExpBits - 1) + 1) = 2^(ExpBits - 1) * 2^1 /\ 2^(ExpBits - 1) \in Nat \ {0}
    BY <2>1, PowersAdd
  <2>3. 2^(ManBits + 1) = 2^ManBits * 2^1 /\ 2^ManBits \in Nat \ {0}
    BY <2>1, PowersAdd
  <2>4. 2^1 = 2
    OBVIOUS
  <2>5. N!Bias \in Nat
    BY <2>2 DEF N!Bias
  <2>6. Fields = 2 * N!Bias + 2
    BY <2>1, <2>2, <2>4 DEF N!Bias, Fields
  <2>7. 2^(ManBits + 1) = 2 * Mantissas
    BY <2>3, <2>4 DEF Mantissas
  <2>8. QED
    BY <2>5, <2>6, <2>7
<1>2. Fields \in Nat /\ Fields >= 4 /\ Mantissas \in Nat /\ N!ExpOnes = Fields - 1
  BY Sizes
<1>3. PICK field \in 0 .. Fields - 2, man \in 0 .. Mantissas - 1 :
        field = N!Field(u) /\ man = N!Mantissa(u)
  <2>1. N!Field(u) \in 0 .. Fields - 1 /\ N!Mantissa(u) \in 0 .. Mantissas - 1
    BY NarrowPattern
  <2>2. QED
    BY <1>2, <2>1
<1>4. ManBits \in Nat
  BY WidthAssumption
<1>5. N!MinExp = 1 - N!Bias - ManBits /\ N!MinExp \in Int
  BY <1>1, <1>4 DEF N!MinExp
<1>6. N!Significand(u) = IF field = 0 THEN man ELSE Mantissas + man
  BY <1>3 DEF N!Significand, Mantissas
<1>7. N!Exponent(u) = (IF field = 0 THEN 1 ELSE field) - N!Bias - ManBits
  BY <1>3 DEF N!Exponent
<1>8. QED
  BY <1>1, <1>2, <1>3, <1>4, <1>5, <1>6, <1>7

(* Only the sign tells a narrow pattern from the one of the other sign.     *)
LEMMA NarrowFlipped ==
  ASSUME NEW u \in N!Patterns
  PROVE  LET v == bf16_neg(u)
         IN /\ v \in N!Patterns /\ N!Sign(v) = 1 - N!Sign(u) /\ N!Magnitude(v) = N!Magnitude(u)
            /\ N!Field(v) = N!Field(u) /\ N!Mantissa(v) = N!Mantissa(u)
            /\ N!Significand(v) = N!Significand(u) /\ N!Exponent(v) = N!Exponent(u)
<1>1. PICK s \in 0 .. 1, field \in 0 .. Fields - 1, man \in 0 .. Mantissas - 1 :
        /\ s = N!Sign(u) /\ field = N!Field(u) /\ man = N!Mantissa(u)
        /\ N!Magnitude(u) = (Mantissas * field) + man
  BY NarrowPattern
<1>2. PICK v : v = bf16_neg(u)
  OBVIOUS
<1>3. v = (N!SignMask * (1 - s)) + ((Mantissas * field) + man) /\ 1 - s \in 0 .. 1
  <2>1. v = (1 - s) * N!SignMask + N!Magnitude(u)
    BY <1>1, <1>2 DEF bf16_neg, N!FlipSign, N!WithSign
  <2>2. (1 - s) * N!SignMask = N!SignMask * (1 - s)
    BY Sizes
  <2>3. 1 - s \in 0 .. 1
    OBVIOUS
  <2>4. QED
    BY <1>1, <2>1, <2>2, <2>3, Zenon
<1>4. /\ v \in N!Patterns /\ N!Sign(v) = 1 - s /\ N!Magnitude(v) = (Mantissas * field) + man
      /\ N!Field(v) = field /\ N!Mantissa(v) = man
  BY <1>3, NarrowParts
<1>5. N!Significand(v) = N!Significand(u) /\ N!Exponent(v) = N!Exponent(u)
  BY <1>1, <1>4 DEF N!Significand, N!Exponent
<1>6. QED
  BY <1>1, <1>2, <1>4, <1>5

(* A significand of j bits moved by d places, leaving a bit for the sum.    *)
LEMMA Shifted ==
  ASSUME NEW d \in Nat, NEW j \in Nat, d + j + 1 <= MaxBits, NEW n \in 0 .. 2^j - 1
  PROVE  n * 2^d \in 0 .. 2^(MaxBits - 1) - 1 /\ (-n) * 2^d = -(n * 2^d)
<1>1. MaxBits \in Nat /\ d + j <= MaxBits
  BY BitsAssumption
<1>2. 2^(d + j) = 2^d * 2^j /\ 2^d \in Nat \ {0} /\ 2^j \in Nat \ {0}
  BY <1>1, PowersAdd
<1>3. PICK half \in Nat : half = 2^(MaxBits - 1) /\ 2^(d + j) <= half
  <2>1. d + j \in 0 .. MaxBits /\ MaxBits - 1 \in d + j .. MaxBits
    BY <1>1
  <2>2. QED
    BY <2>1, PowersGrow
<1>4. PICK p \in Nat \ {0}, q \in Nat \ {0} : p = 2^d /\ q = 2^j
  BY <1>2
<1>5. n \in 0 .. q - 1 /\ p * q <= half
  BY <1>2, <1>3, <1>4
<1>6. n * p <= (q - 1) * p
  BY <1>4, <1>5
<1>7. (q - 1) * p = p * q - p /\ p * q \in Int
  BY <1>4
<1>8. n * p \in Nat /\ (-n) * p = -(n * p)
  BY <1>4, <1>5
<1>9. n * p \in 0 .. half - 1
  BY <1>3, <1>4, <1>5, <1>6, <1>7, <1>8
<1>10. QED
  BY <1>3, <1>4, <1>8, <1>9

(* The exact product and sum of finite operands, and those of the other sign. *)
LEMMA ExactSumFlips ==
  ASSUME NEW a \in N!Patterns, NEW b \in N!Patterns, NEW c \in N!Patterns,
         N!Field(a) # N!ExpOnes, N!Field(b) # N!ExpOnes, N!Field(c) # N!ExpOnes,
         NEW s1 \in 0 .. 1, NEW s2 \in 0 .. 1
  PROVE  LET n == N!Significand(a) * N!Significand(b)
             e == N!Exponent(a) + N!Exponent(b)
             t == N!SumOf(s1, n, e, s2, N!Significand(c), N!Exponent(c))
             o == N!SumOf(1 - s1, n, e, 1 - s2, N!Significand(c), N!Exponent(c))
         IN /\ t.num \in 0 .. 2^MaxBits - 1 /\ t.exp \in Int /\ t.exp >= 2 * N!MinExp
            /\ t.sign \in 0 .. 1
            /\ o.num = t.num /\ o.exp = t.exp
            /\ IF t.num = 0 THEN t.sign = 0 /\ o.sign = 0 ELSE o.sign = 1 - t.sign
<1>1. PICK na \in 0 .. 2^(ManBits + 1) - 1, nb \in 0 .. 2^(ManBits + 1) - 1,
           nc \in 0 .. 2^(ManBits + 1) - 1,
           ea \in N!MinExp .. N!MinExp + (2 * N!Bias - 1),
           eb \in N!MinExp .. N!MinExp + (2 * N!Bias - 1),
           ec \in N!MinExp .. N!MinExp + (2 * N!Bias - 1) :
        /\ na = N!Significand(a) /\ nb = N!Significand(b) /\ nc = N!Significand(c)
        /\ ea = N!Exponent(a) /\ eb = N!Exponent(b) /\ ec = N!Exponent(c)
  BY NarrowFinite
<1>2. N!MinExp \in Int /\ N!Bias \in Nat /\ N!MinExp = 1 - N!Bias - ManBits
  BY NarrowFinite
<1>3. /\ ManBits \in Nat /\ ManBits >= 1 /\ MaxBits \in Nat /\ LowBits \in Nat /\ LowBits >= 1
      /\ 3 * N!Bias + 2 * ManBits + 2 <= MaxBits /\ 2 * (ManBits + LowBits + 1) <= MaxBits
  BY WidthAssumption, BitsAssumption, FmaAssumption
<1>4. na * nb \in 0 .. 2^((ManBits + 1) + (ManBits + 1)) - 1
  <2>1. (ManBits + 1) + (ManBits + 1) <= MaxBits /\ ManBits + 1 \in Nat
    BY <1>3
  <2>2. /\ 2^((ManBits + 1) + (ManBits + 1)) = 2^(ManBits + 1) * 2^(ManBits + 1)
        /\ 2^(ManBits + 1) \in Nat \ {0}
    BY <2>1, PowersAdd
  <2>3. PICK m \in Nat \ {0} : m = 2^(ManBits + 1)
    BY <2>2
  <2>4. na \in 0 .. m - 1 /\ nb \in 0 .. m - 1
    BY <1>1, <2>3
  <2>5. na * nb <= na * m /\ na * m <= (m - 1) * m
    BY <2>3, <2>4
  <2>6. (m - 1) * m = m * m - m /\ m * m \in Int /\ na * nb \in Nat /\ na * m \in Int
    BY <2>3, <2>4
  <2>7. na * nb \in 0 .. m * m - 1
    BY <2>3, <2>5, <2>6
  <2>8. QED
    BY <2>2, <2>3, <2>7
<1>5. PICK n \in 0 .. 2^((ManBits + 1) + (ManBits + 1)) - 1, e \in Int : n = na * nb /\ e = ea + eb
  BY <1>1, <1>2, <1>4
<1>6. PICK k1 \in Nat, k2 \in Nat : k1 = (ManBits + 1) + (ManBits + 1) /\ k2 = ManBits + 1
  BY <1>3
<1>7. PICK low \in Int, d1 \in Nat, d2 \in Nat :
        /\ low = (IF e < ec THEN e ELSE ec) /\ d1 = e - low /\ d2 = ec - low
        /\ low >= 2 * N!MinExp /\ d1 + k1 + 1 <= MaxBits /\ d2 + k2 + 1 <= MaxBits
  <2>1. PICK low \in Int : low = (IF e < ec THEN e ELSE ec)
    BY <1>1, <1>2
  <2>2. e - low \in Nat /\ ec - low \in Nat /\ low >= 2 * N!MinExp
    BY <1>1, <1>2, <1>3, <1>5, <2>1
  <2>3. (e - low) + k1 + 1 <= MaxBits /\ (ec - low) + k2 + 1 <= MaxBits
    BY <1>1, <1>2, <1>3, <1>5, <1>6, <2>1
  <2>4. QED
    BY <2>1, <2>2, <2>3
<1>8. n \in 0 .. 2^k1 - 1 /\ nc \in 0 .. 2^k2 - 1
  BY <1>5, <1>6
<1>9. PICK x1 \in 0 .. 2^(MaxBits - 1) - 1, x2 \in 0 .. 2^(MaxBits - 1) - 1 :
        /\ x1 = n * 2^(e - low) /\ (-n) * 2^(e - low) = -x1
        /\ x2 = nc * 2^(ec - low) /\ (-nc) * 2^(ec - low) = -x2
  <2>1. n * 2^d1 \in 0 .. 2^(MaxBits - 1) - 1 /\ (-n) * 2^d1 = -(n * 2^d1)
    BY <1>7, <1>8, Shifted
  <2>2. nc * 2^d2 \in 0 .. 2^(MaxBits - 1) - 1 /\ (-nc) * 2^d2 = -(nc * 2^d2)
    BY <1>7, <1>8, Shifted
  <2>3. QED
    BY <1>7, <2>1, <2>2
<1>10. PICK half \in Nat \ {0} : half = 2^(MaxBits - 1) /\ 2^MaxBits = 2 * half
  <2>1. MaxBits - 1 \in Nat /\ 1 \in Nat /\ (MaxBits - 1) + 1 <= MaxBits /\ (MaxBits - 1) + 1 = MaxBits
    BY <1>3
  <2>2. 2^((MaxBits - 1) + 1) = 2^(MaxBits - 1) * 2^1 /\ 2^(MaxBits - 1) \in Nat \ {0}
    BY <2>1, PowersAdd
  <2>3. 2^1 = 2
    OBVIOUS
  <2>4. QED
    BY <2>1, <2>2, <2>3
<1> DEFINE total == (IF s1 = 1 THEN -x1 ELSE x1) + (IF s2 = 1 THEN -x2 ELSE x2)
<1>11. N!SumOf(s1, n, e, s2, nc, ec) =
         [sign |-> IF total < 0 THEN 1 ELSE 0, num |-> IF total < 0 THEN -total ELSE total,
          exp |-> low]
  <2>1. /\ (IF s1 = 1 THEN -n ELSE n) * 2^(e - low) = IF s1 = 1 THEN -x1 ELSE x1
        /\ (IF s2 = 1 THEN -nc ELSE nc) * 2^(ec - low) = IF s2 = 1 THEN -x2 ELSE x2
    BY <1>9
  <2>2. QED
    BY <1>7, <2>1, Zenon DEF N!SumOf
<1>12. N!SumOf(1 - s1, n, e, 1 - s2, nc, ec) =
         [sign |-> IF -total < 0 THEN 1 ELSE 0, num |-> IF -total < 0 THEN -(-total) ELSE -total,
          exp |-> low]
  <2>1. /\ (IF 1 - s1 = 1 THEN -n ELSE n) * 2^(e - low) = -(IF s1 = 1 THEN -x1 ELSE x1)
        /\ (IF 1 - s2 = 1 THEN -nc ELSE nc) * 2^(ec - low) = -(IF s2 = 1 THEN -x2 ELSE x2)
    BY <1>9
  <2>2. (-(IF s1 = 1 THEN -x1 ELSE x1)) + (-(IF s2 = 1 THEN -x2 ELSE x2)) = -total
    <3>1. x1 \in Int /\ x2 \in Int
      BY <1>10
    <3>2. QED
      BY <3>1
  <2>3. QED
    BY <1>7, <2>1, <2>2, Zenon DEF N!SumOf
<1>13. PICK x \in Int : x = total /\ x > -(2 * half) /\ x < 2 * half
  BY <1>10
<1>14. -(-x) = x /\ (x < 0 <=> -x > 0)
  OBVIOUS
<1>15. PICK t, o : t = N!SumOf(s1, n, e, s2, nc, ec) /\ o = N!SumOf(1 - s1, n, e, 1 - s2, nc, ec)
  OBVIOUS
<1>16. /\ t.num \in 0 .. 2^MaxBits - 1 /\ t.exp = low
       /\ t.sign \in 0 .. 1
       /\ o.num = t.num /\ o.exp = t.exp
       /\ IF t.num = 0 THEN t.sign = 0 /\ o.sign = 0 ELSE o.sign = 1 - t.sign
  BY <1>10, <1>11, <1>12, <1>13, <1>14, <1>15
<1>17. QED
  BY <1>1, <1>5, <1>7, <1>15, <1>16

(* The bits of a number that is not zero.                                   *)
LEMMA NarrowBits ==
  ASSUME NEW num \in 1 .. 2^MaxBits - 1
  PROVE  N!BitLength(num) \in 1 .. MaxBits
<1>1. \E j \in 1 .. MaxBits : 2^(j - 1) <= num /\ num < 2^j
  BY LeadingBit
<1>2. MaxBits \in Nat /\ MaxBits \in 0 .. MaxBits
  BY BitsAssumption
<1>3. 2^MaxBits \in Nat
  BY <1>2, PowersGrow
<1>4. num # 0
  BY <1>3
<1>5. QED
  BY <1>1, <1>4, Zenon DEF N!BitLength

(* A number halved d times, to nearest and ties to even.                    *)
LEMMA HalvedTimes ==
  ASSUME NEW num \in Nat, NEW d \in Nat, d <= MaxBits
  PROVE  LET keep == num \div 2^d
             rem == num % 2^d
             half == 2^(d - 1)
         IN keep \in Nat /\ (IF rem > half \/ (rem = half /\ keep % 2 = 1) THEN keep + 1 ELSE keep) \in Nat
<1>1. 2^d \in Nat \ {0}
  <2>1. d \in 0 .. MaxBits /\ MaxBits \in d .. MaxBits
    BY BitsAssumption
  <2>2. QED
    BY <2>1, PowersGrow
<1>2. PICK p \in Nat \ {0} : p = 2^d
  BY <1>1
<1>3. num \div p \in Nat
  BY Quotient
<1>4. PICK keep \in Nat : keep = num \div 2^d
  BY <1>2, <1>3
<1>5. QED
  BY <1>4

(* The exponent of the last place of subnormals, narrow and wide.           *)
LEMMA LowestExponent ==
  /\ N!Bias \in Nat /\ N!MinExp \in Int /\ N!MinExp = 1 - N!Bias - ManBits
  /\ W!MinExp \in Int
<1>1. N!Bias \in Nat /\ W!Bias = N!Bias
  <2>1. ExpBits - 1 \in 0 .. MaxBits
    BY WidthAssumption, BitsAssumption
  <2>2. 2^(ExpBits - 1) \in Nat \ {0}
    BY <2>1, BitsAssumption DEF PowersOfTwo
  <2>3. QED
    BY <2>2 DEF N!Bias, W!Bias
<1>2. QED
  BY <1>1, WidthAssumption DEF N!MinExp, W!MinExp

(* The early exit and the carry of the subnormal grid.                      *)
LEMMA GridSigned ==
  ASSUME NEW num \in Nat, NEW ex \in Int, ex >= 2 * N!MinExp, ex <= N!MinExp + ManBits
  PROVE  \E n \in 0 .. N!PosInf : \A s \in 0 .. 1 : SubnormalGrid(s, num, ex) = N!WithSign(s, n)
<1>1. ManBits \in Nat /\ MaxBits \in Nat /\ N!MinExp \in Int /\ -N!MinExp <= MaxBits /\ ManBits <= MaxBits
  BY LowestExponent, WidthAssumption, BitsAssumption, FmaAssumption
<1>2. Mantissas \in Nat /\ N!PosInf \in Nat /\ Mantissas <= N!PosInf
  <2>1. /\ Fields \in Nat /\ Fields >= 4 /\ Mantissas \in Nat /\ Mantissas >= 2
        /\ N!PosInf = (Fields - 1) * Mantissas
    BY Sizes
  <2>2. 3 * Mantissas <= (Fields - 1) * Mantissas
    BY <2>1
  <2>3. QED
    BY <2>1, <2>2, NarrowInfinity
<1>3. PICK shift \in Int : shift = N!MinExp - ex /\ shift <= MaxBits /\ -shift <= MaxBits
  BY <1>1
<1> DEFINE sig == IF shift <= 0 THEN num * 2^(-shift)
                  ELSE LET keep == num \div 2^shift
                           rem == num % 2^shift
                           half == 2^(shift - 1)
                       IN IF rem > half \/ (rem = half /\ keep % 2 = 1) THEN keep + 1 ELSE keep
<1>4. sig \in Nat
  <2>1. CASE shift <= 0
    <3>1. -shift \in 0 .. MaxBits /\ MaxBits \in -shift .. MaxBits
      BY <1>1, <1>3, <2>1
    <3>2. 2^(-shift) \in Nat
      BY <3>1, PowersGrow
    <3>3. num * 2^(-shift) \in Nat
      BY <3>2
    <3>4. QED
      BY <2>1, <3>3
  <2>2. CASE ~ (shift <= 0)
    <3>1. shift \in Nat /\ shift <= MaxBits
      BY <1>3, <2>2
    <3>2. QED
      BY <2>2, <3>1, HalvedTimes
  <2>3. QED
    BY <2>1, <2>2
<1>5. PICK g \in Nat : g = sig
  BY <1>4
<1>6. \A s \in 0 .. 1 : SubnormalGrid(s, num, ex) =
        IF shift > N!BitLength(num) + 2 THEN N!WithSign(s, 0)
        ELSE IF g >= Mantissas THEN N!WithSign(s, Mantissas) ELSE N!WithSign(s, g)
  BY <1>3, <1>5, Zenon DEF SubnormalGrid, Mantissas
<1>7. PICK n :
        n = IF shift > N!BitLength(num) + 2 THEN 0 ELSE IF g >= Mantissas THEN Mantissas ELSE g
  OBVIOUS
<1>8. n \in 0 .. N!PosInf
  BY <1>2, <1>5, <1>7
<1>9. \A s \in 0 .. 1 : SubnormalGrid(s, num, ex) = N!WithSign(s, n)
  BY <1>6, <1>7
<1>10. QED
  BY <1>8, <1>9

(* The significand kept is a number, and a carry drops one place more.      *)
LEMMA KeptTyped ==
  ASSUME NEW num \in 1 .. 2^MaxBits - 1
  PROVE  /\ Kept(num).sig \in Nat
         /\ Kept(num).shift \in Int /\ Kept(num).shift >= N!BitLength(num) - SigBits
<1>1. PICK bits \in 1 .. MaxBits : bits = N!BitLength(num)
  BY NarrowBits
<1>2. MaxBits \in Nat /\ ManBits \in Nat /\ ManBits + 1 <= MaxBits /\ num \in Nat /\ SigBits = ManBits + 1
  <2>1. MaxBits \in Nat /\ ManBits \in Nat /\ ManBits + 1 <= MaxBits
    BY WidthAssumption, BitsAssumption
  <2>2. MaxBits \in 0 .. MaxBits
    BY <2>1
  <2>3. 2^MaxBits \in Nat
    BY <2>2, PowersGrow
  <2>4. QED
    BY <2>1, <2>3 DEF SigBits
<1>3. PICK shift \in Int : shift = bits - SigBits /\ shift <= MaxBits /\ -shift <= MaxBits
  BY <1>1, <1>2
<1>4. CASE shift <= 0
  <2>1. -shift \in 0 .. MaxBits /\ MaxBits \in -shift .. MaxBits
    BY <1>2, <1>3, <1>4
  <2>2. 2^(-shift) \in Nat
    BY <2>1, PowersGrow
  <2>3. num * 2^(-shift) \in Nat
    BY <1>2, <2>2
  <2>4. Kept(num) = [sig |-> num * 2^(-shift), shift |-> shift]
    BY <1>1, <1>3, <1>4 DEF Kept
  <2>5. QED
    BY <1>1, <1>3, <2>3, <2>4
<1>5. CASE ~ (shift <= 0)
  <2>1. shift \in Nat /\ shift <= MaxBits
    BY <1>3, <1>5
  <2>2. PICK up \in Nat :
          up = LET keep == num \div 2^shift
                   rem == num % 2^shift
                   half == 2^(shift - 1)
               IN IF rem > half \/ (rem = half /\ keep % 2 = 1) THEN keep + 1 ELSE keep
    BY <1>2, <2>1, HalvedTimes
  <2>3. Kept(num) = IF up \div 2^SigBits = 1 THEN [sig |-> up \div 2, shift |-> shift + 1]
                    ELSE [sig |-> up, shift |-> shift]
    BY <1>1, <1>3, <1>5, <2>2, Zenon DEF Kept
  <2>4. up \div 2 \in Nat
    BY Quotient
  <2>5. QED
    BY <1>1, <1>3, <2>3, <2>4
<1>6. QED
  BY <1>4, <1>5

(* The integer path rounds either sign to the same magnitude: the second way *)
(* to the subnormal grid is never taken.                                     *)
LEMMA ExactRounds ==
  ASSUME NEW num \in 0 .. 2^MaxBits - 1, NEW ex \in Int, ex >= 2 * N!MinExp
  PROVE  \E n \in 0 .. N!PosInf : \A s \in 0 .. 1 : round_exact_to_bf16(s, num, ex) = N!WithSign(s, n)
<1>1. /\ Fields \in Nat /\ Fields >= 4 /\ Mantissas \in Nat /\ Mantissas >= 2
      /\ N!PosInf = (Fields - 1) * Mantissas /\ N!ExpOnes = Fields - 1
      /\ N!PosInf \in Nat
  BY Sizes, NarrowInfinity
<1>2. /\ ManBits \in Nat /\ MaxBits \in Nat /\ N!Bias \in Nat /\ N!MinExp = 1 - N!Bias - ManBits
      /\ N!MinExp \in Int
  BY LowestExponent, WidthAssumption, BitsAssumption
<1>3. CASE num = 0
  <2>1. \A s \in 0 .. 1 : round_exact_to_bf16(s, num, ex) = N!WithSign(s, 0)
    BY <1>3, Zenon DEF round_exact_to_bf16
  <2>2. 0 \in 0 .. N!PosInf
    BY <1>1
  <2>3. QED
    BY <2>1, <2>2
<1>4. CASE num # 0
  <2>1. num \in 1 .. 2^MaxBits - 1 /\ num \in Nat
    <3>1. MaxBits \in 0 .. MaxBits
      BY <1>2
    <3>2. 2^MaxBits \in Nat
      BY <3>1, PowersGrow
    <3>3. QED
      BY <1>4, <3>2
  <2>2. PICK bits \in 1 .. MaxBits : bits = N!BitLength(num)
    BY <2>1, NarrowBits
  <2>3. PICK sig \in Nat, shift \in Int :
          sig = Kept(num).sig /\ shift = Kept(num).shift /\ shift >= bits - (ManBits + 1)
    BY <2>1, <2>2, KeptTyped DEF SigBits
  <2>4. PICK biased \in Int, e \in Int :
          /\ biased = ex + bits - 1 + N!Bias /\ e = ex + shift + ManBits + N!Bias
          /\ e >= biased
    BY <1>2, <2>2, <2>3
  <2>5. \A s \in 0 .. 1 : round_exact_to_bf16(s, num, ex) =
          IF biased <= 0 THEN SubnormalGrid(s, num, ex)
          ELSE IF e >= N!ExpOnes THEN N!WithSign(s, N!PosInf)
          ELSE IF e <= 0 THEN SubnormalGrid(s, num, ex)
          ELSE N!WithSign(s, e * Mantissas + (sig % Mantissas))
    BY <1>4, <2>2, <2>3, <2>4, Zenon DEF round_exact_to_bf16, Mantissas
  <2>6. CASE biased <= 0
    <3>1. ex <= N!MinExp + ManBits
      BY <1>2, <2>2, <2>4, <2>6
    <3>2. QED
      BY <2>1, <2>5, <2>6, <3>1, GridSigned
  <2>7. CASE ~ (biased <= 0) /\ e >= N!ExpOnes
    <3>1. N!PosInf \in 0 .. N!PosInf
      BY <1>1
    <3>2. QED
      BY <2>5, <2>7, <3>1
  <2>8. CASE ~ (biased <= 0) /\ ~ (e >= N!ExpOnes)
    <3>1. e \in 1 .. Fields - 2
      BY <1>1, <2>4, <2>8
    <3>2. PICK man \in 0 .. Mantissas - 1 : man = sig % Mantissas
      <4>1. Mantissas \in Nat \ {0}
        BY <1>1
      <4>2. sig % Mantissas \in 0 .. Mantissas - 1
        BY <4>1, Quotient
      <4>3. QED
        BY <4>2
    <3>3. e * Mantissas + man \in 0 .. N!PosInf
      <4>1. e * Mantissas <= (Fields - 2) * Mantissas /\ e * Mantissas \in Nat
        BY <1>1, <3>1
      <4>2. (Fields - 2) * Mantissas = (Fields - 1) * Mantissas - Mantissas
        BY <1>1
      <4>3. QED
        BY <1>1, <3>2, <4>1, <4>2
    <3>4. \A s \in 0 .. 1 : round_exact_to_bf16(s, num, ex) = N!WithSign(s, e * Mantissas + man)
      BY <2>4, <2>5, <2>8, <3>1, <3>2
    <3>5. QED
      BY <3>3, <3>4
  <2>9. QED
    BY <2>6, <2>7, <2>8
<1>5. QED
  BY <1>3, <1>4

(* FP64, then FP32, then the narrow format: a magnitude, and zero of zero.  *)
LEMMA DoubleNarrowed ==
  ASSUME NEW num \in 0 .. 2^MaxBits - 1, NEW ex \in Int, ex >= 2 * N!MinExp
  PROVE  LET d == D!RoundMagnitude(num, ex)
         IN \E n \in 0 .. N!PosInf :
              /\ num = 0 => n = 0
              /\ \A s \in 0 .. 1 : to_bf16(s, D!Significand(d), D!Exponent(d)) = N!WithSign(s, n)
<1>1. /\ DoubleExp \in Nat \ {0} /\ DoubleMan \in Nat \ {0} /\ MaxBits \in Nat
      /\ DoubleExp + DoubleMan <= MaxBits
      /\ D!MinExp <= 2 * N!MinExp /\ W!MinExp - D!MinExp <= MaxBits
  BY FmaAssumption, BitsAssumption
<1>2. D!MinExp \in Int /\ D!Bias \in Int /\ D!MinExp = 1 - D!Bias - DoubleMan
  <2>1. DoubleExp - 1 \in 0 .. MaxBits
    BY <1>1
  <2>2. 2^(DoubleExp - 1) \in Nat
    BY <1>1, <2>1, BitsAssumption DEF PowersOfTwo
  <2>3. D!Bias \in Int
    BY <2>2 DEF D!Bias
  <2>4. QED
    BY <1>1, <2>3 DEF D!MinExp
<1>3. N!MinExp \in Int
  BY LowestExponent
<1>4. PICK d \in Nat : d = D!RoundMagnitude(num, ex)
  <2>1. ex >= D!MinExp - MaxBits
    BY <1>1, <1>2, <1>3
  <2>2. QED
    BY <2>1, DoubleMagnitude
<1>5. PICK mask \in Nat \ {0}, mans \in Nat \ {0} :
        /\ mask = D!SignMask /\ mans = 2^DoubleMan /\ 2 * mans <= 2^MaxBits /\ 2^MaxBits \in Nat
  <2>1. /\ DoubleExp + DoubleMan \in 0 .. MaxBits /\ DoubleMan \in Nat /\ 1 \in Nat
        /\ DoubleMan + 1 <= MaxBits /\ DoubleMan + 1 \in 0 .. MaxBits /\ MaxBits \in DoubleMan + 1 .. MaxBits
    BY <1>1
  <2>2. 2^(DoubleExp + DoubleMan) \in Nat \ {0}
    BY <2>1, BitsAssumption DEF PowersOfTwo
  <2>3. 2^(DoubleMan + 1) = 2^DoubleMan * 2^1 /\ 2^DoubleMan \in Nat \ {0}
    BY <2>1, PowersAdd
  <2>4. 2^1 = 2
    OBVIOUS
  <2>5. 2^(DoubleMan + 1) <= 2^MaxBits /\ 2^MaxBits \in Nat
    BY <2>1, PowersGrow
  <2>6. QED
    BY <2>2, <2>3, <2>4, <2>5 DEF D!SignMask
<1>6. PICK mag \in Nat : mag = D!Magnitude(d)
  <2>1. D!Magnitude(d) = d % mask
    BY <1>5 DEF D!Magnitude
  <2>2. d % mask \in 0 .. mask - 1
    BY <1>5, Quotient
  <2>3. QED
    BY <1>5, <2>1, <2>2
<1>7. PICK field \in Nat, man \in 0 .. mans - 1 : field = D!Field(d) /\ man = D!Mantissa(d)
  BY <1>5, <1>6, Quotient DEF D!Field, D!Mantissa
<1>8. PICK sig \in 0 .. 2^MaxBits - 1, ed \in Int :
        sig = D!Significand(d) /\ ed = D!Exponent(d) /\ ed >= D!MinExp
  <2>1. D!Significand(d) = IF field = 0 THEN man ELSE mans + man
    BY <1>5, <1>7 DEF D!Significand
  <2>2. D!Exponent(d) = (IF field = 0 THEN 1 ELSE field) - D!Bias - DoubleMan
    BY <1>7 DEF D!Exponent
  <2>3. D!Significand(d) \in 0 .. 2^MaxBits - 1
    BY <1>5, <1>7, <2>1
  <2>4. D!Exponent(d) \in Int /\ D!Exponent(d) >= D!MinExp
    BY <1>1, <1>2, <1>7, <2>2
  <2>5. QED
    BY <2>3, <2>4
<1>9. PICK r \in 0 .. W!PosInf : r = W!RoundMagnitude(sig, ed)
  <2>1. W!MinExp \in Int
    BY LowestExponent
  <2>2. ed >= W!MinExp - MaxBits
    BY <1>1, <1>2, <1>8, <2>1
  <2>3. QED
    BY <2>2, WideMagnitude
<1>10. Narrow(r) \in 0 .. N!PosInf /\ \A s \in 0 .. 1 : to_bf16(s, sig, ed) = N!WithSign(s, Narrow(r))
  <2>1. ASSUME NEW s \in 0 .. 1 PROVE to_bf16(s, sig, ed) = N!WithSign(s, Narrow(r))
    BY <1>9, Narrowed DEF to_bf16
  <2>2. 0 \in 0 .. 1
    OBVIOUS
  <2>3. QED
    BY <2>1, <2>2, Narrowed
<1>11. ASSUME num = 0 PROVE Narrow(r) = 0
  <2>1. d = 0
    BY <1>4, <1>11 DEF D!RoundMagnitude
  <2>2. mag = 0 /\ man = 0
    BY <1>5, <1>6, <1>7, <2>1 DEF D!Magnitude, D!Mantissa
  <2>3. field = 0
    BY <1>5, <1>6, <1>7, <2>2 DEF D!Field
  <2>4. sig = 0
    BY <1>7, <1>8, <2>2, <2>3 DEF D!Significand
  <2>5. r = 0
    BY <1>9, <2>4 DEF W!RoundMagnitude
  <2>6. Lows \in Nat \ {0} /\ 2^(LowBits - 1) \in Nat \ {0}
    BY Sizes
  <2>7. 0 \div Lows = 0 /\ 0 % Lows = 0
    BY <2>6
  <2>8. QED
    BY <2>5, <2>6, <2>7 DEF Narrow, RoundsUp
<1>12. QED
  BY <1>4, <1>8, <1>10, <1>11

(* The signs of a product and of the addend, in 0 .. 1, and turned over.    *)
LEMMA SignSum ==
  ASSUME NEW x \in 0 .. 1, NEW y \in 0 .. 1
  PROVE  /\ (x + y) % 2 \in 0 .. 1 /\ (x + (1 - y)) % 2 = 1 - ((x + y) % 2)
         /\ ((1 - x) + 0) % 2 = (x + 1) % 2 /\ (x + 1) % 2 = 1 - ((x + 0) % 2)
         /\ (x + 0) % 2 \in 0 .. 1
<1>1. (x = 0 \/ x = 1) /\ (y = 0 \/ y = 1)
  OBVIOUS
<1>2. CASE x = 0 /\ y = 0
  BY <1>2
<1>3. CASE x = 0 /\ y = 1
  BY <1>3
<1>4. CASE x = 1 /\ y = 0
  BY <1>4
<1>5. CASE x = 1 /\ y = 1
  BY <1>5
<1>6. QED
  BY <1>1, <1>2, <1>3, <1>4, <1>5

(* What decides the path and the special cases does not depend on signs.    *)
LEMMA FmaSpecials ==
  ASSUME NEW u \in N!Patterns
  PROVE  LET v == bf16_neg(u)
         IN /\ N!IsNaN(v) <=> N!IsNaN(u)
            /\ N!IsInf(v) <=> N!IsInf(u)
            /\ N!IsZero(v) <=> N!IsZero(u)
            /\ N!IsNormal(v) <=> N!IsNormal(u)
            /\ exp_of(v) = exp_of(u)
BY NarrowFlipped DEF N!IsNaN, N!IsInf, N!IsZero, N!IsNormal, exp_of

(* The fused result of the other signs, in the integer path.                *)
LEMMA ExactAlike ==
  ASSUME NEW a \in N!Patterns, NEW b \in N!Patterns, NEW c \in N!Patterns
  PROVE  NarrowAlike(bf16_fma_exact(a, b, c, 0), bf16_fma_exact(a, bf16_neg(b), c, 1))
<1>1. PICK b2 \in N!Patterns :
        /\ b2 = bf16_neg(b) /\ N!Sign(b2) = 1 - N!Sign(b) /\ N!Magnitude(b2) = N!Magnitude(b)
        /\ N!Significand(b2) = N!Significand(b) /\ N!Exponent(b2) = N!Exponent(b)
  BY NarrowFlipped
<1>2. /\ N!IsNaN(b2) <=> N!IsNaN(b)
      /\ N!IsInf(b2) <=> N!IsInf(b)
      /\ N!IsZero(b2) <=> N!IsZero(b)
  BY <1>1, FmaSpecials
<1>3. PICK ps \in 0 .. 1, cs \in 0 .. 1 :
        /\ ps = (N!Sign(a) + N!Sign(b)) % 2 /\ (N!Sign(a) + N!Sign(b2)) % 2 = 1 - ps
        /\ cs = (N!Sign(c) + 0) % 2 /\ (N!Sign(c) + 1) % 2 = 1 - cs
  <2>1. N!Sign(a) \in 0 .. 1 /\ N!Sign(b) \in 0 .. 1 /\ N!Sign(c) \in 0 .. 1
    BY NarrowPattern
  <2>2. QED
    BY <1>1, <2>1, SignSum
<1>4. PICK n, e : /\ n = N!Significand(a) * N!Significand(b)
                  /\ e = N!Exponent(a) + N!Exponent(b)
  OBVIOUS
<1>5. PICK t, o : /\ t = N!SumOf(ps, n, e, cs, N!Significand(c), N!Exponent(c))
                  /\ o = N!SumOf(1 - ps, n, e, 1 - cs, N!Significand(c), N!Exponent(c))
  OBVIOUS
<1>6. t = ExactSum(a, b, c, 0) /\ o = ExactSum(a, b2, c, 1)
  BY <1>1, <1>3, <1>4, <1>5, Zenon DEF ExactSum
<1> DEFINE invalid == \/ N!IsNaN(a) \/ N!IsNaN(b) \/ N!IsNaN(c)
                      \/ (N!IsInf(a) /\ N!IsZero(b)) \/ (N!IsInf(b) /\ N!IsZero(a))
                      \/ ((N!IsInf(a) \/ N!IsInf(b)) /\ N!IsInf(c) /\ cs # ps)
           zeros == n = 0 /\ N!Significand(c) = 0
<1>7. bf16_fma_exact(a, b, c, 0) =
        IF invalid THEN N!QNaN
        ELSE IF N!IsInf(a) \/ N!IsInf(b) THEN N!WithSign(ps, N!PosInf)
        ELSE IF N!IsInf(c) THEN N!WithSign(cs, N!PosInf)
        ELSE IF zeros THEN N!WithSign(ps * cs, 0)
        ELSE IF t.num = 0 THEN N!WithSign(0, 0)
        ELSE round_exact_to_bf16(t.sign, t.num, t.exp)
  <2>1. bf16_fma_exact(a, b, c, 0) =
          IF N!IsNaN(a) \/ N!IsNaN(b) \/ N!IsNaN(c) THEN N!QNaN
          ELSE IF (N!IsInf(a) /\ N!IsZero(b)) \/ (N!IsInf(b) /\ N!IsZero(a)) THEN N!QNaN
          ELSE IF (N!IsInf(a) \/ N!IsInf(b)) /\ N!IsInf(c) /\ cs # ps THEN N!QNaN
          ELSE IF N!IsInf(a) \/ N!IsInf(b) THEN N!WithSign(ps, N!PosInf)
          ELSE IF N!IsInf(c) THEN N!WithSign(cs, N!PosInf)
          ELSE IF zeros THEN N!WithSign(ps * cs, 0)
          ELSE IF t.num = 0 THEN N!WithSign(0, 0)
          ELSE round_exact_to_bf16(t.sign, t.num, t.exp)
    BY <1>3, <1>4, <1>6, Zenon DEF bf16_fma_exact
  <2>2. QED
    BY <2>1, Zenon
<1>8. bf16_fma_exact(a, b2, c, 1) =
        IF invalid THEN N!QNaN
        ELSE IF N!IsInf(a) \/ N!IsInf(b) THEN N!WithSign(1 - ps, N!PosInf)
        ELSE IF N!IsInf(c) THEN N!WithSign(1 - cs, N!PosInf)
        ELSE IF zeros THEN N!WithSign((1 - ps) * (1 - cs), 0)
        ELSE IF o.num = 0 THEN N!WithSign(0, 0)
        ELSE round_exact_to_bf16(o.sign, o.num, o.exp)
  <2>1. bf16_fma_exact(a, b2, c, 1) =
          IF N!IsNaN(a) \/ N!IsNaN(b2) \/ N!IsNaN(c) THEN N!QNaN
          ELSE IF (N!IsInf(a) /\ N!IsZero(b2)) \/ (N!IsInf(b2) /\ N!IsZero(a)) THEN N!QNaN
          ELSE IF (N!IsInf(a) \/ N!IsInf(b2)) /\ N!IsInf(c) /\ 1 - cs # 1 - ps THEN N!QNaN
          ELSE IF N!IsInf(a) \/ N!IsInf(b2) THEN N!WithSign(1 - ps, N!PosInf)
          ELSE IF N!IsInf(c) THEN N!WithSign(1 - cs, N!PosInf)
          ELSE IF zeros THEN N!WithSign((1 - ps) * (1 - cs), 0)
          ELSE IF o.num = 0 THEN N!WithSign(0, 0)
          ELSE round_exact_to_bf16(o.sign, o.num, o.exp)
    BY <1>1, <1>3, <1>4, <1>6, Zenon DEF bf16_fma_exact
  <2>2. 1 - cs # 1 - ps <=> cs # ps
    OBVIOUS
  <2>3. QED
    BY <1>2, <2>1, <2>2, Zenon
<1>9. CASE invalid
  BY <1>1, <1>7, <1>8, <1>9, Zenon DEF NarrowAlike, NarrowOpposite
<1>10. ASSUME NEW s \in 0 .. 1
       PROVE  NarrowAlike(N!WithSign(s, N!PosInf), N!WithSign(1 - s, N!PosInf))
  <2>1. N!PosInf \in 0 .. N!PosInf
    BY NarrowInfinity
  <2>2. QED
    BY <2>1 DEF NarrowAlike, NarrowOpposite
<1>11. CASE ~ invalid /\ (N!IsInf(a) \/ N!IsInf(b))
  BY <1>1, <1>7, <1>8, <1>10, <1>11
<1>12. CASE ~ invalid /\ ~ (N!IsInf(a) \/ N!IsInf(b)) /\ N!IsInf(c)
  BY <1>1, <1>7, <1>8, <1>10, <1>12
<1>13. CASE ~ invalid /\ ~ (N!IsInf(a) \/ N!IsInf(b)) /\ ~ N!IsInf(c) /\ zeros
  <2>1. /\ bf16_fma_exact(a, b, c, 0) = N!WithSign(ps * cs, 0)
        /\ bf16_fma_exact(a, b2, c, 1) = N!WithSign((1 - ps) * (1 - cs), 0)
    BY <1>7, <1>8, <1>13, Zenon
  <2>2. 0 \in 0 .. N!PosInf /\ 0 \in 0 .. 1 /\ 1 \in 0 .. 1
    BY NarrowInfinity
  <2>3. CASE ps = cs
    <3>1. ps * cs = ps /\ (1 - ps) * (1 - cs) = 1 - ps
      <4>1. CASE ps = 0
        BY <2>3, <4>1
      <4>2. CASE ps = 1
        BY <2>3, <4>2
      <4>3. QED
        BY <4>1, <4>2
    <3>2. QED
      BY <1>1, <2>1, <2>2, <3>1 DEF NarrowAlike, NarrowOpposite
  <2>4. CASE ps # cs
    <3>1. ps * cs = 0 /\ (1 - ps) * (1 - cs) = 0
      <4>1. CASE ps = 0
        BY <2>4, <4>1
      <4>2. CASE ps = 1
        BY <2>4, <4>2
      <4>3. QED
        BY <4>1, <4>2
    <3>2. QED
      BY <1>1, <2>1, <3>1 DEF NarrowAlike
  <2>5. QED
    BY <2>3, <2>4
<1>14. CASE ~ invalid /\ ~ (N!IsInf(a) \/ N!IsInf(b)) /\ ~ N!IsInf(c) /\ ~ zeros
  <2>1. N!Field(a) # N!ExpOnes /\ N!Field(b) # N!ExpOnes /\ N!Field(c) # N!ExpOnes
    BY <1>14, Zenon DEF N!IsNaN, N!IsInf
  <2>2. /\ t.num \in 0 .. 2^MaxBits - 1 /\ t.exp \in Int /\ t.exp >= 2 * N!MinExp
        /\ t.sign \in 0 .. 1
        /\ o.num = t.num /\ o.exp = t.exp
        /\ IF t.num = 0 THEN t.sign = 0 /\ o.sign = 0 ELSE o.sign = 1 - t.sign
    BY <1>4, <1>5, <2>1, ExactSumFlips
  <2>3. CASE t.num = 0
    BY <1>1, <1>7, <1>8, <1>14, <2>2, <2>3, Zenon DEF NarrowAlike
  <2>4. CASE t.num # 0
    <3>1. /\ bf16_fma_exact(a, b, c, 0) = round_exact_to_bf16(t.sign, t.num, t.exp)
          /\ bf16_fma_exact(a, b2, c, 1) = round_exact_to_bf16(1 - t.sign, t.num, t.exp)
      BY <1>7, <1>8, <1>14, <2>2, <2>4, Zenon
    <3>2. PICK r \in 0 .. N!PosInf :
            \A s \in 0 .. 1 : round_exact_to_bf16(s, t.num, t.exp) = N!WithSign(s, r)
      BY <2>2, ExactRounds, Zenon
    <3>3. t.sign \in 0 .. 1 /\ 1 - t.sign \in 0 .. 1
      BY <2>2
    <3>4. QED
      BY <1>1, <3>1, <3>2, <3>3, Zenon DEF NarrowAlike, NarrowOpposite
  <2>5. QED
    BY <2>3, <2>4
<1>15. QED
  BY <1>9, <1>11, <1>12, <1>13, <1>14

(* The same of both paths, of which the same one is taken.                  *)
LEMMA FmaAlike ==
  ASSUME NEW a \in N!Patterns, NEW b \in N!Patterns, NEW c \in N!Patterns
  PROVE  NarrowAlike(bf16_fma(a, b, c, 0), bf16_fma(a, bf16_neg(b), c, 1))
<1>1. PICK b2 \in N!Patterns :
        /\ b2 = bf16_neg(b) /\ N!Sign(b2) = 1 - N!Sign(b)
        /\ N!Significand(b2) = N!Significand(b) /\ N!Exponent(b2) = N!Exponent(b)
        /\ N!IsNormal(b2) <=> N!IsNormal(b)
        /\ exp_of(b2) = exp_of(b)
  BY NarrowFlipped, FmaSpecials
<1>2. risky(a, b2, c) <=> risky(a, b, c)
  BY <1>1, Zenon DEF risky
<1>3. CASE risky(a, b, c)
  BY <1>1, <1>2, <1>3, ExactAlike DEF bf16_fma
<1>4. CASE ~ risky(a, b, c)
  <2>1. N!Field(a) # N!ExpOnes /\ N!Field(b) # N!ExpOnes /\ N!Field(c) # N!ExpOnes
    BY <1>4, Zenon DEF risky, N!IsNormal
  <2>2. PICK ps \in 0 .. 1, cs \in 0 .. 1 :
          /\ ps = (N!Sign(a) + N!Sign(b)) % 2 /\ (N!Sign(a) + N!Sign(b2)) % 2 = 1 - ps
          /\ cs = (N!Sign(c) + 0) % 2 /\ (N!Sign(c) + 1) % 2 = 1 - cs
    <3>1. N!Sign(a) \in 0 .. 1 /\ N!Sign(b) \in 0 .. 1 /\ N!Sign(c) \in 0 .. 1
      BY NarrowPattern
    <3>2. QED
      BY <1>1, <3>1, SignSum
  <2>3. PICK n, e : /\ n = N!Significand(a) * N!Significand(b)
                    /\ e = N!Exponent(a) + N!Exponent(b)
    OBVIOUS
  <2>4. PICK t, o : /\ t = N!SumOf(ps, n, e, cs, N!Significand(c), N!Exponent(c))
                    /\ o = N!SumOf(1 - ps, n, e, 1 - cs, N!Significand(c), N!Exponent(c))
    OBVIOUS
  <2>5. t = ExactSum(a, b, c, 0) /\ o = ExactSum(a, b2, c, 1)
    BY <1>1, <2>2, <2>3, <2>4, Zenon DEF ExactSum
  <2>6. /\ t.num \in 0 .. 2^MaxBits - 1 /\ t.exp \in Int /\ t.exp >= 2 * N!MinExp
        /\ t.sign \in 0 .. 1
        /\ o.num = t.num /\ o.exp = t.exp
        /\ IF t.num = 0 THEN t.sign = 0 /\ o.sign = 0 ELSE o.sign = 1 - t.sign
    BY <2>1, <2>3, <2>4, ExactSumFlips
  <2>7. PICK d : d = D!RoundMagnitude(t.num, t.exp)
    OBVIOUS
  <2>8. PICK r \in 0 .. N!PosInf :
          /\ t.num = 0 => r = 0
          /\ \A s \in 0 .. 1 : to_bf16(s, D!Significand(d), D!Exponent(d)) = N!WithSign(s, r)
    BY <2>6, <2>7, DoubleNarrowed, Zenon
  <2>9. /\ bf16_fma(a, b, c, 0) = to_bf16(t.sign, D!Significand(d), D!Exponent(d))
        /\ bf16_fma(a, b2, c, 1) = to_bf16(o.sign, D!Significand(d), D!Exponent(d))
    BY <1>2, <1>4, <2>5, <2>6, <2>7, Zenon DEF bf16_fma, double_path
  <2>10. CASE t.num = 0
    <3>1. 0 \in 0 .. 1
      OBVIOUS
    <3>2. r = 0 /\ t.sign = 0 /\ o.sign = 0
      BY <2>6, <2>8, <2>10
    <3>3. QED
      BY <1>1, <2>8, <2>9, <3>1, <3>2, Zenon DEF NarrowAlike
  <2>11. CASE t.num # 0
    <3>1. t.sign \in 0 .. 1 /\ o.sign = 1 - t.sign /\ 1 - t.sign \in 0 .. 1
      BY <2>6, <2>11
    <3>2. QED
      BY <1>1, <2>8, <2>9, <3>1, Zenon DEF NarrowAlike, NarrowOpposite
  <2>12. QED
    BY <2>10, <2>11
<1>5. QED
  BY <1>3, <1>4

(* Subtracting an addend is adding the one of the other sign.               *)
LEMMA FmaAddend ==
  ASSUME NEW a \in N!Patterns, NEW b \in N!Patterns, NEW c \in N!Patterns
  PROVE  bf16_fma(a, b, bf16_neg(c), 0) = bf16_fma(a, b, c, 1)
<1>1. PICK c2 \in N!Patterns :
        /\ c2 = bf16_neg(c)
        /\ N!Significand(c2) = N!Significand(c) /\ N!Exponent(c2) = N!Exponent(c)
        /\ N!IsNormal(c2) <=> N!IsNormal(c)
        /\ N!IsNaN(c2) <=> N!IsNaN(c)
        /\ N!IsInf(c2) <=> N!IsInf(c)
        /\ exp_of(c2) = exp_of(c)
  BY NarrowFlipped, FmaSpecials
<1>2. (N!Sign(c2) + 0) % 2 = (N!Sign(c) + 1) % 2
  <2>1. N!Sign(c) \in 0 .. 1 /\ N!Sign(c2) = 1 - N!Sign(c)
    BY <1>1, NarrowPattern, NarrowFlipped
  <2>2. QED
    BY <2>1, SignSum
<1>3. risky(a, b, c2) <=> risky(a, b, c)
  BY <1>1, Zenon DEF risky
<1>4. ExactSum(a, b, c2, 0) = ExactSum(a, b, c, 1)
  BY <1>1, <1>2, Zenon DEF ExactSum
<1>5. double_path(a, b, c2, 0) = double_path(a, b, c, 1)
  BY <1>4, Zenon DEF double_path
<1>6. bf16_fma_exact(a, b, c2, 0) = bf16_fma_exact(a, b, c, 1)
  BY <1>1, <1>2, <1>4 DEF bf16_fma_exact
<1>7. QED
  BY <1>1, <1>3, <1>5, <1>6, Zenon DEF bf16_fma

(* An addend that is not a number gives what is not a number.               *)
LEMMA FmaNotANumber ==
  ASSUME NEW a \in N!Patterns, NEW b \in N!Patterns, NEW sub \in 0 .. 1
  PROVE  bf16_fma(a, b, N!QNaN, sub) = N!QNaN
<1>1. N!IsNaN(N!QNaN)
  BY NotANumber
<1>2. N!Field(N!QNaN) = N!ExpOnes
  BY <1>1 DEF N!IsNaN
<1>3. risky(a, b, N!QNaN)
  BY <1>2 DEF risky, N!IsNormal
<1>4. bf16_fma_exact(a, b, N!QNaN, sub) = N!QNaN
  BY <1>1, Zenon DEF bf16_fma_exact
<1>5. QED
  BY <1>3, <1>4, Zenon DEF bf16_fma

LEMMA FusedTurns ==
  ASSUME NEW x \in N!Patterns, NEW y \in N!Patterns, NEW c \in N!Patterns, NEW s \in N!Patterns
  PROVE  Turned(fused(x, y, c, s), fused(x, y, bf16_neg(s), c))
<1>1. PICK ys \in N!Patterns, yc \in N!Patterns, yn \in N!Patterns :
        /\ ys = bf16_mul(y, s, FALSE) /\ yc = bf16_mul(y, c, FALSE)
        /\ yn = bf16_mul(y, bf16_neg(s), FALSE)
        /\ (ys = N!QNaN /\ yn = N!QNaN) \/ yn = bf16_neg(ys)
  <2>1. NarrowOpposite(bf16_mul(y, s, FALSE), bf16_mul(y, bf16_neg(s), FALSE))
    BY ProductOpposite
  <2>2. bf16_mul(y, s, FALSE) \in N!Patterns /\ bf16_mul(y, c, FALSE) \in N!Patterns
    BY ProductOpposite
  <2>3. QED
    BY <2>1, <2>2, AlikeSame DEF NarrowAlike
<1>2. PICK r1, r2, t1, t2 :
        /\ r1 = bf16_fma(x, c, ys, 1) /\ r2 = bf16_fma(x, s, yc, 0)
        /\ t1 = bf16_fma(x, bf16_neg(s), yc, 1) /\ t2 = bf16_fma(x, c, yn, 0)
  OBVIOUS
<1>3. fused(x, y, c, s) = <<r1, r2>> /\ fused(x, y, bf16_neg(s), c) = <<t1, t2>>
  BY <1>1, <1>2, Zenon DEF fused
<1>4. SameValue(t1, bf16_neg(r2))
  BY <1>2, FmaAlike, AlikeSame
<1>5. SameValue(t2, r1)
  <2>1. t2 = r1
    <3>1. CASE ys = N!QNaN /\ yn = N!QNaN
      <4>1. 0 \in 0 .. 1 /\ 1 \in 0 .. 1
        OBVIOUS
      <4>2. QED
        BY <1>2, <3>1, <4>1, FmaNotANumber
    <3>2. CASE yn = bf16_neg(ys)
      BY <1>2, <3>2, FmaAddend
    <3>3. QED
      BY <1>1, <3>1, <3>2
  <2>2. QED
    BY <2>1 DEF SameValue
<1>6. QED
  BY <1>3, <1>4, <1>5, TurnedPair

(* Half a turn on, the same entry is selected, with the other sign.         *)
LEMMA HalfTurnOn ==
  ASSUME NEW p \in Phases
  PROVE  LET h == cos_phase(cos_phase(p))
         IN ridx(h) = ridx(p) /\ (negate(h) <=> ~ negate(p))
<1>1. PICK b \in Nat \ {0}, n \in Nat \ {0}, quarter \in Nat \ {0} :
        b = Bucket /\ n = LutN /\ quarter = QuarterTurn /\ quarter = b * n /\ FullTurn = 4 * quarter
  BY TurnDivides
<1>2. PICK q \in 0 .. 3, i \in 0 .. n - 1 :
        p \div b = (n * q) + i /\ quad(p) = q /\ idx(p) = i
  BY <1>1, BucketOfPhase
<1>3. PICK r \in 0 .. b - 1 : p = (b * ((n * q) + i)) + r
  <2>1. p \in Int /\ p = (b * (p \div b)) + (p % b) /\ p % b \in 0 .. b - 1
    BY Division DEF Phases
  <2>2. QED
    BY <1>2, <2>1
<1>4. PICK rest \in 0 .. quarter - 1 : p = (quarter * q) + rest /\ rest = (b * i) + r
  <2>1. b * ((n * q) + i) = (b * (n * q)) + (b * i) /\ b * (n * q) = (b * n) * q
    <3>1. b * ((n * q) + i) = (b * (n * q)) + (b * i)
      BY Distributes
    <3>2. b * (n * q) = (b * n) * q
      OBVIOUS
    <3>3. QED
      BY <3>1, <3>2
  <2>2. b * i <= b * (n - 1) /\ b * (n - 1) = b * n - b /\ b * i \in Nat /\ b * n \in Int
    OBVIOUS
  <2>3. (b * i) + r \in 0 .. quarter - 1
    BY <1>1, <2>2
  <2>4. (quarter * q) \in Int /\ b * (n * q) = quarter * q
    BY <1>1, <2>1
  <2>5. QED
    BY <1>3, <2>1, <2>2, <2>3, <2>4
<1>5. PICK q2 \in 0 .. 3 : q2 = IF q <= 1 THEN q + 2 ELSE q - 2
  OBVIOUS
<1>6. ASSUME NEW z \in 0 .. 3, NEW z2 \in 0 .. 3, z2 = (IF z <= 2 THEN z + 1 ELSE 0)
      PROVE  cos_phase((quarter * z) + rest) = (quarter * z2) + rest
  <2>1. CASE z <= 2
    <3>1. (quarter * z) + rest + quarter = (quarter * z2) + rest
      BY <1>6, <2>1
    <3>2. (quarter * z2) + rest \in 0 .. 4 * quarter - 1
      BY <1>6, <2>1
    <3>3. ((quarter * z2) + rest) % (4 * quarter) = (quarter * z2) + rest
      BY <3>2
    <3>4. QED
      BY <1>1, <3>1, <3>3 DEF cos_phase
  <2>2. CASE z = 3
    <3>1. (quarter * z) + rest + quarter = ((4 * quarter) * 1) + rest
      BY <2>2
    <3>2. rest \in 0 .. 4 * quarter - 1 /\ 4 * quarter \in Nat \ {0}
      OBVIOUS
    <3>3. (((4 * quarter) * 1) + rest) % (4 * quarter) = rest
      <4>1. ((4 * quarter) * 1) + rest \in Int
        OBVIOUS
      <4>2. QED
        BY <3>2, <4>1, RemainderUnique
    <3>4. (quarter * z2) + rest = rest
      BY <1>6, <2>2
    <3>5. QED
      BY <1>1, <3>1, <3>3, <3>4 DEF cos_phase
  <2>3. QED
    BY <1>6, <2>1, <2>2
<1>7. PICK h \in Phases : h = cos_phase(cos_phase(p)) /\ h = (quarter * q2) + rest
  <2>1. PICK q1 \in 0 .. 3 : q1 = (IF q <= 2 THEN q + 1 ELSE 0)
    OBVIOUS
  <2>2. cos_phase(p) = (quarter * q1) + rest
    BY <1>4, <1>6, <2>1
  <2>3. q2 = (IF q1 <= 2 THEN q1 + 1 ELSE 0)
    BY <1>5, <2>1
  <2>4. cos_phase((quarter * q1) + rest) = (quarter * q2) + rest
    BY <1>6, <2>3
  <2>5. cos_phase(cos_phase(p)) \in Phases
    BY QuarterOn
  <2>6. QED
    BY <2>2, <2>4, <2>5
<1>8. h \div b = (n * q2) + i
  <2>1. (quarter * q2) + rest = (b * ((n * q2) + i)) + r
    <3>1. b * ((n * q2) + i) = (b * (n * q2)) + (b * i)
      BY Distributes
    <3>2. b * (n * q2) = (b * n) * q2
      OBVIOUS
    <3>3. (b * n) * q2 = quarter * q2 /\ quarter * q2 \in Int /\ b * i \in Int
      BY <1>1
    <3>4. QED
      BY <1>4, <3>1, <3>2, <3>3
  <2>2. PICK v \in Int : v = (n * q2) + i
    OBVIOUS
  <2>3. h = (b * v) + r /\ h \in Int
    BY <1>7, <2>1, <2>2 DEF Phases
  <2>4. h \div b = v
    BY <2>3, QuotientUnique
  <2>5. QED
    BY <2>2, <2>4
<1>9. PICK q3 \in 0 .. 3, i3 \in 0 .. n - 1 :
        (n * q2) + i = (n * q3) + i3 /\ quad(h) = q3 /\ idx(h) = i3
  BY <1>1, <1>8, BucketOfPhase
<1>10. q3 = q2 /\ i3 = i
  <2>1. PICK v \in Int : v = (n * q2) + i /\ v = (n * q3) + i3
    BY <1>9
  <2>2. v \div n = q2 /\ v \div n = q3
    BY <2>1, QuotientUnique
  <2>3. v % n = i /\ v % n = i3
    BY <2>1, RemainderUnique
  <2>4. QED
    BY <2>2, <2>3
<1>11. quad(h) = q2 /\ idx(h) = idx(p)
  BY <1>2, <1>9, <1>10
<1>12. ridx(h) = ridx(p)
  <2>1. reflect(h) <=> reflect(p)
    BY <1>2, <1>5, <1>11 DEF reflect
  <2>2. QED
    BY <1>11, <2>1 DEF ridx
<1>13. negate(h) <=> ~ negate(p)
  BY <1>2, <1>5, <1>11 DEF negate
<1>14. QED
  BY <1>7, <1>12, <1>13

(* The sine and cosine of a phase are patterns; a quarter turn on they are   *)
(* the cosine and the opposite of the sine.                                  *)
LEMMA QuarterTurnTable ==
  ASSUME NEW p \in Phases
  PROVE  /\ lut_sin(p) \in N!Patterns /\ lut_cos(p) \in N!Patterns
         /\ lut_sin(cos_phase(p)) = lut_cos(p)
         /\ lut_cos(cos_phase(p)) = bf16_neg(lut_sin(p))
<1>1. ASSUME NEW q \in Phases
      PROVE  lut_sin(q) \in N!Patterns /\ sin_lut_bf16[ridx(q)] \in N!Patterns
  <2>1. ridx(q) \in 0 .. LutN - 1
    BY PathFolds
  <2>2. PICK entry \in N!Patterns : entry = sin_lut_bf16[ridx(q)]
    BY <2>1, TableEntry
  <2>3. bf16_neg(entry) \in N!Patterns
    BY NarrowFlipped
  <2>4. QED
    BY <2>2, <2>3 DEF lut_sin
<1>2. cos_phase(p) \in Phases
  BY QuarterOn
<1>0. PICK h : h = cos_phase(cos_phase(p))
  OBVIOUS
<1>3. PICK entry \in N!Patterns :
        /\ entry = sin_lut_bf16[ridx(p)]
        /\ ridx(h) = ridx(p) /\ (negate(h) <=> ~ negate(p))
  BY <1>0, <1>1, HalfTurnOn
<1>4. lut_sin(h) = bf16_neg(lut_sin(p))
  <2>1. CASE negate(p)
    <3>1. lut_sin(p) = bf16_neg(entry) /\ lut_sin(h) = entry
      BY <1>3, <2>1 DEF lut_sin
    <3>2. QED
      BY <3>1, NegatedTwice
  <2>2. CASE ~ negate(p)
    BY <1>3, <2>2 DEF lut_sin
  <2>3. QED
    BY <2>1, <2>2
<1>5. QED
  BY <1>0, <1>1, <1>2, <1>3, <1>4 DEF lut_cos

(* The operands the generator names one by one are patterns.                *)
LEMMA SpecialPatterns == SPECIAL_BF16 \subseteq N!Patterns
<1>1. PICK m \in Nat, half \in Nat, f \in Nat :
        /\ m = 2^ManBits /\ half = 2^(ManBits - 1) /\ m = 2 * half /\ half >= 1
        /\ f = N!Bias /\ f >= 1 /\ Fields = 2 * f + 2
  <2>1. /\ ExpBits - 2 \in Nat /\ ManBits - 1 \in Nat /\ 1 \in Nat
        /\ (ExpBits - 2) + 1 = ExpBits - 1 /\ (ExpBits - 2) + 1 <= MaxBits
        /\ (ManBits - 1) + 1 = ManBits /\ (ManBits - 1) + 1 <= MaxBits
        /\ ExpBits - 1 \in Nat /\ (ExpBits - 1) + 1 = ExpBits /\ (ExpBits - 1) + 1 <= MaxBits
    BY WidthAssumption, BitsAssumption
  <2>2. /\ 2^((ExpBits - 2) + 1) = 2^(ExpBits - 2) * 2^1 /\ 2^(ExpBits - 2) \in Nat \ {0}
    BY <2>1, PowersAdd
  <2>3. /\ 2^((ManBits - 1) + 1) = 2^(ManBits - 1) * 2^1 /\ 2^(ManBits - 1) \in Nat \ {0}
    BY <2>1, PowersAdd
  <2>4. /\ 2^((ExpBits - 1) + 1) = 2^(ExpBits - 1) * 2^1 /\ 2^(ExpBits - 1) \in Nat \ {0}
    BY <2>1, PowersAdd
  <2>5. 2^1 = 2
    OBVIOUS
  <2>6. 2^(ExpBits - 1) = 2 * 2^(ExpBits - 2) /\ 2^ExpBits = 2 * 2^(ExpBits - 1)
    BY <2>1, <2>2, <2>4, <2>5
  <2>7. N!Bias \in Nat /\ N!Bias >= 1 /\ Fields = 2 * N!Bias + 2
    BY <2>2, <2>4, <2>6 DEF N!Bias, Fields
  <2>8. 2^ManBits = 2 * 2^(ManBits - 1)
    BY <2>1, <2>3, <2>5
  <2>9. QED
    BY <2>3, <2>7, <2>8
<1>2. PICK inf \in Nat, mask \in Nat, one \in Nat :
        /\ inf = N!PosInf /\ mask = N!SignMask /\ one = f * m
        /\ mask = inf + m /\ inf >= one + 2 * m /\ one >= m
  <2>1. N!PosInf = (Fields - 1) * Mantissas /\ N!SignMask = Fields * Mantissas /\ m = Mantissas
    BY <1>1, Sizes DEF Mantissas
  <2>2. (2 * f + 1) * m = (f * m) + (f * m) + m /\ (2 * f + 2) * m = (f * m) + (f * m) + 2 * m
    BY <1>1
  <2>3. f * m \in Nat /\ f * m >= 1 * m
    BY <1>1
  <2>4. Fields - 1 = 2 * f + 1
    BY <1>1
  <2>5. N!PosInf = (2 * f + 1) * m /\ N!SignMask = (2 * f + 2) * m
    BY <1>1, <2>1, <2>4
  <2>6. N!PosInf = (f * m) + (f * m) + m /\ N!SignMask = (f * m) + (f * m) + 2 * m
    BY <2>2, <2>5
  <2>7. PICK product \in Nat : product = f * m /\ product >= m
    BY <2>3
  <2>8. N!PosInf = product + product + m /\ N!SignMask = product + product + 2 * m
    BY <2>6, <2>7
  <2>9. /\ N!PosInf \in Nat /\ N!SignMask \in Nat
        /\ N!SignMask = N!PosInf + m /\ N!PosInf >= product + 2 * m
    BY <1>1, <2>7, <2>8
  <2>10. QED
    BY <2>7, <2>9, Zenon
<1>3. N!QNaN = inf + half
  BY <1>1, <1>2 DEF N!QNaN
<1>4. ASSUME NEW u \in 0 .. mask - 1 PROVE N!WithSign(1, u) \in N!Patterns
  BY <1>2, <1>4 DEF N!WithSign, N!Patterns
<1>5. ASSUME NEW u \in 0 .. mask PROVE u \in N!Patterns
  BY <1>1, <1>2, <1>5 DEF N!Patterns
<1>6. {0, inf, inf + half, inf + half + 1, inf + 1, 1, m - 1, m, inf - 1, one, one - m, one + m, one + 1}
        \subseteq 0 .. mask
  BY <1>1, <1>2
<1>7. {0, inf, inf + half, 1, m, inf - 1, one} \subseteq 0 .. mask - 1
  BY <1>1, <1>2
<1>8. SPECIAL_BF16 =
        {0, inf, inf + half, inf + half + 1, inf + 1, 1, m - 1, m, inf - 1, one, one - m, one + m, one + 1}
          \cup {N!WithSign(1, u) : u \in {0, inf, inf + half, 1, m, inf - 1, one}}
  BY <1>1, <1>2, <1>3, Zenon DEF SPECIAL_BF16
<1>9. QED
  BY <1>4, <1>5, <1>6, <1>7, <1>8

(* A quarter turn more gives exactly (-y', x') in the three models of the    *)
(* rotation, for every width of the formats, of the phase and of the table,  *)
(* every table, every frequency bucket and every operand of a line.          *)
THEOREM QuarterTurns == BenchSpec => []QuarterTurnExact
<1>1. BenchInv => QuarterTurnExact
  <2> SUFFICES ASSUME BenchInv, Complete("datapath", 2), NEW bucket \in 0 .. 4 * LutN - 1,
                      NEW p, p = bucket * 2^(PhaseBits - 2 - LutBits)
               PROVE  /\ Turned(strict(line[1], line[2], lut_cos(p), lut_sin(p), FALSE),
                                strict(line[1], line[2], lut_cos(cos_phase(p)),
                                       lut_sin(cos_phase(p)), FALSE))
                      /\ Turned(fused(line[1], line[2], lut_cos(p), lut_sin(p)),
                                fused(line[1], line[2], lut_cos(cos_phase(p)),
                                      lut_sin(cos_phase(p))))
                      /\ Turned(wide(line[1], line[2], lut_cos(p), lut_sin(p)),
                                wide(line[1], line[2], lut_cos(cos_phase(p)),
                                     lut_sin(cos_phase(p))))
    BY Zenon DEF QuarterTurnExact, Turned
  <2>1. PICK x \in N!Patterns, y \in N!Patterns : x = line[1] /\ y = line[2]
    <3>1. line[1] \in SPECIAL_BF16 /\ line[2] \in Multipliers
      BY DEF BenchInv, LineOf, Complete
    <3>2. QED
      BY <3>1, SpecialPatterns, OperandsAssumption
  <2>2. p \in Phases
    <3>1. PICK b \in Nat \ {0}, n \in Nat \ {0} :
            b = Bucket /\ n = LutN /\ FullTurn = 4 * (b * n)
      BY TurnDivides
    <3>2. bucket \in 0 .. 4 * n - 1 /\ p = bucket * b
      BY <3>1 DEF Bucket
    <3>3. bucket * b <= (4 * n - 1) * b
      BY <3>2
    <3>4. (4 * n - 1) * b = 4 * (b * n) - b /\ bucket * b \in Nat /\ b * n \in Int
      BY <3>2
    <3>5. QED
      BY <3>1, <3>2, <3>3, <3>4 DEF Phases
  <2>3. PICK c \in N!Patterns, s \in N!Patterns :
          /\ c = lut_cos(p) /\ s = lut_sin(p)
          /\ lut_sin(cos_phase(p)) = c /\ lut_cos(cos_phase(p)) = bf16_neg(s)
    BY <2>2, QuarterTurnTable
  <2>4. /\ Turned(strict(x, y, c, s, FALSE), strict(x, y, bf16_neg(s), c, FALSE))
        /\ Turned(fused(x, y, c, s), fused(x, y, bf16_neg(s), c))
        /\ Turned(wide(x, y, c, s), wide(x, y, bf16_neg(s), c))
    BY StrictTurns, FusedTurns, WideTurns
  <2>5. QED
    BY <2>1, <2>3, <2>4, Zenon
<1>2. QED
  BY <1>1, BenchInvariant, PTL

-----------------------------------------------------------------------------
(* The whole instruction, from the units it is built of.                    *)

(* The two halves of a word are read back as they were packed.              *)
LEMMA PackedPair ==
  ASSUME NEW x \in Nat, NEW y \in 0 .. HalfWord - 1
  PROVE  /\ pair_x(pack_pair(x, y)) = x /\ pair_y(pack_pair(x, y)) = y
<1>1. HalfWord \in Nat \ {0}
  BY Sizes DEF HalfWord
<1>2. PICK d \in Nat \ {0}, w \in Int : d = HalfWord /\ w = pack_pair(x, y) /\ w = (d * x) + y
  <2>1. pack_pair(x, y) = (HalfWord * x) + y /\ (HalfWord * x) + y \in Int
    BY <1>1 DEF pack_pair
  <2>2. QED
    BY <1>1, <2>1
<1>3. w \div d = x
  BY <1>2, QuotientUnique
<1>4. w % d = y
  BY <1>2, RemainderUnique
<1>5. QED
  BY <1>2, <1>3, <1>4, Zenon DEF pair_x, pair_y

(* The phase of a token is a phase.                                         *)
LEMMA PhaseOfToken ==
  ASSUME NEW m \in 0 .. 2^PosBits - 1, NEW i \in Pairs
  PROVE  phase_of(m, i) \in Phases /\ m \in Nat
<1>1. m \in Nat
  <2>1. PosBits \in 0 .. PosBits + PhaseBits
    BY PhaseAssumption
  <2>2. 2^PosBits \in Nat
    BY <2>1, PhasePowers DEF PowersOfTwo
  <2>3. QED
    BY <2>2
<1>2. PICK phi \in Int : phi = phi_table[i]
  BY IncrementInTurn DEF Phases
<1>3. m * phi \in Int /\ FullTurn \in Nat \ {0}
  BY <1>1, TurnIsPower
<1>4. (m * phi) % FullTurn \in 0 .. FullTurn - 1
  BY <1>3, Division, Zenon
<1>5. QED
  BY <1>1, <1>2, <1>4, Zenon DEF phase_of, Phases

(* What the units are given: the halves of rs1, and the cosine and sine of   *)
(* the phase the golden model computes.                                     *)
LEMMA OperandsDecoded ==
  ASSUME NEW x \in N!Patterns, NEW y \in N!Patterns,
         NEW m \in 0 .. 2^PosBits - 1, NEW i \in Pairs
  PROVE  decoded(pack_pair(x, y), pack_pair(m, i)) =
           [x |-> x, y |-> y, s |-> lut_sin(phase_of(m, i)), c |-> lut_cos(phase_of(m, i))]
<1>1. pair_x(pack_pair(x, y)) = x /\ pair_y(pack_pair(x, y)) = y
  <2>1. x \in Nat /\ y \in 0 .. HalfWord - 1
    BY Sizes DEF N!Patterns, HalfWord
  <2>2. QED
    BY <2>1, PackedPair
<1>2. i \in Nat /\ i < 2^PairIdxBits /\ i < HalfWord /\ 2^PairIdxBits \in Nat \ {0}
  <2>1. PairIdxBits \in 0 .. ExpBits + ManBits /\ ExpBits + ManBits \in 0 .. MaxBits
    BY SineAssumption, WidthAssumption, BitsAssumption
  <2>2. PairIdxBits \in 0 .. MaxBits /\ ExpBits + ManBits \in PairIdxBits .. MaxBits
    BY <2>1, BitsAssumption
  <2>3. 2^PairIdxBits <= 2^(ExpBits + ManBits) /\ 2^PairIdxBits \in Nat \ {0}
    BY <2>2, PowersGrow, BitsAssumption DEF PowersOfTwo
  <2>4. PICK a \in Nat \ {0} : a = 2^PairIdxBits /\ a <= N!SignMask /\ NumPairs <= a
    BY <2>3, SineAssumption DEF N!SignMask
  <2>5. i \in 0 .. NumPairs - 1 /\ NumPairs \in Nat
    BY PhaseAssumption DEF Pairs
  <2>6. N!SignMask \in Nat /\ HalfWord = 2 * N!SignMask
    BY Sizes DEF HalfWord
  <2>7. QED
    BY <2>4, <2>5, <2>6
<1>3. pair_x(pack_pair(m, i)) = m /\ pair_y(pack_pair(m, i)) % 2^PairIdxBits = i
  <2>1. m \in Nat
    BY PhaseOfToken
  <2>2. i \in 0 .. HalfWord - 1
    BY <1>2, Sizes DEF HalfWord
  <2>3. pair_x(pack_pair(m, i)) = m /\ pair_y(pack_pair(m, i)) = i
    BY <2>1, <2>2, PackedPair
  <2>4. PICK a \in Nat \ {0} : a = 2^PairIdxBits /\ i < a
    BY <1>2
  <2>5. i % a = i
    BY <1>2, <2>4
  <2>6. QED
    BY <2>3, <2>4, <2>5
<1>4. PICK p \in Phases : p = phase_of(m, i) /\ p = random_phase(m, i)
  BY PhaseOfToken, HardwarePhase
<1>5. sin_o(p) = lut_sin(p) /\ cos_o(p) = lut_cos(p)
  BY QuarterOn, PathAnswers DEF sin_o, cos_o, lut_cos, cos_phase
<1>6. QED
  BY <1>1, <1>3, <1>4, <1>5 DEF decoded

(* The units and the golden model's operations agree on all operands: what  *)
(* UnitsRoundOnce and FmaRoundsOnce check of the operands of a line.        *)
UnitsAgree ==
  \A a, b \in N!Patterns :
    /\ H!UnitMul(a, b) = bf16_mul(a, b, FALSE)
    /\ H!UnitAdd(a, b, 0) = bf16_add(a, b, FALSE)
    /\ H!UnitAdd(a, b, 1) = bf16_sub(a, b, FALSE)
    /\ \A c \in N!Patterns, sub \in {0, 1} : H!UnitFma(a, b, c, sub) = bf16_fma(a, b, c, sub)

(* One instruction with such units, for every position and pair.            *)
LEMMA InstructionRotates ==
  ASSUME UnitsAgree, NEW x \in N!Patterns, NEW y \in N!Patterns,
         NEW m \in 0 .. 2^PosBits - 1, NEW i \in Pairs,
         NEW ra, ra = rope_strict_bf16(x, y, m, i, FALSE),
         NEW rb, rb = rope_fma_bf16(x, y, m, i)
  PROVE  /\ rope_rot(pack_pair(x, y), pack_pair(m, i), FALSE, pack_pair(ra[1], ra[2]))
         /\ rope_rot(pack_pair(x, y), pack_pair(m, i), TRUE, pack_pair(rb[1], rb[2]))
<1>1. PICK c \in N!Patterns, s \in N!Patterns :
        c = lut_cos(phase_of(m, i)) /\ s = lut_sin(phase_of(m, i))
  BY PhaseOfToken, QuarterTurnTable
<1>2. PICK p0 \in N!Patterns, p1 \in N!Patterns, p2 \in N!Patterns, p3 \in N!Patterns :
        /\ p0 = bf16_mul(x, c, FALSE) /\ p1 = bf16_mul(y, s, FALSE)
        /\ p2 = bf16_mul(x, s, FALSE) /\ p3 = bf16_mul(y, c, FALSE)
  BY ProductOpposite, Zenon
<1>3. PICK r : r = [x |-> x, y |-> y, s |-> s, c |-> c]
  OBVIOUS
<1>4. r = decoded(pack_pair(x, y), pack_pair(m, i))
  BY <1>1, <1>3, OperandsDecoded
<1>5. PICK p : p = [xc |-> p0, ys |-> p1, xs |-> p2, yc |-> p3]
  OBVIOUS
<1>6. p = products(r)
  <2>1. /\ H!UnitMul(x, c) = p0 /\ H!UnitMul(y, s) = p1
        /\ H!UnitMul(x, s) = p2 /\ H!UnitMul(y, c) = p3
    BY <1>2, UnitsAgree DEF UnitsAgree
  <2>2. QED
    BY <1>3, <1>5, <2>1 DEF products
<1>7. ASSUME NEW fma \in BOOLEAN, NEW out, out = datapath(r, p, fma)
      PROVE  rope_rot(pack_pair(x, y), pack_pair(m, i), fma, pack_pair(out[1], out[2]))
  BY <1>4, <1>6, <1>7 DEF rope_rot
<1>8. ra = datapath(r, p, FALSE)
  <2>1. H!UnitAdd(p0, p1, 1) = bf16_sub(p0, p1, FALSE) /\ H!UnitAdd(p2, p3, 0) = bf16_add(p2, p3, FALSE)
    BY UnitsAgree DEF UnitsAgree
  <2>2. ra = <<bf16_sub(p0, p1, FALSE), bf16_add(p2, p3, FALSE)>>
    BY <1>1, <1>2, Zenon DEF rope_strict_bf16, strict
  <2>3. QED
    BY <1>5, <2>1, <2>2 DEF datapath
<1>9. rb = datapath(r, p, TRUE)
  <2>1. H!UnitFma(x, c, p1, 1) = bf16_fma(x, c, p1, 1) /\ H!UnitFma(x, s, p3, 0) = bf16_fma(x, s, p3, 0)
    BY UnitsAgree DEF UnitsAgree
  <2>2. rb = <<bf16_fma(x, c, p1, 1), bf16_fma(x, s, p3, 0)>>
    BY <1>1, <1>2, Zenon DEF rope_fma_bf16, fused
  <2>3. QED
    BY <1>3, <1>5, <2>1, <2>2 DEF datapath
<1>10. QED
  BY <1>7, <1>8, <1>9, Zenon

(* With such units the whole instruction is right: the unpacked operands,    *)
(* the phase, both lookups, the order of the operands of six operations and  *)
(* the packed result, in both variants, for every width, table and position. *)
LEMMA InstructionFollowsUnits == UnitsAgree => (BenchSpec => []InstructionMatches)
<1> SUFFICES ASSUME UnitsAgree PROVE BenchSpec => []InstructionMatches
  OBVIOUS
<1>1. BenchInv => InstructionMatches
  <2> SUFFICES ASSUME BenchInv, Complete("xif", 2), NEW m \in Positions, NEW i \in Pairs
               PROVE  LET x == line[1]
                          y == line[2]
                          rs1 == pack_pair(x, y)
                          rs2 == pack_pair(m, i)
                          ra == rope_strict_bf16(x, y, m, i, FALSE)
                          rb == rope_fma_bf16(x, y, m, i)
                      IN /\ rope_rot(rs1, rs2, FALSE, pack_pair(ra[1], ra[2]))
                         /\ rope_rot(rs1, rs2, TRUE, pack_pair(rb[1], rb[2]))
    BY Zenon DEF InstructionMatches
  <2>1. line[1] \in N!Patterns /\ line[2] \in N!Patterns /\ m \in 0 .. 2^PosBits - 1
    <3>1. line[1] \in SPECIAL_BF16 /\ line[2] \in Multiplicands
      BY DEF BenchInv, LineOf, Complete
    <3>2. QED
      BY <3>1, SpecialPatterns, OperandsAssumption
  <2>2. QED
    BY <2>1, InstructionRotates
<1>2. QED
  BY <1>1, BenchInvariant, PTL

=============================================================================
