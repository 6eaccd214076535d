---------------------------- MODULE MCRopeBench ----------------------------
(* A seven-bit format (four exponent bits, two of significand) computed in  *)
(* a thirteen-bit one, as BF16 is in FP32; sixteen buckets a turn; three    *)
(* frequencies, whose angles are 1, 0.1 and 0.01 radians in 2^-20 turns.    *)
(* Heads have six elements, integers modulo 3, and every pair is rotated by *)
(* a matrix of its own, so that the wrong element, the wrong frequency or   *)
(* an overwritten element shows.                                            *)
EXTENDS RopeBench

MCTurn == [i \in 0 .. 2 |-> CASE i = 0 -> 166886 [] i = 1 -> 16689 [] i = 2 -> 1669]

\* The sine of (n + 0.5) * (pi/2) / 4 in units of 2^-16.
MCSine == [n \in 0 .. 3 |-> CASE n = 0 -> 12785 [] n = 1 -> 36410 [] n = 2 -> 54491 [] n = 3 -> 64277]

\* Every significand in the exponents of the subnormals, the lowest binade, two
\* in the middle, the highest and infinity: with every addend and both signs,
\* all distances between product and addend.
MCPatterns(fields) == {4 * field + mantissa : field \in fields, mantissa \in 0 .. 3}
MCMultiplicands == MCPatterns({0, 1, 7, 14, 15})
MCMultipliers == MCPatterns({0, 1, 6, 8, 14})

MCCos == [i \in 0 .. 2 |-> i + 1]
MCSin == [i \in 0 .. 2 |-> 2 - 3 * i]
MCRotate(x, y, i) == <<(x * (i + 1) + 2 * y) % 3, (x + y * (i + 2)) % 3>>

MCPositions == {0, 1, 2, 5, 64, 77, 127}
=============================================================================
