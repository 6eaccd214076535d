---------------------------- MODULE RopePrefetch ----------------------------
(***************************************************************************)
(* The theta prefetch of the RoPE coprocessor (rope_xif_coproc.sv, section *)
(* PREFETCH): the position m_q, the pair index i_q and theta_q, the ROM    *)
(* word for i_q read one rotation ahead, with the two checks (desync after *)
(* a kill, comparison with the instruction's own operands) that decide     *)
(* when they must be reloaded from the instruction.                        *)
(*                                                                         *)
(* A ROM word is represented by the pair index it is the word of, and a    *)
(* phase m * theta by the pair it is the product of: the properties only   *)
(* ask which operands a rotation was computed from.                        *)
(***************************************************************************)
EXTENDS Naturals

CONSTANTS
  NumPairs,       \* 2^PairIdxBits: pair indices are 0 .. NumPairs-1
  Positions,      \* the token positions m; 0 (the reset value) is one
  UsePrefetch,    \* the module parameters of the same names
  UseValueCheck,
  NoTheta         \* the reset value of theta_q, which is no word of the ROM

ASSUME PrefetchAssumption ==
  /\ NumPairs \in Nat \ {0}
  /\ NoTheta \notin 0 .. NumPairs - 1
  /\ 0 \in Positions
  /\ UsePrefetch \in BOOLEAN
  /\ UseValueCheck \in BOOLEAN

VARIABLES m_q, i_q, theta_q, desync_q, recover_q

prefetchVars == <<m_q, i_q, theta_q, desync_q, recover_q>>

Pairs == 0 .. NumPairs - 1

PrefetchTypeOK ==
  /\ m_q \in Positions
  /\ i_q \in Pairs
  /\ theta_q \in Pairs \cup {NoTheta}
  /\ desync_q \in BOOLEAN
  /\ recover_q \in BOOLEAN

\* Reset marks the prefetch suspect: it holds nothing meaningful yet.
PrefetchInit ==
  /\ m_q = 0
  /\ i_q = 0
  /\ theta_q = NoTheta
  /\ desync_q = TRUE
  /\ recover_q = FALSE

-----------------------------------------------------------------------------
(* Combinational signals.  `op' holds the rs1/rs2 fields x, m and i of the  *)
(* instruction in the issue cycle.                                          *)

NextPair(i) == IF i = NumPairs - 1 THEN 0 ELSE i + 1

ValueMismatch(op) == UseValueCheck /\ (op.m # m_q \/ op.i # i_q)

\* rotIssued: a ROPE.ROT is being offered for issue.
NeedResync(rotIssued, op) ==
  /\ UsePrefetch
  /\ rotIssued
  /\ ~recover_q
  /\ desync_q \/ ValueMismatch(op)

\* The ROM word used by a rotation issued now.
ThetaSel == IF recover_q THEN i_q ELSE theta_q

-----------------------------------------------------------------------------
(* One clock edge.  A resync adopts the instruction's own m and i and wins  *)
(* over a kill seen in the same cycle; otherwise an accepted rotation moves *)
(* the prefetch on to the next pair.                                        *)

Resync(op) ==
  /\ m_q' = op.m
  /\ i_q' = op.i
  /\ recover_q' = TRUE
  /\ desync_q' = FALSE
  /\ UNCHANGED theta_q

\* Mutant: the word kept is the one of the pair just rotated.
AdvanceSameWord ==
  /\ theta_q' = i_q
  /\ i_q' = NextPair(i_q)
  /\ recover_q' = FALSE
  /\ UNCHANGED m_q

Advance ==
  /\ theta_q' = NextPair(i_q)
  /\ i_q' = NextPair(i_q)
  /\ recover_q' = FALSE
  /\ UNCHANGED m_q

PrefetchStep(rotIssued, op, accept, killSeen) ==
  IF NeedResync(rotIssued, op)
  THEN Resync(op)
  ELSE /\ desync_q' = (desync_q \/ killSeen)
       /\ IF accept THEN Advance
                    ELSE UNCHANGED <<m_q, i_q, theta_q, recover_q>>

=============================================================================
