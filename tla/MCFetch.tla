------------------------------ MODULE MCFetch ------------------------------
(* Three words: the middle one of any two halves, blocked by the PMA or     *)
(* answered with a bus error; the others mirror each other.                 *)
EXTENDS Fetch

MCWord(lo, hi, faults) == [lo |-> lo, hi |-> hi, faults |-> faults]

MCMemories ==
  {[w \in 0 .. 2 |-> CASE w = 0 -> MCWord(a, b, {})
                       [] w = 1 -> MCWord(c, d, {f})
                       [] w = 2 -> MCWord(b, a, {})] :
     a \in BOOLEAN, b \in BOOLEAN, c \in BOOLEAN, d \in BOOLEAN, f \in {"mpu", "bus"}}
=============================================================================
