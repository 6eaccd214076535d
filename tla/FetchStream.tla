---------------------------- MODULE FetchStream ----------------------------
(***************************************************************************)
(* What instruction fetch promises to the IF stage: the instructions of    *)
(* the current path, one after the other, each with the words it lies in   *)
(* and the faults of these words; after a pointer nothing, until the core  *)
(* sets the pc again.                                                      *)
(***************************************************************************)
EXTENDS Naturals

CONSTANTS NumWords, Memories

VARIABLES
  memory,   \* per word: do its halves begin a 32-bit instruction, its faults
  pc,       \* a halfword address
  mode,     \* what lies at pc: "code", a "pointer", or "none" of interest
  sent      \* handed over in the last cycle

streamVars == <<memory, pc, mode, sent>>

Words == 0 .. NumWords - 1
HalfWords == 0 .. 2 * NumWords - 1
WordOf(h) == h \div 2
Plus(h, n) == (h + n) % (2 * NumWords)
Nothing == [words |-> <<>>]

\* What a word that may not be fetched seems to hold is anything.
Blocked(w) == "mpu" \in memory[w].faults
IsLong(h) == IF h % 2 = 0 THEN memory[WordOf(h)].lo ELSE memory[WordOf(h)].hi
Lengths == IF mode = "pointer" \/ (IsLong(pc) /\ ~Blocked(WordOf(pc))) THEN {2}
           ELSE IF Blocked(WordOf(pc)) THEN {1, 2} ELSE {1}

Item(first, last) ==
  [addr |-> pc, words |-> <<first, last>>,
   faults |-> memory[first].faults \cup memory[last].faults]

StreamInit == /\ memory \in Memories
              /\ pc = 0 /\ mode = "none" /\ sent = Nothing

SetPc == /\ pc' \in HalfWords
         /\ mode' \in {"code", "pointer"}
         /\ mode' = "pointer" => pc' % 2 = 0
         /\ sent' = Nothing

Deliver == /\ mode # "none"
           /\ \E length \in Lengths :
                /\ sent' = Item(WordOf(pc), WordOf(Plus(pc, length - 1)))
                /\ pc' = Plus(pc, length)
           /\ mode' = IF mode = "pointer" THEN "none" ELSE "code"

Idle == sent' = Nothing /\ UNCHANGED <<pc, mode>>

StreamNext == (SetPc \/ Deliver \/ Idle) /\ UNCHANGED memory

StreamSpec == StreamInit /\ [][StreamNext]_streamVars

=============================================================================
