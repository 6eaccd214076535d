----------------------------- MODULE FetchProofs -----------------------------
(***************************************************************************)
(* Instruction fetch for every memory: the buffer hands over the           *)
(* instructions of the path, and the count that decides on fetches is      *)
(* exact.                                                                  *)
(***************************************************************************)
EXTENDS Fetch, Integers, SequenceTheorems, FiniteSetTheorems, TLAPS

Bit(b) == IF b THEN 1 ELSE 0

NextWord(w) == (w + 1) % NumWords

(* The words of the path, from that of the pc on. *)
PathWord(k) ==
  LET w == Stream!WordOf(addr_q)
  IN  CASE k = 0 -> w
        [] k = 1 -> NextWord(w)
        [] k = 2 -> NextWord(NextWord(w))
        [] OTHER -> NextWord(NextWord(NextWord(w)))

(* The slots of the FIFO from its head on, and how many of them hold a word. *)
Ring(k) == IF rptr + k < 3 THEN rptr + k ELSE rptr + k - 3

Filled == IF ~Valid(Ring(0)) THEN 0 ELSE IF ~Valid(Ring(1)) THEN 1
          ELSE IF ~Valid(Ring(2)) THEN 2 ELSE 3

(* The fetches to be answered, oldest first; the last Current of them are   *)
(* for the path.                                                            *)
InFlight(j) == IF j <= Len(granted) THEN granted[j]
               ELSE IF j = Len(granted) + 1 /\ obi_a_req_q # NoWord THEN obi_a_req_q
               ELSE mpu_word

Current == outstanding_cnt_q - n_flush_q

NextFetch == IF state_q = "BRANCH_WAIT" THEN trans_addr_q ELSE NextWord(trans_addr_q)

-----------------------------------------------------------------------------
(* The inductive invariant.                                                 *)

TypeInv ==
  /\ memory \in Memories
  /\ ctrl_fsm_cs \in {"RESET", "DEBUG_TAKEN", "FUNCTIONAL"}
  /\ addr_q \in Stream!HalfWords
  /\ is_ptr_q \in BOOLEAN /\ ptr_fetch_accepted_q \in BOOLEAN
  /\ trans_ptr_access_q \in BOOLEAN /\ aligned_q \in BOOLEAN /\ complete_q \in BOOLEAN
  /\ rptr \in 0 .. 2 /\ wptr \in 0 .. 2
  /\ fifo = [k \in 0 .. 2 |-> fifo[k]]
  /\ instr_cnt_q \in Int
  /\ outstanding_cnt_q \in 0 .. 2 /\ n_flush_q \in 0 .. 2 /\ n_flush_q <= outstanding_cnt_q
  /\ state_q \in {"IDLE", "BRANCH_WAIT"}
  /\ trans_addr_q \in Stream!Words
  /\ mpu_state \in {"IDLE", "WAIT", "RESP"}
  /\ obi_a_req_q \in Stream!Words \cup {NoWord}
  /\ granted \in Seq(Stream!Words)

(* The words in the FIFO are contiguous, and there is room for those that   *)
(* are still to come.                                                       *)
FifoInv ==
  /\ ~Valid(Ring(0)) => ~Valid(Ring(1))
  /\ ~Valid(Ring(1)) => ~Valid(Ring(2))
  /\ wptr = Ring(IF Filled = 3 THEN 0 ELSE Filled)
  /\ Filled + Current <= 3

(* The buffer counts the fetches on the bus, in the bus interface and in    *)
(* the MPU; the MPU answers when its fetch is the only one.                 *)
FlightInv ==
  /\ outstanding_cnt_q = Len(granted) + Bit(obi_a_req_q # NoWord) + Bit(mpu_state # "IDLE")
  /\ mpu_state # "IDLE" => mpu_word \in Stream!Words /\ Stream!Blocked(mpu_word)
  /\ mpu_state = "RESP" => outstanding_cnt_q = 1
  /\ mpu_state = "WAIT" => outstanding_cnt_q = 2

(* A word that may be fetched is what memory holds. *)
Genuine(e) == ~Stream!Blocked(e.word) => e.lo = memory[e.word].lo /\ e.hi = memory[e.word].hi

(* The words in the FIFO, those to be answered and the next one to be       *)
(* fetched follow each other on the path.                                   *)
PathInv ==
  /\ \A k \in 0 .. 2 : k < Filled =>
       fifo[Ring(k)].word = PathWord(k) /\ Genuine(fifo[Ring(k)])
  /\ \A j \in 1 .. 2 : j <= Current => InFlight(n_flush_q + j) = PathWord(Filled + j - 1)
  /\ ctrl_fsm_cs # "RESET" => PathWord(Filled + Current) = NextFetch

(* Nothing is fetched before the first branch; a pointer is fetched alone,  *)
(* and nothing behind it.                                                   *)
ModeInv ==
  /\ ctrl_fsm_cs = "RESET" =>
       /\ Filled = 0 /\ outstanding_cnt_q = 0 /\ state_q = "IDLE" /\ sent = Stream!Nothing
       /\ ~is_ptr_q /\ ~ptr_fetch_accepted_q /\ instr_cnt_q = 0
  /\ ptr_fetch_accepted_q => Filled + Current = Bit(is_ptr_q)
  /\ is_ptr_q => addr_q % 2 = 0
  /\ is_ptr_q /\ ~ptr_fetch_accepted_q => state_q = "BRANCH_WAIT"
  /\ state_q = "BRANCH_WAIT" =>
       /\ Filled = 0 /\ Current = 0
       /\ trans_ptr_access_q = is_ptr_q /\ ~ptr_fetch_accepted_q

(* What a word does to the instructions of the path: it may be entered at   *)
(* an instruction, in the middle of one (half), or, after a branch, at its  *)
(* upper half.                                                              *)
StateAfter(s, e) == IF s = "aligned" /\ e.lo THEN "aligned"
                    ELSE IF e.hi THEN "half" ELSE "aligned"
EndsIn(s, e) == IF s = "aligned" /\ e.lo THEN 1
                ELSE (IF s = "upper" THEN 0 ELSE 1) + (IF e.hi THEN 0 ELSE 1)

ReadState == IF Unaligned THEN "upper" ELSE "aligned"
WriteState == IF aligned_q THEN "aligned" ELSE IF complete_q THEN "upper" ELSE "half"

(* The state after the first n of three words, and the instructions that    *)
(* end in them.                                                             *)
StateOf(s, n, e0, e1, e2) ==
  LET s1 == StateAfter(s, e0)
      s2 == StateAfter(s1, e1)
  IN  CASE n = 0 -> s [] n = 1 -> s1 [] n = 2 -> s2 [] OTHER -> StateAfter(s2, e2)
CountOf(s, n, e0, e1, e2) ==
  LET s1 == StateAfter(s, e0)
      s2 == StateAfter(s1, e1)
  IN  CASE n = 0 -> 0
        [] n = 1 -> EndsIn(s, e0)
        [] n = 2 -> EndsIn(s, e0) + EndsIn(s1, e1)
        [] OTHER -> EndsIn(s, e0) + EndsIn(s1, e1) + EndsIn(s2, e2)

InCode == ctrl_fsm_cs # "RESET" /\ ~is_ptr_q /\ ~ptr_fetch_accepted_q

(* The write side knows in which state the last word leaves it, and the     *)
(* count is that of the instructions which end in the FIFO.                 *)
CountInv ==
  InCode =>
    /\ WriteState = StateOf(ReadState, Filled, fifo[Ring(0)], fifo[Ring(1)], fifo[Ring(2)])
    /\ instr_cnt_q - pop_q
         = CountOf(ReadState, Filled, fifo[Ring(0)], fifo[Ring(1)], fifo[Ring(2)])

FetchInv == TypeInv /\ FifoInv /\ FlightInv /\ PathInv /\ ModeInv /\ CountInv

-----------------------------------------------------------------------------
(* Addresses.                                                               *)

LEMMA SmallModulo ==
  ASSUME NEW m \in Nat \ {0}, NEW x \in Nat, x < 2 * m
  PROVE  x % m = IF x < m THEN x ELSE x - m
<1>1. CASE x < m
  <2>1. x \in 0 .. m - 1 /\ x \in Int /\ x = (m * 0) + x
    BY <1>1
  <2>2. x % m = x
    BY <2>1
  <2>3. QED
    BY <1>1, <2>2
<1>2. CASE ~(x < m)
  <2>1. x - m \in 0 .. m - 1 /\ x = (m * 1) + (x - m)
    BY <1>2
  <2>2. x % m = x - m
    BY <2>1
  <2>3. QED
    BY <1>2, <2>2
<1>3. QED
  BY <1>1, <1>2

LEMMA NextWordTyped ==
  ASSUME NEW w \in Stream!Words
  PROVE  NextWord(w) \in Stream!Words /\ NextWord(w) = IF w + 1 = NumWords THEN 0 ELSE w + 1
<1>1. NumWords \in Nat \ {0} /\ w \in 0 .. NumWords - 1
  BY FetchAssumption DEF Stream!Words
<1>2. PICK x \in Nat : x = w + 1 /\ x < 2 * NumWords
  BY <1>1
<1>3. x % NumWords = IF x < NumWords THEN x ELSE x - NumWords
  BY <1>1, <1>2, SmallModulo
<1>4. QED
  BY <1>1, <1>2, <1>3 DEF NextWord, Stream!Words

LEMMA HalfWord ==
  ASSUME NEW a \in Stream!HalfWords
  PROVE  /\ Stream!WordOf(a) \in Stream!Words
         /\ a % 2 \in 0 .. 1 /\ a = (2 * Stream!WordOf(a)) + (a % 2)
<1>1. NumWords \in Nat \ {0} /\ a \in 0 .. (2 * NumWords) - 1
  BY FetchAssumption DEF Stream!HalfWords
<1>2. a % 2 \in 0 .. 1 /\ a \div 2 \in Nat /\ a = (2 * (a \div 2)) + (a % 2)
  BY <1>1
<1>3. a \div 2 \in 0 .. NumWords - 1
  BY <1>1, <1>2
<1>4. QED
  BY <1>2, <1>3 DEF Stream!WordOf, Stream!Words

LEMMA HalfWordIs ==
  ASSUME NEW w \in Stream!Words, NEW r \in 0 .. 1
  PROVE  /\ (2 * w) + r \in Stream!HalfWords
         /\ Stream!WordOf((2 * w) + r) = w /\ ((2 * w) + r) % 2 = r
<1>1. NumWords \in Nat \ {0} /\ w \in 0 .. NumWords - 1
  BY FetchAssumption DEF Stream!Words
<1>2. ((2 * w) + r) \div 2 = w /\ ((2 * w) + r) % 2 = r
  BY <1>1
<1>3. QED
  BY <1>1, <1>2 DEF Stream!HalfWords, Stream!WordOf

(* Going on by one or two halfwords. *)
LEMMA Onward ==
  ASSUME NEW a \in Stream!HalfWords
  PROVE  /\ Stream!Plus(a, 0) = a
         /\ Stream!Plus(a, 1) \in Stream!HalfWords /\ Stream!Plus(a, 2) \in Stream!HalfWords
         /\ Stream!Plus(a, 1) % 2 = 1 - (a % 2) /\ Stream!Plus(a, 2) % 2 = a % 2
         /\ Stream!WordOf(Stream!Plus(a, 1))
              = IF a % 2 = 0 THEN Stream!WordOf(a) ELSE NextWord(Stream!WordOf(a))
         /\ Stream!WordOf(Stream!Plus(a, 2)) = NextWord(Stream!WordOf(a))
<1>1. PICK w \in Stream!Words, r \in 0 .. 1 :
        w = Stream!WordOf(a) /\ r = a % 2 /\ a = (2 * w) + r
  BY HalfWord
<1>2. PICK v \in Stream!Words : v = NextWord(w) /\ v = IF w + 1 = NumWords THEN 0 ELSE w + 1
  BY NextWordTyped
<1>3. NumWords \in Nat \ {0} /\ w \in 0 .. NumWords - 1 /\ v \in 0 .. NumWords - 1
  BY FetchAssumption DEF Stream!Words
<1>4. PICK m \in Nat \ {0} : m = 2 * NumWords
  BY <1>3
<1>. w \in Nat /\ v \in Nat /\ r \in {0, 1} /\ NumWords \in Nat /\ w + 1 <= NumWords
  BY <1>1, <1>3
<1>a. a = (2 * w) + r /\ a \in Nat
  BY <1>1, <1>3
<1>b. v = IF w + 1 = NumWords THEN 0 ELSE w + 1
  BY <1>2
<1>5. \A n \in 0 .. 2 : Stream!Plus(a, n) = IF a + n < m THEN a + n ELSE a + n - m
  <2> SUFFICES ASSUME NEW n \in 0 .. 2
               PROVE  Stream!Plus(a, n) = IF a + n < m THEN a + n ELSE a + n - m
    OBVIOUS
  <2>1. PICK x \in Nat : x = a + n /\ x < 2 * m
    BY <1>1, <1>3, <1>4
  <2>2. x % m = IF x < m THEN x ELSE x - m
    BY <2>1, SmallModulo
  <2>3. Stream!Plus(a, n) = x % m
    BY <1>4, <2>1, Zenon DEF Stream!Plus
  <2>4. Stream!Plus(a, n) = IF x < m THEN x ELSE x - m
    BY <2>2, <2>3
  <2>5. QED
    <3>1. x = a + n /\ (x < m <=> a + n < m) /\ x - m = a + n - m
      BY <1>a, <2>1
    <3>2. QED
      BY <2>4, <3>1, Zenon
<1>6. Stream!Plus(a, 0) = a
  BY <1>a, <1>4, <1>5
<1>7. Stream!Plus(a, 1) = IF r = 0 THEN (2 * w) + 1 ELSE (2 * v) + 0
  <2>1. Stream!Plus(a, 1) = IF a + 1 < m THEN a + 1 ELSE a + 1 - m
    BY <1>5
  <2>2. a + 1 < m <=> r = 0 \/ w + 1 # NumWords
    BY <1>a, <1>4
  <2>3. CASE r = 0
    BY <1>a, <2>1, <2>2, <2>3
  <2>4. CASE r = 1 /\ w + 1 # NumWords
    BY <1>a, <1>b, <2>1, <2>2, <2>4
  <2>5. CASE r = 1 /\ w + 1 = NumWords
    BY <1>a, <1>b, <1>4, <2>1, <2>2, <2>5
  <2>6. QED
    BY <2>3, <2>4, <2>5
<1>8. Stream!Plus(a, 2) = (2 * v) + r
  <2>1. Stream!Plus(a, 2) = IF a + 2 < m THEN a + 2 ELSE a + 2 - m
    BY <1>5
  <2>2. a + 2 < m <=> w + 1 # NumWords
    BY <1>a, <1>4
  <2>3. CASE w + 1 # NumWords
    BY <1>a, <1>b, <2>1, <2>2, <2>3
  <2>4. CASE w + 1 = NumWords
    BY <1>a, <1>b, <1>4, <2>1, <2>2, <2>4
  <2>5. QED
    BY <2>3, <2>4
<1>9. \A x \in Stream!Words, n \in 0 .. 1 :
        (2 * x) + n \in Stream!HalfWords /\ Stream!WordOf((2 * x) + n) = x /\ ((2 * x) + n) % 2 = n
  BY HalfWordIs
<1>10. /\ Stream!Plus(a, 1) \in Stream!HalfWords
       /\ Stream!WordOf(Stream!Plus(a, 1)) = IF r = 0 THEN w ELSE v
       /\ Stream!Plus(a, 1) % 2 = 1 - r
  <2>1. CASE r = 0
    <3>1. Stream!Plus(a, 1) = (2 * w) + 1 /\ 1 \in 0 .. 1
      BY <1>7, <2>1
    <3>2. /\ (2 * w) + 1 \in Stream!HalfWords
          /\ Stream!WordOf((2 * w) + 1) = w /\ ((2 * w) + 1) % 2 = 1
      BY <1>9, <3>1
    <3>3. QED
      BY <2>1, <3>1, <3>2
  <2>2. CASE r # 0
    <3>1. Stream!Plus(a, 1) = (2 * v) + 0 /\ 0 \in 0 .. 1 /\ r = 1
      BY <1>7, <2>2
    <3>2. /\ (2 * v) + 0 \in Stream!HalfWords
          /\ Stream!WordOf((2 * v) + 0) = v /\ ((2 * v) + 0) % 2 = 0
      BY <1>9, <3>1
    <3>3. QED
      BY <2>2, <3>1, <3>2
  <2>3. QED
    BY <2>1, <2>2
<1>11. /\ Stream!Plus(a, 2) \in Stream!HalfWords
       /\ Stream!WordOf(Stream!Plus(a, 2)) = v
       /\ Stream!Plus(a, 2) % 2 = r
  BY <1>8, <1>9
<1>12. QED
  BY <1>1, <1>2, <1>6, <1>10, <1>11
-----------------------------------------------------------------------------
(* The inputs of a cycle. *)

LEMMA InputFacts ==
  ASSUME NEW in \in Inputs
  PROVE  /\ in.req \in BOOLEAN /\ in.ready \in BOOLEAN
         /\ in.gnt \in BOOLEAN /\ in.rvalid \in BOOLEAN
         /\ in.branch.taken \in BOOLEAN /\ in.branch.ptr \in BOOLEAN
         /\ in.branch.to \in Stream!HalfWords
         /\ in.rvalid => granted # <<>>
         /\ in.gnt => Req(in)
         /\ in.branch.ptr => in.branch.to % 2 = 0
         /\ in.branch.taken => in.req \/ ctrl_fsm_cs = "RESET"
         /\ ctrl_fsm_cs = "RESET" /\ ~in.branch.taken => ~in.req
         /\ ctrl_fsm_cs = "DEBUG_TAKEN" => in.branch.taken
<1>1. /\ in.branch \in {NoBranch} \cup Branches
      /\ in.req \in BOOLEAN /\ in.ready \in BOOLEAN /\ in.gnt \in BOOLEAN
      /\ in.rvalid \in IF granted = <<>> THEN {FALSE} ELSE BOOLEAN
  BY DEF Inputs
<1>2. /\ in.branch.ptr => in.branch.to % 2 = 0
      /\ in.branch.taken => in.req \/ ctrl_fsm_cs = "RESET"
      /\ ctrl_fsm_cs = "RESET" /\ ~in.branch.taken => ~in.req
      /\ ctrl_fsm_cs = "DEBUG_TAKEN" => in.branch.taken
      /\ in.gnt => Req(in)
  BY DEF Inputs
<1>3. /\ in.branch.taken \in BOOLEAN /\ in.branch.ptr \in BOOLEAN
      /\ in.branch.to \in Stream!HalfWords
  <2>1. CASE in.branch = NoBranch
    <3>1. 0 \in Stream!HalfWords
      BY FetchAssumption DEF Stream!HalfWords
    <3>2. QED
      BY <2>1, <3>1 DEF NoBranch
  <2>2. CASE in.branch \in Branches
    BY <2>2 DEF Branches
  <2>3. QED
    BY <1>1, <2>1, <2>2
<1>4. in.rvalid \in BOOLEAN /\ (in.rvalid => granted # <<>>)
  BY <1>1
<1>5. QED
  BY <1>1, <1>2, <1>3, <1>4

-----------------------------------------------------------------------------
(* The FIFO. *)

\* The words IF can look at in a cycle: those in the FIFO, and behind them the
\* response.
Seen(in, j) == IF j < Filled THEN fifo[Ring(j)] ELSE Resp(in)
Got(in) == Filled + Bit(RespValidGated(in))

\* Is the word at the head of the FIFO done with?
Done(in) == Popped(in) /\ (Unaligned \/ ~IsCompressed(in))

LEMMA RingFacts ==
  ASSUME rptr \in 0 .. 2
  PROVE  /\ Ring(0) = rptr /\ Ring(1) = rptr2
         /\ Ring(0) \in 0 .. 2 /\ Ring(1) \in 0 .. 2 /\ Ring(2) \in 0 .. 2
         /\ Ring(0) # Ring(1) /\ Ring(1) # Ring(2) /\ Ring(0) # Ring(2)
         /\ Succ(Ring(0)) = Ring(1) /\ Succ(Ring(1)) = Ring(2) /\ Succ(Ring(2)) = Ring(0)
         /\ \A k \in 0 .. 2 : k = Ring(0) \/ k = Ring(1) \/ k = Ring(2)
  BY DEF Ring, rptr2, Succ, AlbufDepth

LEMMA FilledFacts ==
  ASSUME FifoInv
  PROVE  /\ Filled \in 0 .. 3
         /\ Valid(Ring(0)) <=> Filled >= 1
         /\ Valid(Ring(1)) <=> Filled >= 2
         /\ Valid(Ring(2)) <=> Filled >= 3
  BY DEF FifoInv, Filled

\* What IF is offered comes from the words it can look at.
LEMMA Offered ==
  ASSUME TypeInv, FifoInv, NEW in, RespValidGated(in) => Filled <= 2
  PROVE  /\ Got(in) \in 0 .. 3
         /\ EntryValid(in) <=> Got(in) >= 1
         /\ Got(in) >= 1 => Entry(in, rptr) = Seen(in, 0)
         /\ InstrValid(in) => Got(in) >= 1
         /\ InstrValid(in) /\ Straddles(in) => Got(in) >= 2 /\ Entry(in, rptr2) = Seen(in, 1)
<1>1. rptr \in 0 .. 2 /\ Ring(0) = rptr /\ Ring(1) = rptr2
  BY RingFacts DEF TypeInv
<1>2. /\ Filled \in 0 .. 3
      /\ Valid(rptr) <=> Filled >= 1
      /\ Valid(rptr2) <=> Filled >= 2
  BY FilledFacts, <1>1
<1>3. Got(in) = IF RespValidGated(in) THEN Filled + 1 ELSE Filled
  BY <1>2 DEF Got, Bit
<1>4. EntryValid(in) <=> Got(in) >= 1
  BY <1>2, <1>3 DEF EntryValid
<1>5. Entry(in, rptr) = Seen(in, 0) /\ Entry(in, rptr2) = Seen(in, 1)
  BY <1>1, <1>2 DEF Entry, Seen
<1>6. InstrValid(in) => Got(in) >= 1
  BY <1>4 DEF InstrValid
<1>7. InstrValid(in) /\ Straddles(in) => Got(in) >= 2
  BY <1>2, <1>3 DEF InstrValid
<1>8. QED
  BY <1>2, <1>3, <1>4, <1>5, <1>6, <1>7

LEMMA FifoCycle ==
  ASSUME TypeInv, FifoInv, NEW in, ~in.branch.taken, FifoStep(in),
         RespValidGated(in) => Filled <= 2 /\ Resp(in).word \in Stream!Words
  PROVE  /\ rptr' \in 0 .. 2 /\ wptr' \in 0 .. 2 /\ fifo' = [k \in 0 .. 2 |-> fifo'[k]]
         /\ ~Valid(Ring(0))' => ~Valid(Ring(1))'
         /\ ~Valid(Ring(1))' => ~Valid(Ring(2))'
         /\ wptr' = Ring(IF Filled = 3 THEN 0 ELSE Filled)'
         /\ Filled' = Got(in) - Bit(Done(in))
         /\ \A k \in 0 .. 2 : k < Filled' => fifo'[Ring(k)'] = Seen(in, k + Bit(Done(in)))
<1> DEFINE w == RespValidGated(in)
           d == Done(in)
           new == Resp(in)
           V(k) == fifo'[k] # NoEntry
           p == rptr
           q == Succ(p)
           r == Succ(q)
<1>1. /\ rptr \in 0 .. 2 /\ wptr \in 0 .. 2 /\ fifo = [k \in 0 .. 2 |-> fifo[k]]
      /\ Slots = 0 .. 2
  BY DEF TypeInv, Slots, AlbufDepth
<1>2. /\ Ring(0) = p /\ Ring(1) = q /\ Ring(2) = r /\ rptr2 = q
      /\ p \in 0 .. 2 /\ q \in 0 .. 2 /\ r \in 0 .. 2 /\ p # q /\ q # r /\ p # r
      /\ Succ(r) = p /\ \A k \in 0 .. 2 : k = p \/ k = q \/ k = r
  BY <1>1, RingFacts
<1>3. /\ Filled \in 0 .. 3
      /\ fifo[p] # NoEntry <=> Filled >= 1
      /\ fifo[q] # NoEntry <=> Filled >= 2
      /\ fifo[r] # NoEntry <=> Filled >= 3
  BY <1>2, FilledFacts DEF Valid
<1>4. wptr = IF Filled = 0 \/ Filled = 3 THEN p ELSE IF Filled = 1 THEN q ELSE r
  BY <1>2, <1>3 DEF FifoInv
<1>5. w => Filled <= 2 /\ new # NoEntry
  BY FetchAssumption DEF NoEntry, NoWord, Stream!Words
<1>6. d => Filled >= 1 \/ w
  BY <1>1, <1>2, <1>3 DEF Done, Popped, InstrValid, EntryValid, Valid
<1>7. /\ rptr' = IF d THEN q ELSE p
      /\ wptr' = IF w THEN Succ(wptr) ELSE wptr
      /\ fifo' = [k \in 0 .. 2 |-> IF d /\ k = p THEN NoEntry
                                   ELSE IF w /\ k = wptr THEN new ELSE fifo[k]]
  <2>1. /\ wptr' = (IF w THEN Succ(wptr) ELSE wptr)
        /\ rptr' = (IF d THEN q ELSE p)
        /\ fifo' = (IF d THEN [(IF w THEN [fifo EXCEPT ![wptr] = new] ELSE fifo) EXCEPT ![rptr] = NoEntry]
                    ELSE (IF w THEN [fifo EXCEPT ![wptr] = new] ELSE fifo))
    BY <1>2 DEF FifoStep, Done
  <2>2. QED
    BY <1>1, <2>1
<1> HIDE DEF w, d, new
<1>8. Bit(d) = (IF d THEN 1 ELSE 0) /\ Got(in) = IF w THEN Filled + 1 ELSE Filled
  BY <1>3 DEF Bit, Got, w
<1>9. Seen(in, 0) = (IF 0 < Filled THEN fifo[p] ELSE new) /\ Seen(in, 1) = (IF 1 < Filled THEN fifo[q] ELSE new)
      /\ Seen(in, 2) = IF 2 < Filled THEN fifo[r] ELSE new
  BY <1>2 DEF Seen, new
<1> HIDE DEF p, q, r
<1>10. rptr' \in 0 .. 2 /\ wptr' \in 0 .. 2 /\ fifo' = [k \in 0 .. 2 |-> fifo'[k]]
  BY <1>1, <1>2, <1>4, <1>7 DEF Succ, AlbufDepth

<1>11. /\ fifo'[p] = IF d THEN NoEntry ELSE IF w /\ Filled = 0 THEN new ELSE fifo[p]
       /\ fifo'[q] = IF w /\ Filled = 1 THEN new ELSE fifo[q]
       /\ fifo'[r] = IF w /\ Filled = 2 THEN new ELSE fifo[r]
  <2>1. \A k \in 0 .. 2 : fifo'[k] = IF d /\ k = p THEN NoEntry
                                     ELSE IF w /\ k = wptr THEN new ELSE fifo[k]
    BY <1>7
  <2>2. w => (wptr = p <=> Filled = 0) /\ (wptr = q <=> Filled = 1) /\ (wptr = r <=> Filled = 2)
    BY <1>2, <1>3, <1>4, <1>5
  <2>3. QED
    BY <1>2, <2>1, <2>2
<1>12. /\ Ring(0)' = IF d THEN q ELSE p
       /\ Ring(1)' = IF d THEN r ELSE q
       /\ Ring(2)' = IF d THEN p ELSE r
  <2>1. \A x \in 0 .. 2 : rptr' = x => Ring(0)' = x /\ Ring(1)' = Succ(x) /\ Ring(2)' = Succ(Succ(x))
    BY DEF Ring, Succ, AlbufDepth
  <2>2. p = rptr /\ q = Succ(p) /\ r = Succ(q)
    BY DEF p, q, r
  <2>3. QED
    BY <1>2, <1>7, <2>1, <2>2
<1>13. Valid(Ring(0))' <=> fifo'[Ring(0)'] # NoEntry
  BY DEF Valid
<1>14. Valid(Ring(1))' <=> fifo'[Ring(1)'] # NoEntry
  BY DEF Valid
<1>15. Valid(Ring(2))' <=> fifo'[Ring(2)'] # NoEntry
  BY DEF Valid
<1>16. /\ Valid(Ring(0))' <=> Got(in) - Bit(d) >= 1
       /\ Valid(Ring(1))' <=> Got(in) - Bit(d) >= 2
       /\ Valid(Ring(2))' <=> Got(in) - Bit(d) >= 3
       /\ Got(in) - Bit(d) \in 0 .. 3
  BY <1>3, <1>5, <1>6, <1>8, <1>11, <1>12, <1>13, <1>14, <1>15
<1>17. Filled' = IF ~Valid(Ring(0))' THEN 0 ELSE IF ~Valid(Ring(1))' THEN 1
                 ELSE IF ~Valid(Ring(2))' THEN 2 ELSE 3
  BY DEF Filled
<1>18. Filled' = Got(in) - Bit(d)
  BY <1>16, <1>17
<1>19. /\ ~Valid(Ring(0))' => ~Valid(Ring(1))'
       /\ ~Valid(Ring(1))' => ~Valid(Ring(2))'
  BY <1>16
<1>20. \A k \in 0 .. 2 : k < Filled' => fifo'[Ring(k)'] = Seen(in, k + Bit(d))
  <2>1. 0 < Filled' => fifo'[Ring(0)'] = Seen(in, 0 + Bit(d))
    BY <1>3, <1>5, <1>8, <1>9, <1>11, <1>12, <1>18
  <2>2. 1 < Filled' => fifo'[Ring(1)'] = Seen(in, 1 + Bit(d))
    BY <1>3, <1>5, <1>8, <1>9, <1>11, <1>12, <1>18
  <2>3. 2 < Filled' => fifo'[Ring(2)'] = Seen(in, 2 + Bit(d))
    BY <1>3, <1>5, <1>8, <1>9, <1>11, <1>12, <1>18
  <2>4. QED
    BY <2>1, <2>2, <2>3
<1>21. wptr' = Ring(IF Filled = 3 THEN 0 ELSE Filled)'
  <2>1. wptr' = IF Filled' = 0 \/ Filled' = 3 THEN Ring(0)'
                ELSE IF Filled' = 1 THEN Ring(1)' ELSE Ring(2)'
    <3>1. Succ(p) = q /\ Succ(q) = r
      BY DEF q, r
    <3>2. QED
      BY <1>2, <1>3, <1>4, <1>5, <1>7, <1>8, <1>12, <1>16, <1>18, <3>1
  <2>2. Filled' \in 0 .. 3
    BY <1>16, <1>18
  <2>3. QED
    BY <2>1, <2>2 DEF Ring
<1>22. QED
  BY <1>10, <1>18, <1>19, <1>20, <1>21 DEF d

-----------------------------------------------------------------------------
(* The fetches under way. *)

LEMMA BitFacts == Bit(TRUE) = 1 /\ Bit(FALSE) = 0 /\ \A b \in BOOLEAN : Bit(b) \in 0 .. 1
  BY DEF Bit

\* A queue that loses its head, gains a last member, or both.
Moved(s, x, pop, push) == (IF pop THEN Tail(s) ELSE s) \o (IF push THEN <<x>> ELSE <<>>)

IsMoved(S, t, s, x, pop, push) ==
  /\ t \in Seq(S)
  /\ Len(t) = Len(s) - (IF pop THEN 1 ELSE 0) + (IF push THEN 1 ELSE 0)
  /\ \A k \in 1 .. 2 : k <= Len(s) - (IF pop THEN 1 ELSE 0)
                         => t[k] = s[IF pop THEN k + 1 ELSE k]
  /\ \A k \in 1 .. 2 : push /\ k = Len(t) => t[k] = x

LEMMA QueueStep ==
  ASSUME NEW S, NEW s \in Seq(S), NEW x, NEW pop \in BOOLEAN, NEW push \in BOOLEAN,
         pop => s # <<>>, push => x \in S
  PROVE  IsMoved(S, Moved(s, x, pop, push), s, x, pop, push)
<1> DEFINE t == Moved(s, x, pop, push)
<1>1. PICK u \in Seq(S) : u = IF pop THEN Tail(s) ELSE s
  BY HeadTailProperties
<1>2. /\ Len(u) = Len(s) - (IF pop THEN 1 ELSE 0)
      /\ \A k \in 1 .. Len(u) : u[k] = s[IF pop THEN k + 1 ELSE k]
  BY <1>1, HeadTailProperties
<1> SUFFICES IsMoved(S, t, s, x, pop, push)
  OBVIOUS
<1> HIDE DEF t
<1>3. CASE push
  <2>1. t = Append(u, x)
    BY <1>1, <1>3 DEF Moved, t
  <2>2. x \in S
    BY <1>3
  <2>3. /\ Append(u, x) \in Seq(S) /\ Len(Append(u, x)) = Len(u) + 1
        /\ \A k \in 1 .. Len(u) : Append(u, x)[k] = u[k]
        /\ Append(u, x)[Len(u) + 1] = x
    BY <2>2, AppendProperties
  <2>4. /\ t \in Seq(S) /\ Len(t) = Len(u) + 1 /\ t[Len(u) + 1] = x
        /\ \A k \in 1 .. Len(u) : t[k] = u[k]
    BY <2>1, <2>3, Zenon
  <2>5. Len(u) \in Nat /\ Len(s) \in Nat
    OBVIOUS
  <2>6. Len(t) = Len(s) - (IF pop THEN 1 ELSE 0) + 1
    BY <1>2, <2>4, <2>5
  <2>7. \A k \in 1 .. 2 : k <= Len(s) - (IF pop THEN 1 ELSE 0)
                           => t[k] = s[IF pop THEN k + 1 ELSE k]
    <3> SUFFICES ASSUME NEW k \in 1 .. 2, k <= Len(s) - (IF pop THEN 1 ELSE 0)
                 PROVE  t[k] = s[IF pop THEN k + 1 ELSE k]
      OBVIOUS
    <3>1. k \in 1 .. Len(u)
      BY <1>2, <2>5
    <3>2. QED
      BY <1>2, <2>4, <3>1, Zenon
  <2>8. QED
    BY <1>3, <2>4, <2>6, <2>7 DEF IsMoved
<1>4. CASE ~push
  <2>1. t = u
    BY <1>1, <1>4 DEF Moved, t
  <2>2. Len(u) \in Nat /\ Len(s) \in Nat
    OBVIOUS
  <2>3. Len(t) = Len(s) - (IF pop THEN 1 ELSE 0) + 0
    BY <1>2, <2>1, <2>2
  <2>4. \A k \in 1 .. 2 : k <= Len(s) - (IF pop THEN 1 ELSE 0)
                           => t[k] = s[IF pop THEN k + 1 ELSE k]
    <3> SUFFICES ASSUME NEW k \in 1 .. 2, k <= Len(s) - (IF pop THEN 1 ELSE 0)
                 PROVE  t[k] = s[IF pop THEN k + 1 ELSE k]
      OBVIOUS
    <3>1. k \in 1 .. Len(u)
      BY <1>2, <2>2
    <3>2. QED
      BY <1>2, <2>1, <3>1, Zenon
  <2>5. QED
    BY <1>1, <1>4, <2>1, <2>3, <2>4 DEF IsMoved
<1>5. QED
  BY <1>3, <1>4

LEMMA TransTyped ==
  ASSUME TypeInv, NEW in \in Inputs
  PROVE  TransAddr(in) \in Stream!Words
<1>1. Stream!WordOf(in.branch.to) \in Stream!Words
  BY InputFacts, HalfWord
<1>2. NextWord(trans_addr_q) \in Stream!Words
  BY NextWordTyped DEF TypeInv
<1>3. QED
  BY <1>1, <1>2 DEF TransAddr, NextWord, TypeInv

\* How many fetches are where.
LEMMA FlightFacts ==
  ASSUME TypeInv, FlightInv
  PROVE  /\ Len(granted) \in Nat /\ outstanding_cnt_q \in 0 .. 2
         /\ outstanding_cnt_q = Len(granted) + (IF obi_a_req_q # NoWord THEN 1 ELSE 0)
                                             + (IF mpu_state # "IDLE" THEN 1 ELSE 0)
         /\ outstanding_cnt_q >= Len(granted)
         /\ mpu_state = "RESP" => Len(granted) = 0 /\ obi_a_req_q = NoWord
<1>1. Len(granted) \in Nat /\ outstanding_cnt_q \in 0 .. 2
  BY DEF TypeInv
<1>2. /\ Bit(obi_a_req_q # NoWord) = IF obi_a_req_q # NoWord THEN 1 ELSE 0
      /\ Bit(mpu_state # "IDLE") = IF mpu_state # "IDLE" THEN 1 ELSE 0
  BY DEF Bit
<1>3. outstanding_cnt_q = Len(granted) + (IF obi_a_req_q # NoWord THEN 1 ELSE 0)
                                       + (IF mpu_state # "IDLE" THEN 1 ELSE 0)
  BY <1>2 DEF FlightInv
<1>4. mpu_state = "RESP" => outstanding_cnt_q = 1
  BY DEF FlightInv
<1>5. outstanding_cnt_q >= Len(granted)
  <2>1. CASE obi_a_req_q # NoWord
    BY <1>1, <1>3, <2>1
  <2>2. CASE ~(obi_a_req_q # NoWord)
    BY <1>1, <1>3, <2>2
  <2>3. QED
    BY <2>1, <2>2
<1>6. mpu_state = "RESP" => Len(granted) = 0 /\ obi_a_req_q = NoWord
  BY <1>1, <1>3, <1>4
<1>7. QED
  BY <1>1, <1>3, <1>5, <1>6

\* The oldest fetch is answered with its own word.
LEMMA Answer ==
  ASSUME TypeInv, FlightInv, NEW in \in Inputs, RespValid(in)
  PROVE  /\ outstanding_cnt_q >= 1
         /\ Resp(in).word = InFlight(1) /\ Resp(in).word \in Stream!Words
         /\ Genuine(Resp(in))
<1>1. CASE mpu_state = "RESP"
  <2>1. outstanding_cnt_q = 1 /\ mpu_word \in Stream!Words /\ Stream!Blocked(mpu_word)
    BY <1>1 DEF FlightInv
  <2>2. Len(granted) = 0 /\ ~(obi_a_req_q # NoWord)
    BY <1>1, FlightFacts
  <2>3. Resp(in).word = mpu_word
    BY <1>1 DEF Resp
  <2>4. QED
    BY <2>1, <2>2, <2>3 DEF InFlight, Genuine
<1>2. CASE mpu_state # "RESP"
  <2>1. granted # <<>> /\ granted \in Seq(Stream!Words)
    BY <1>2, InputFacts DEF RespValid, TypeInv
  <2>2. Len(granted) >= 1 /\ Head(granted) = granted[1] /\ granted[1] \in Stream!Words
    BY <2>1
  <2>3. /\ Resp(in).word = granted[1]
        /\ Resp(in).lo = memory[granted[1]].lo /\ Resp(in).hi = memory[granted[1]].hi
    BY <1>2, <2>2 DEF Resp
  <2>4. outstanding_cnt_q >= 1
    <3>1. Len(granted) \in Nat /\ outstanding_cnt_q \in 0 .. 2 /\ outstanding_cnt_q >= Len(granted)
      BY FlightFacts
    <3>2. QED
      BY <2>2, <3>1
  <2>5. QED
    BY <2>2, <2>3, <2>4 DEF InFlight, Genuine
<1>3. QED
  BY <1>1, <1>2

\* A cycle answers the oldest fetch, or none, and accepts one, or none.
LEMMA FlightCycle ==
  ASSUME TypeInv, FlightInv, NEW in \in Inputs,
         FlushStep(in), MpuStep(in), ObiStep(in), BusStep(in), memory' = memory
  PROVE  /\ outstanding_cnt_q' \in 0 .. 2
         /\ outstanding_cnt_q' = outstanding_cnt_q + Bit(FetchAccepted(in)) - Bit(RespValid(in))
         /\ FetchAccepted(in) => outstanding_cnt_q < 2
         /\ mpu_state' \in {"IDLE", "WAIT", "RESP"}
         /\ obi_a_req_q' \in Stream!Words \cup {NoWord} /\ granted' \in Seq(Stream!Words)
         /\ FlightInv'
         /\ \A j \in 1 .. 2 : j + Bit(RespValid(in)) <= outstanding_cnt_q
                                => InFlight(j)' = InFlight(j + Bit(RespValid(in)))
         /\ \A j \in 1 .. 2 : FetchAccepted(in) /\ j = outstanding_cnt_q'
                                => InFlight(j)' = TransAddr(in)
<1> DEFINE hit == MpuHit(in)
           bus == BusTransValid(in) /\ obi_a_req_q = NoWord
           pop == in.rvalid
           push == Req(in) /\ in.gnt
           rv == RespValid(in)
           x == TransAddr(in)
           o == obi_a_req_q
           G == Len(granted)
           H == Len(granted')
           n == outstanding_cnt_q
           next == NextOutstanding(in)
<1>1. /\ x \in Stream!Words /\ x # NoWord
      /\ o \in Stream!Words \cup {NoWord} /\ mpu_state \in {"IDLE", "WAIT", "RESP"}
      /\ granted \in Seq(Stream!Words)
  BY TransTyped, FetchAssumption DEF TypeInv, Stream!Words, NoWord
<1>2. /\ G \in Nat /\ n \in 0 .. 2
      /\ n = G + (IF o # NoWord THEN 1 ELSE 0) + (IF mpu_state # "IDLE" THEN 1 ELSE 0)
      /\ mpu_state = "RESP" => G = 0 /\ o = NoWord
      /\ mpu_state = "RESP" => n = 1
      /\ mpu_state = "WAIT" => n = 2
  BY FlightFacts DEF FlightInv
<1>3. /\ pop \in BOOLEAN /\ in.gnt \in BOOLEAN /\ (pop => G >= 1)
      /\ push \in BOOLEAN
  BY <1>1, InputFacts DEF Req, BusTransValid
<1>4. rv <=> pop \/ mpu_state = "RESP"
  BY DEF RespValid
<1>5. /\ FetchAccepted(in) <=> hit \/ bus
      /\ hit => mpu_state = "IDLE" /\ Stream!Blocked(x) /\ ~bus
      /\ bus => mpu_state = "IDLE" /\ o = NoWord
      /\ hit \/ bus => n < 2
      /\ Req(in) <=> o # NoWord \/ bus \/ (o # NoWord /\ BusTransValid(in))
      /\ ReqWord(in) = IF o # NoWord THEN o ELSE x
  BY DEF FetchAccepted, MpuHit, BusTransValid, FetchValid, Req, ReqWord

<1>6. push => ReqWord(in) \in Stream!Words
  BY <1>1, <1>5
<1>7. /\ granted' \in Seq(Stream!Words)
      /\ H = G - (IF pop THEN 1 ELSE 0) + (IF push THEN 1 ELSE 0)
      /\ \A k \in 1 .. 2 : k <= G - (IF pop THEN 1 ELSE 0)
                             => granted'[k] = granted[IF pop THEN k + 1 ELSE k]
      /\ \A k \in 1 .. 2 : push /\ k = H => granted'[k] = ReqWord(in)
  <2>1. pop => granted # <<>>
    BY InputFacts
  <2>2. granted' = Moved(granted, ReqWord(in), pop, push)
    BY DEF BusStep, Moved
  <2>3. granted \in Seq(Stream!Words) /\ pop \in BOOLEAN /\ push \in BOOLEAN
    BY <1>1, <1>3
  <2> HIDE DEF pop, push
  <2>4. IsMoved(Stream!Words, granted', granted, ReqWord(in), pop, push)
    BY <1>6, <2>1, <2>2, <2>3, QueueStep
  <2>5. QED
    BY <2>4 DEF IsMoved
<1>8. next = n + (IF FetchAccepted(in) THEN 1 ELSE 0) - (IF rv THEN 1 ELSE 0)
  BY DEF NextOutstanding
<1>9. outstanding_cnt_q' = next
  BY DEF FlushStep
<1>10. o' = IF Req(in) /\ ~in.gnt THEN ReqWord(in) ELSE NoWord
  BY DEF ObiStep
<1>11. /\ mpu_state' = (IF hit \/ mpu_state = "WAIT"
                        THEN IF next = 1 THEN "RESP" ELSE "WAIT" ELSE "IDLE")
       /\ mpu_word' = (IF hit THEN x ELSE IF mpu_state = "WAIT" THEN mpu_word ELSE NoWord)
  BY DEF MpuStep, MpuAnswers
<1>12. mpu_state # "IDLE" => mpu_word \in Stream!Words /\ Stream!Blocked(mpu_word)
  BY DEF FlightInv
<1>13. \A k \in 1 .. 3 : InFlight(k) = IF k <= G THEN granted[k]
                                      ELSE IF k = G + 1 /\ o # NoWord THEN o ELSE mpu_word
  BY DEF InFlight
<1>14. \A k \in 1 .. 3 : InFlight(k)' = IF k <= H THEN granted'[k]
                                      ELSE IF k = H + 1 /\ o' # NoWord THEN o' ELSE mpu_word'
  BY DEF InFlight
<1>15. push <=> Req(in) /\ in.gnt
  OBVIOUS
<1>16. Bit(FetchAccepted(in)) = (IF FetchAccepted(in) THEN 1 ELSE 0) /\ Bit(rv) = IF rv THEN 1 ELSE 0
  BY DEF Bit
<1>17. /\ Bit(o' # NoWord) = (IF o' # NoWord THEN 1 ELSE 0)
       /\ Bit(mpu_state' # "IDLE") = (IF mpu_state' # "IDLE" THEN 1 ELSE 0)
  BY DEF Bit
<1>18. Stream!Blocked(mpu_word)' <=> "mpu" \in memory[mpu_word'].faults
  BY DEF Stream!Blocked
<1>19. \A w : Stream!Blocked(w) <=> "mpu" \in memory[w].faults
  BY DEF Stream!Blocked
<1> HIDE DEF hit, bus, pop, push, rv, x, o, G, H, n, next
<1>20. /\ o' = IF o # NoWord THEN IF push THEN NoWord ELSE o
               ELSE IF bus /\ ~push THEN x ELSE NoWord
       /\ push => o # NoWord \/ bus
       /\ ReqWord(in) = IF o # NoWord THEN o ELSE x
  BY <1>3, <1>5, <1>10, <1>15
<1>21. /\ H \in Nat /\ next \in 0 .. 2
       /\ next = H + (IF o' # NoWord THEN 1 ELSE 0) + (IF mpu_state' # "IDLE" THEN 1 ELSE 0)
       /\ mpu_state' = "RESP" => next = 1
       /\ mpu_state' = "WAIT" => next = 2
  BY <1>1, <1>2, <1>3, <1>4, <1>5, <1>7, <1>8, <1>11, <1>20, SMTT(30)
<1>22. mpu_state' # "IDLE" => mpu_word' \in Stream!Words /\ Stream!Blocked(mpu_word)'
  BY <1>1, <1>5, <1>11, <1>12, <1>18, <1>19
<1>23. FlightInv'
  <2>1. outstanding_cnt_q' = Len(granted') + Bit(o' # NoWord) + Bit(mpu_state' # "IDLE")
    BY <1>9, <1>17, <1>21 DEF H
  <2>2. /\ mpu_state' = "RESP" => outstanding_cnt_q' = 1
        /\ mpu_state' = "WAIT" => outstanding_cnt_q' = 2
    BY <1>9, <1>21
  <2>3. QED
    BY <1>22, <2>1, <2>2, Zenon DEF FlightInv, o
<1>24. \A j \in 1 .. 2 : j + (IF rv THEN 1 ELSE 0) <= n => InFlight(j)' = InFlight(IF rv THEN j + 1 ELSE j)
  <2> SUFFICES ASSUME NEW j \in 1 .. 2, j + (IF rv THEN 1 ELSE 0) <= n
               PROVE  InFlight(j)' = InFlight(IF rv THEN j + 1 ELSE j)
    OBVIOUS
  <2>1. InFlight(j)' = IF j <= H THEN granted'[j]
                       ELSE IF j = H + 1 /\ o' # NoWord THEN o' ELSE mpu_word'
    BY <1>14
  <2>2. InFlight(j) = IF j <= G THEN granted[j]
                      ELSE IF j = G + 1 /\ o # NoWord THEN o ELSE mpu_word
    BY <1>13
  <2>3. InFlight(j + 1) = IF j + 1 <= G THEN granted[j + 1]
                      ELSE IF j + 1 = G + 1 /\ o # NoWord THEN o ELSE mpu_word
    BY <1>13
  <2>4. /\ j <= G - (IF pop THEN 1 ELSE 0) => granted'[j] = granted[IF pop THEN j + 1 ELSE j]
        /\ push /\ j = H => granted'[j] = ReqWord(in)
    BY <1>7
  <2>5. CASE pop
    <3>1. rv /\ mpu_state # "RESP"
      BY <1>2, <1>3, <1>4, <2>5
    <3>2. QED
      BY <1>1, <1>2, <1>5, <1>7, <1>11, <1>20, <2>1, <2>3, <2>4, <2>5, <3>1
  <2>6. CASE ~pop /\ mpu_state = "RESP"
    BY <1>2, <1>4, <2>6
  <2>7. CASE ~pop /\ mpu_state # "RESP"
    <3>1. ~rv
      BY <1>4, <2>7
    <3>2. QED
      BY <1>1, <1>2, <1>5, <1>7, <1>11, <1>20, <2>1, <2>2, <2>4, <2>7, <3>1
  <2>8. QED
    BY <2>5, <2>6, <2>7
<1>25. \A j \in 1 .. 2 : FetchAccepted(in) /\ j = next => InFlight(j)' = x
  <2> SUFFICES ASSUME NEW j \in 1 .. 2, FetchAccepted(in), j = next
               PROVE  InFlight(j)' = x
    OBVIOUS
  <2>1. InFlight(j)' = IF j <= H THEN granted'[j]
                       ELSE IF j = H + 1 /\ o' # NoWord THEN o' ELSE mpu_word'
    BY <1>14
  <2>2. push /\ j = H => granted'[j] = ReqWord(in)
    BY <1>7
  <2>3. QED
    BY <1>1, <1>2, <1>5, <1>7, <1>11, <1>20, <1>21, <2>1, <2>2
<1>26. FetchAccepted(in) => outstanding_cnt_q < 2
  BY <1>5 DEF n
<1>27. outstanding_cnt_q' = outstanding_cnt_q + Bit(FetchAccepted(in)) - Bit(RespValid(in))
  BY <1>8, <1>9, <1>16 DEF n, rv
<1>28. obi_a_req_q' \in Stream!Words \cup {NoWord}
  BY <1>1, <1>20 DEF o
<1>29. mpu_state' \in {"IDLE", "WAIT", "RESP"}
  BY <1>11
<1>30. \A j \in 1 .. 2 : j + Bit(RespValid(in)) <= outstanding_cnt_q
                           => InFlight(j)' = InFlight(j + Bit(RespValid(in)))
  <2>1. CASE rv
    BY <1>16, <1>24, <2>1 DEF n, rv
  <2>2. CASE ~rv
    <3>1. \A j \in 1 .. 2 : j + 0 = j
      OBVIOUS
    <3>2. QED
      BY <1>16, <1>24, <2>2, <3>1 DEF n, rv
  <2>3. QED
    BY <2>1, <2>2
<1>31. \A j \in 1 .. 2 : FetchAccepted(in) /\ j = outstanding_cnt_q' => InFlight(j)' = TransAddr(in)
  BY <1>9, <1>25 DEF x
<1>32. outstanding_cnt_q' \in 0 .. 2
  BY <1>9, <1>21
<1>33. QED
  BY <1>7, <1>23, <1>26, <1>27, <1>28, <1>29, <1>30, <1>31, <1>32

-----------------------------------------------------------------------------
(* What a cycle sees of the path. *)

LEMMA PathFacts ==
  /\ PathWord(0) = Stream!WordOf(addr_q)
  /\ \A k \in 0 .. 2 : PathWord(k + 1) = NextWord(PathWord(k))
  BY DEF PathWord

\* A response that counts belongs behind the words of the FIFO.
LEMMA Received ==
  ASSUME TypeInv, FifoInv, FlightInv, PathInv, NEW in \in Inputs, RespValidGated(in)
  PROVE  /\ Current >= 1 /\ Filled <= 2
         /\ Resp(in).word \in Stream!Words
         /\ Resp(in).word = PathWord(Filled) /\ Genuine(Resp(in))
<1>1. RespValid(in) /\ n_flush_q = 0
  BY DEF RespValidGated
<1>2. /\ outstanding_cnt_q >= 1 /\ Resp(in).word = InFlight(1)
      /\ Resp(in).word \in Stream!Words /\ Genuine(Resp(in))
  BY <1>1, Answer
<1>3. outstanding_cnt_q \in 0 .. 2 /\ Current = outstanding_cnt_q
  BY <1>1 DEF TypeInv, Current
<1>4. Current >= 1 /\ Current \in 0 .. 2
  BY <1>2, <1>3
<1>5. Filled \in 0 .. 3 /\ Filled + Current <= 3
  BY FilledFacts DEF FifoInv
<1>6. Filled <= 2
  BY <1>4, <1>5
<1>7. InFlight(n_flush_q + 1) = PathWord(Filled + 1 - 1)
  BY <1>4 DEF PathInv
<1>8. n_flush_q + 1 = 1 /\ Filled + 1 - 1 = Filled
  BY <1>1, <1>5
<1>9. InFlight(1) = PathWord(Filled)
  BY <1>7, <1>8
<1>10. QED
  BY <1>2, <1>4, <1>6, <1>9

LEMMA SeenFacts ==
  ASSUME TypeInv, FifoInv, FlightInv, PathInv, NEW in \in Inputs
  PROVE  \A j \in 0 .. 2 : j < Got(in) => Seen(in, j).word = PathWord(j) /\ Genuine(Seen(in, j))
<1> SUFFICES ASSUME NEW j \in 0 .. 2, j < Got(in)
             PROVE  Seen(in, j).word = PathWord(j) /\ Genuine(Seen(in, j))
  OBVIOUS
<1>1. Filled \in 0 .. 3
  BY FilledFacts
<1>2. CASE j < Filled
  <2>1. Seen(in, j) = fifo[Ring(j)]
    BY <1>2 DEF Seen
  <2>2. QED
    BY <1>2, <2>1 DEF PathInv
<1>3. CASE ~(j < Filled)
  <2>1. RespValidGated(in) /\ j = Filled
    BY <1>1, <1>3 DEF Got, Bit
  <2>2. Seen(in, j) = Resp(in)
    BY <1>3 DEF Seen
  <2>3. QED
    BY <2>1, <2>2, Received
<1>4. QED
  BY <1>2, <1>3

\* The numbers of words a cycle starts from.
LEMMA Numbers ==
  ASSUME TypeInv, FifoInv, FlightInv, PathInv, NEW in \in Inputs
  PROVE  /\ Filled \in 0 .. 3 /\ Current \in 0 .. 2 /\ Filled + Current <= 3
         /\ Got(in) = Filled + (IF RespValidGated(in) THEN 1 ELSE 0)
         /\ Got(in) \in 0 .. 3
         /\ Got(in) <= Filled + Current
         /\ Popped(in) => Got(in) >= 1 /\ ~in.branch.taken
         /\ Done(in) => Popped(in)
<1>1. Filled \in 0 .. 3 /\ Filled + Current <= 3
  BY FilledFacts DEF FifoInv
<1>2. Current \in 0 .. 2
  BY DEF TypeInv, Current
<1>3. Got(in) = Filled + (IF RespValidGated(in) THEN 1 ELSE 0)
  BY DEF Got, Bit
<1>4. RespValidGated(in) => Current >= 1 /\ Filled <= 2
  BY Received
<1>5. Got(in) \in 0 .. 3 /\ Got(in) <= Filled + Current
  BY <1>1, <1>2, <1>3, <1>4
<1>6. InstrValid(in) => Got(in) >= 1
  BY <1>4, Offered
<1>7. Popped(in) => InstrValid(in) /\ ~in.branch.taken
  BY DEF Popped, InstrValid
<1>8. QED
  BY <1>1, <1>2, <1>3, <1>5, <1>6, <1>7 DEF Done

\* Instructions are handed over in code, and the pointer at its turn.
LEMMA PoppedWhen ==
  ASSUME TypeInv, FifoInv, FlightInv, PathInv, ModeInv, NEW in \in Inputs, Popped(in)
  PROVE  /\ ctrl_fsm_cs # "RESET" /\ state_q # "BRANCH_WAIT"
         /\ is_ptr_q <=> ptr_fetch_accepted_q
         /\ is_ptr_q => Done(in) /\ addr_q % 2 = 0 /\ ~IsCompressed(in)
<1>1. /\ Filled \in 0 .. 3 /\ Current \in 0 .. 2 /\ Filled + Current >= 1
  <2>1. /\ Filled \in 0 .. 3 /\ Current \in 0 .. 2 /\ Got(in) \in 0 .. 3
        /\ Got(in) >= 1 /\ Got(in) <= Filled + Current
    BY Numbers
  <2>2. QED
    BY <2>1
<1>2. ctrl_fsm_cs # "RESET"
  <2> SUFFICES ASSUME ctrl_fsm_cs = "RESET" PROVE FALSE
    OBVIOUS
  <2>1. Filled = 0 /\ outstanding_cnt_q = 0
    BY DEF ModeInv
  <2>2. Current = 0
    BY <2>1 DEF Current, TypeInv
  <2>3. QED
    BY <1>1, <2>1, <2>2
<1>3. state_q # "BRANCH_WAIT"
  BY <1>1 DEF ModeInv
<1>4. is_ptr_q => ptr_fetch_accepted_q
  BY <1>3 DEF ModeInv
<1>5. ptr_fetch_accepted_q => is_ptr_q
  <2> SUFFICES ASSUME ptr_fetch_accepted_q, ~is_ptr_q PROVE FALSE
    OBVIOUS
  <2>1. Filled + Current = Bit(is_ptr_q)
    BY DEF ModeInv
  <2>2. Bit(is_ptr_q) = 0
    BY DEF Bit
  <2>3. QED
    BY <1>1, <2>1, <2>2
<1>6. is_ptr_q => Done(in) /\ addr_q % 2 = 0 /\ ~IsCompressed(in)
  BY DEF Done, IsCompressed, ModeInv
<1>7. is_ptr_q \in BOOLEAN /\ ptr_fetch_accepted_q \in BOOLEAN
  BY DEF TypeInv
<1>8. QED
  BY <1>2, <1>3, <1>4, <1>5, <1>6, <1>7

\* The pc goes on by the instruction handed over, the path by the word done with.
LEMMA AddrCycle ==
  ASSUME TypeInv, NEW in \in Inputs, ~in.branch.taken, AddrStep(in)
  PROVE  /\ addr_q' \in Stream!HalfWords
         /\ addr_q' % 2 = (IF Popped(in) /\ IsCompressed(in) THEN 1 - (addr_q % 2) ELSE addr_q % 2)
         /\ \A k \in 0 .. 3 : k + Bit(Done(in)) <= 3 => PathWord(k)' = PathWord(k + Bit(Done(in)))
<1>1. addr_q \in Stream!HalfWords /\ addr_q % 2 \in 0 .. 1
  BY HalfWord DEF TypeInv
<1>2. addr_q' = (IF Popped(in) THEN Stream!Plus(addr_q, IF IsCompressed(in) THEN 1 ELSE 2)
                 ELSE addr_q)
  BY DEF AddrStep
<1>3. Done(in) <=> Popped(in) /\ (addr_q % 2 = 1 \/ ~IsCompressed(in))
  BY DEF Done, Unaligned
<1> DEFINE w == Stream!WordOf(addr_q)
           v == Stream!WordOf(addr_q')
<1>4. /\ addr_q' \in Stream!HalfWords
      /\ addr_q' % 2 = (IF Popped(in) /\ IsCompressed(in) THEN 1 - (addr_q % 2) ELSE addr_q % 2)
      /\ v = IF Done(in) THEN NextWord(w) ELSE w
  <2>1. CASE ~Popped(in)
    BY <1>1, <1>2, <1>3, <2>1
  <2>2. CASE Popped(in) /\ IsCompressed(in)
    BY <1>1, <1>2, <1>3, <2>2, Onward
  <2>3. CASE Popped(in) /\ ~IsCompressed(in)
    BY <1>1, <1>2, <1>3, <2>3, Onward
  <2>4. QED
    BY <2>1, <2>2, <2>3
<1>5. /\ PathWord(0)' = v /\ PathWord(1)' = NextWord(v) /\ PathWord(2)' = NextWord(NextWord(v))
      /\ PathWord(3)' = NextWord(NextWord(NextWord(v)))
  BY DEF PathWord
<1>6. /\ PathWord(0) = w /\ PathWord(1) = NextWord(w) /\ PathWord(2) = NextWord(NextWord(w))
      /\ PathWord(3) = NextWord(NextWord(NextWord(w)))
  BY DEF PathWord
<1> HIDE DEF w, v
<1>7. \A k \in 0 .. 3 : k + Bit(Done(in)) <= 3 => PathWord(k)' = PathWord(k + Bit(Done(in)))
  <2>1. CASE Done(in)
    <3>1. Bit(Done(in)) = 1
      BY <2>1 DEF Bit
    <3>2. /\ PathWord(0)' = PathWord(1) /\ PathWord(1)' = PathWord(2) /\ PathWord(2)' = PathWord(3)
      BY <1>4, <1>5, <1>6, <2>1
    <3>3. QED
      BY <3>1, <3>2
  <2>2. CASE ~Done(in)
    <3>1. Bit(Done(in)) = 0
      BY <2>2 DEF Bit
    <3>2. /\ PathWord(0)' = PathWord(0) /\ PathWord(1)' = PathWord(1)
          /\ PathWord(2)' = PathWord(2) /\ PathWord(3)' = PathWord(3)
      BY <1>4, <1>5, <1>6, <2>2
    <3>3. QED
      BY <3>1, <3>2
  <2>3. QED
    BY <2>1, <2>2
<1>8. QED
  BY <1>4, <1>7

-----------------------------------------------------------------------------
(* Counting instructions. *)

States == {"aligned", "half", "upper"}

LEMMA CountFacts ==
  ASSUME NEW s \in States, NEW n \in 0 .. 3, NEW e0, NEW e1, NEW e2
  PROVE  /\ CountOf(s, n, e0, e1, e2) \in Nat /\ CountOf(s, n, e0, e1, e2) >= n - 1
         /\ StateOf(s, n, e0, e1, e2) \in States
<1>1. \A x, e : x \in States => /\ StateAfter(x, e) \in {"aligned", "half"}
                                /\ EndsIn(x, e) \in Nat
                                /\ x # "upper" => EndsIn(x, e) >= 1
  BY DEF StateAfter, EndsIn, States
<1> DEFINE s1 == StateAfter(s, e0)
           s2 == StateAfter(s1, e1)
           s3 == StateAfter(s2, e2)
<1>2. s1 \in {"aligned", "half"} /\ s2 \in {"aligned", "half"} /\ s3 \in {"aligned", "half"}
  BY <1>1 DEF States
<1>3. EndsIn(s, e0) \in Nat /\ EndsIn(s1, e1) \in Nat /\ EndsIn(s2, e2) \in Nat
  BY <1>1, <1>2 DEF States
<1>4. EndsIn(s1, e1) >= 1 /\ EndsIn(s2, e2) >= 1
  BY <1>1, <1>2 DEF States
<1>5. /\ StateOf(s, n, e0, e1, e2) = CASE n = 0 -> s [] n = 1 -> s1 [] n = 2 -> s2 [] OTHER -> s3
      /\ CountOf(s, n, e0, e1, e2) = CASE n = 0 -> 0 [] n = 1 -> EndsIn(s, e0)
                                       [] n = 2 -> EndsIn(s, e0) + EndsIn(s1, e1)
                                       [] OTHER -> EndsIn(s, e0) + EndsIn(s1, e1) + EndsIn(s2, e2)
  BY DEF StateOf, CountOf
<1> HIDE DEF s1, s2, s3
<1>6. QED
  BY <1>2, <1>3, <1>4, <1>5 DEF States

\* Only the first n words matter.
LEMMA CountSame ==
  ASSUME NEW s, NEW n \in 0 .. 3, NEW e0, NEW e1, NEW e2, NEW f0, NEW f1, NEW f2,
         n > 0 => e0 = f0, n > 1 => e1 = f1, n > 2 => e2 = f2
  PROVE  /\ CountOf(s, n, e0, e1, e2) = CountOf(s, n, f0, f1, f2)
         /\ StateOf(s, n, e0, e1, e2) = StateOf(s, n, f0, f1, f2)
<1>1. CASE n = 0
  BY <1>1 DEF CountOf, StateOf
<1>2. CASE n = 1
  BY <1>2 DEF CountOf, StateOf
<1>3. CASE n = 2
  BY <1>3 DEF CountOf, StateOf
<1>4. CASE n = 3
  BY <1>4 DEF CountOf, StateOf
<1>5. QED
  BY <1>1, <1>2, <1>3, <1>4

\* One word more.
LEMMA CountAppend ==
  ASSUME NEW s, NEW n \in 0 .. 2, NEW e0, NEW e1, NEW e2, NEW e,
         e = CASE n = 0 -> e0 [] n = 1 -> e1 [] OTHER -> e2
  PROVE  /\ CountOf(s, n + 1, e0, e1, e2)
              = CountOf(s, n, e0, e1, e2) + EndsIn(StateOf(s, n, e0, e1, e2), e)
         /\ StateOf(s, n + 1, e0, e1, e2) = StateAfter(StateOf(s, n, e0, e1, e2), e)
<1>1. \A x, y : EndsIn(x, y) \in Nat
  BY DEF EndsIn
<1>2. CASE n = 0
  BY <1>1, <1>2 DEF CountOf, StateOf
<1>3. CASE n = 1
  BY <1>1, <1>3 DEF CountOf, StateOf
<1>4. CASE n = 2
  BY <1>1, <1>4 DEF CountOf, StateOf
<1>5. QED
  BY <1>2, <1>3, <1>4

\* An instruction less, with its word if that is done with.
LEMMA CountPop ==
  ASSUME NEW s \in States, NEW t \in States, NEW n \in 1 .. 3, NEW e0, NEW e1, NEW e2, NEW x
  PROVE  /\ s = "aligned" /\ e0.lo /\ t = "aligned"
              => /\ CountOf(s, n, e0, e1, e2) = 1 + CountOf(t, n - 1, e1, e2, x)
                 /\ StateOf(s, n, e0, e1, e2) = StateOf(t, n - 1, e1, e2, x)
         /\ s = "aligned" /\ ~e0.lo /\ t = "upper"
              => /\ CountOf(s, n, e0, e1, e2) = 1 + CountOf(t, n, e0, e1, e2)
                 /\ StateOf(s, n, e0, e1, e2) = StateOf(t, n, e0, e1, e2)
         /\ s = "upper" /\ ~e0.hi /\ t = "aligned"
              => /\ CountOf(s, n, e0, e1, e2) = 1 + CountOf(t, n - 1, e1, e2, x)
                 /\ StateOf(s, n, e0, e1, e2) = StateOf(t, n - 1, e1, e2, x)
         /\ s = "upper" /\ e0.hi /\ t = "upper" /\ n >= 2
              => /\ CountOf(s, n, e0, e1, e2) = 1 + CountOf(t, n - 1, e1, e2, x)
                 /\ StateOf(s, n, e0, e1, e2) = StateOf(t, n - 1, e1, e2, x)
<1>1. \A y, z : EndsIn(y, z) \in Nat
  BY DEF EndsIn
<1>2. \A y : /\ EndsIn("aligned", y) = IF y.lo THEN 1 ELSE IF y.hi THEN 1 ELSE 2
             /\ EndsIn("half", y) = IF y.hi THEN 1 ELSE 2
             /\ EndsIn("upper", y) = IF y.hi THEN 0 ELSE 1
             /\ StateAfter("aligned", y) = IF y.lo THEN "aligned" ELSE IF y.hi THEN "half" ELSE "aligned"
             /\ StateAfter("half", y) = IF y.hi THEN "half" ELSE "aligned"
             /\ StateAfter("upper", y) = IF y.hi THEN "half" ELSE "aligned"
  BY DEF EndsIn, StateAfter
<1>3. CASE n = 1
  BY <1>1, <1>2, <1>3 DEF CountOf, StateOf
<1>4. CASE n = 2
  BY <1>1, <1>2, <1>4 DEF CountOf, StateOf
<1>5. CASE n = 3
  BY <1>1, <1>2, <1>5 DEF CountOf, StateOf
<1>6. QED
  BY <1>3, <1>4, <1>5

\* What the write side makes of a word is what the word does to the path.
LEMMA IncomingCounts ==
  ASSUME aligned_q \in BOOLEAN, complete_q \in BOOLEAN, NEW e
  PROVE  /\ Incoming(e).n = EndsIn(WriteState, e)
         /\ Incoming(e).aligned \in BOOLEAN /\ Incoming(e).complete \in BOOLEAN
         /\ StateAfter(WriteState, e)
              = IF Incoming(e).aligned THEN "aligned"
                ELSE IF Incoming(e).complete THEN "upper" ELSE "half"
  BY DEF Incoming, EndsIn, WriteState, StateAfter

\* The count before the instruction handed over in the last cycle is taken off.
Arrived(in) == IF RespValidGated(in) THEN Incoming(Resp(in)).n ELSE 0

LEMMA PopFacts ==
  ASSUME NEW in, AddrStep(in)
  PROVE  pop_q' = IF Popped(in) THEN 1 ELSE 0
<1>1. sent' = IF Popped(in) THEN Instr(in) ELSE Stream!Nothing
  BY DEF AddrStep
<1>2. Instr(in) # Stream!Nothing
  <2>1. Stream!Nothing.words = <<>>
    BY DEF Stream!Nothing
  <2>2. \E a, b : Instr(in).words = <<a, b>>
    BY DEF Instr
  <2>3. \A a, b : <<a, b>> # <<>>
    OBVIOUS
  <2>4. QED
    BY <2>1, <2>2, <2>3, Zenon
<1>3. pop_q' = IF sent' = Stream!Nothing THEN 0 ELSE 1
  BY DEF pop_q, Stream!Nothing
<1>4. QED
  BY <1>1, <1>2, <1>3

\* The write side has counted the words IF can see.
LEMMA CountArrivals ==
  ASSUME FetchInv, InCode, NEW in \in Inputs, ~in.branch.taken, CountStep(in)
  PROVE  /\ WriteState' = StateOf(ReadState, Got(in), Seen(in, 0), Seen(in, 1), Seen(in, 2))
         /\ instr_cnt_q' = CountOf(ReadState, Got(in), Seen(in, 0), Seen(in, 1), Seen(in, 2))
         /\ aligned_q' \in BOOLEAN /\ complete_q' \in BOOLEAN
<1> DEFINE s == ReadState
           n == Filled
           w == RespValidGated(in)
           new == Resp(in)
           f0 == Seen(in, 0)
           f1 == Seen(in, 1)
           f2 == Seen(in, 2)
           c == instr_cnt_q - pop_q
<1>1. /\ TypeInv /\ FifoInv /\ FlightInv /\ PathInv
      /\ aligned_q \in BOOLEAN /\ complete_q \in BOOLEAN /\ instr_cnt_q \in Int
      /\ pop_q \in 0 .. 1
  BY DEF FetchInv, TypeInv, pop_q
<1>2. /\ WriteState = StateOf(s, n, fifo[Ring(0)], fifo[Ring(1)], fifo[Ring(2)])
      /\ c = CountOf(s, n, fifo[Ring(0)], fifo[Ring(1)], fifo[Ring(2)])
  BY DEF FetchInv, CountInv
<1>3. /\ n \in 0 .. 3 /\ Got(in) = n + (IF w THEN 1 ELSE 0) /\ Got(in) \in 0 .. 3
  BY <1>1, Numbers
<1>4. /\ n > 0 => f0 = fifo[Ring(0)]
      /\ n > 1 => f1 = fifo[Ring(1)]
      /\ n > 2 => f2 = fifo[Ring(2)]
      /\ n = 0 => f0 = new
      /\ n = 1 => f1 = new
      /\ n = 2 => f2 = new
  BY <1>3 DEF Seen
<1>5. s \in States
  BY DEF ReadState, States
<1>6. /\ instr_cnt_q' = IF w THEN instr_cnt_q + Incoming(new).n - pop_q ELSE instr_cnt_q - pop_q
      /\ aligned_q' = IF w THEN Incoming(new).aligned ELSE aligned_q
      /\ complete_q' = IF w THEN Incoming(new).complete ELSE complete_q
  BY DEF CountStep
<1>7. /\ Incoming(new).n = EndsIn(WriteState, new)
      /\ Incoming(new).aligned \in BOOLEAN /\ Incoming(new).complete \in BOOLEAN
      /\ StateAfter(WriteState, new)
           = IF Incoming(new).aligned THEN "aligned"
             ELSE IF Incoming(new).complete THEN "upper" ELSE "half"
  BY <1>1, IncomingCounts
<1>8. WriteState' = IF aligned_q' THEN "aligned" ELSE IF complete_q' THEN "upper" ELSE "half"
  BY DEF WriteState
<1>9. WriteState = IF aligned_q THEN "aligned" ELSE IF complete_q THEN "upper" ELSE "half"
  BY DEF WriteState
<1>10. EndsIn(WriteState, new) \in Nat
  BY DEF EndsIn
<1> HIDE DEF s, n, w, new, f0, f1, f2
<1>11. /\ WriteState = StateOf(s, n, f0, f1, f2) /\ c = CountOf(s, n, f0, f1, f2)
  BY <1>2, <1>3, <1>4, CountSame
<1>12. CASE w
  <2>1. n \in 0 .. 2 /\ Got(in) = n + 1
    BY <1>3, <1>12
  <2>2. new = CASE n = 0 -> f0 [] n = 1 -> f1 [] OTHER -> f2
    BY <1>4, <2>1
  <2>3. /\ CountOf(s, n + 1, f0, f1, f2)
             = CountOf(s, n, f0, f1, f2) + EndsIn(StateOf(s, n, f0, f1, f2), new)
        /\ StateOf(s, n + 1, f0, f1, f2) = StateAfter(StateOf(s, n, f0, f1, f2), new)
    BY <2>1, <2>2, CountAppend
  <2>4. /\ CountOf(s, n + 1, f0, f1, f2) = c + EndsIn(WriteState, new)
        /\ StateOf(s, n + 1, f0, f1, f2) = StateAfter(WriteState, new)
    BY <1>11, <2>3
  <2>5. WriteState' = StateAfter(WriteState, new)
    BY <1>6, <1>7, <1>8, <1>12
  <2>6. instr_cnt_q' = c + EndsIn(WriteState, new)
    BY <1>1, <1>6, <1>7, <1>10, <1>12
  <2>7. QED
    BY <1>6, <1>7, <1>12, <2>1, <2>4, <2>5, <2>6 DEF s, f0, f1, f2
<1>13. CASE ~w
  <2>1. Got(in) = n
    BY <1>3, <1>13
  <2>2. WriteState' = WriteState /\ instr_cnt_q' = c
    BY <1>6, <1>8, <1>9, <1>13
  <2>3. QED
    BY <1>1, <1>6, <1>11, <1>13, <2>1, <2>2 DEF s, f0, f1, f2
<1>14. QED
  BY <1>12, <1>13

LEMMA CountCycle ==
  ASSUME FetchInv, InCode, NEW in \in Inputs, ~in.branch.taken,
         CountStep(in), FifoStep(in), AddrStep(in)
  PROVE  /\ WriteState' = StateOf(ReadState, Filled, fifo[Ring(0)], fifo[Ring(1)], fifo[Ring(2)])'
         /\ instr_cnt_q' - pop_q'
              = CountOf(ReadState, Filled, fifo[Ring(0)], fifo[Ring(1)], fifo[Ring(2)])'
<1> DEFINE s == ReadState
           t == ReadState'
           g == Got(in)
           f0 == Seen(in, 0)
           f1 == Seen(in, 1)
           f2 == Seen(in, 2)
           h0 == fifo'[Ring(0)']
           h1 == fifo'[Ring(1)']
           h2 == fifo'[Ring(2)']
<1>1. /\ TypeInv /\ FifoInv /\ FlightInv /\ PathInv /\ ModeInv /\ ~is_ptr_q
      /\ addr_q \in Stream!HalfWords
  BY DEF FetchInv, TypeInv, InCode
<1>2. /\ WriteState' = StateOf(s, g, f0, f1, f2) /\ instr_cnt_q' = CountOf(s, g, f0, f1, f2)
  BY CountArrivals
<1>3. /\ g \in 0 .. 3 /\ (Popped(in) => g >= 1) /\ (Done(in) => Popped(in))
      /\ RespValidGated(in) => Filled <= 2 /\ Resp(in).word \in Stream!Words
  BY <1>1, Numbers, Received
<1>4. /\ Filled' = g - Bit(Done(in))
      /\ \A k \in 0 .. 2 : k < Filled' => fifo'[Ring(k)'] = Seen(in, k + Bit(Done(in)))
  BY <1>1, <1>3, FifoCycle
<1>5. addr_q' % 2 = 1 <=> IF Popped(in) /\ IsCompressed(in) THEN addr_q % 2 # 1 ELSE addr_q % 2 = 1
  <2>1. /\ addr_q % 2 \in 0 .. 1
        /\ addr_q' % 2 = (IF Popped(in) /\ IsCompressed(in) THEN 1 - (addr_q % 2) ELSE addr_q % 2)
    BY <1>1, AddrCycle, HalfWord
  <2>2. CASE Popped(in) /\ IsCompressed(in)
    BY <2>1, <2>2
  <2>3. CASE ~(Popped(in) /\ IsCompressed(in))
    BY <2>1, <2>3
  <2>4. QED
    BY <2>2, <2>3
<1>6. /\ s = (IF addr_q % 2 = 1 THEN "upper" ELSE "aligned")
      /\ t = (IF addr_q' % 2 = 1 THEN "upper" ELSE "aligned")
  BY DEF ReadState, Unaligned
<1>7. Popped(in) => (IsCompressed(in) <=> ~(IF addr_q % 2 = 1 THEN f0.hi ELSE f0.lo))
  BY <1>1, <1>3, Offered DEF IsCompressed, Unaligned
<1>8. Popped(in) /\ addr_q % 2 = 1 /\ ~IsCompressed(in) => g >= 2
  BY <1>1, <1>3, Offered DEF Straddles, Unaligned, Popped
<1>9. Done(in) <=> Popped(in) /\ (addr_q % 2 = 1 \/ ~IsCompressed(in))
  BY DEF Done, Unaligned
<1>10. pop_q' = IF Popped(in) THEN 1 ELSE 0
  BY PopFacts
<1>11. s \in States /\ t \in States
  BY <1>6 DEF States
<1>12. /\ StateOf(ReadState, Filled, fifo[Ring(0)], fifo[Ring(1)], fifo[Ring(2)])'
            = StateOf(t, Filled', h0, h1, h2)
       /\ CountOf(ReadState, Filled, fifo[Ring(0)], fifo[Ring(1)], fifo[Ring(2)])'
            = CountOf(t, Filled', h0, h1, h2)
  BY DEF StateOf, CountOf, StateAfter, EndsIn
<1> HIDE DEF s, t, g, f0, f1, f2, h0, h1, h2
<1>13. CountOf(s, g, f0, f1, f2) \in Nat
  BY <1>3, <1>11, CountFacts
<1>14. /\ StateOf(t, Filled', h0, h1, h2) = StateOf(s, g, f0, f1, f2)
       /\ CountOf(t, Filled', h0, h1, h2) = CountOf(s, g, f0, f1, f2) - (IF Popped(in) THEN 1 ELSE 0)
  <2>1. CASE Done(in)
    <3>1. Bit(Done(in)) = 1
      BY <2>1 DEF Bit
    <3>2. Filled' = g - 1 /\ g \in 1 .. 3 /\ Filled' \in 0 .. 2
      <4>1. Filled' = g - 1
        BY <1>4, <3>1
      <4>2. g >= 1 /\ g \in 0 .. 3
        BY <1>3, <2>1
      <4>3. QED
        BY <4>1, <4>2
    <3>3. (Filled' > 0 => h0 = f1) /\ (Filled' > 1 => h1 = f2)
      <4>1. \A k \in 0 .. 2 : k < Filled' => fifo'[Ring(k)'] = Seen(in, k + 1)
        BY <1>4, <3>1
      <4>2. QED
        BY <3>2, <4>1 DEF h0, h1, f1, f2
    <3>4. /\ StateOf(t, Filled', h0, h1, h2) = StateOf(t, g - 1, f1, f2, h2)
          /\ CountOf(t, Filled', h0, h1, h2) = CountOf(t, g - 1, f1, f2, h2)
      BY <3>2, <3>3, CountSame
    <3>5. \/ s = "aligned" /\ f0.lo /\ t = "aligned"
          \/ s = "upper" /\ ~f0.hi /\ t = "aligned"
          \/ s = "upper" /\ f0.hi /\ t = "upper" /\ g >= 2
      <4>1. CASE addr_q % 2 = 1 /\ IsCompressed(in)
        BY <1>3, <1>5, <1>6, <1>7, <2>1, <4>1
      <4>2. CASE addr_q % 2 = 1 /\ ~IsCompressed(in)
        BY <1>3, <1>5, <1>6, <1>7, <1>8, <2>1, <4>2
      <4>3. CASE addr_q % 2 # 1
        BY <1>3, <1>5, <1>6, <1>7, <1>9, <2>1, <4>3
      <4>4. QED
        BY <4>1, <4>2, <4>3
    <3>6. /\ CountOf(s, g, f0, f1, f2) = 1 + CountOf(t, g - 1, f1, f2, h2)
          /\ StateOf(s, g, f0, f1, f2) = StateOf(t, g - 1, f1, f2, h2)
      <4>1. /\ s = "aligned" /\ f0.lo /\ t = "aligned"
                 => /\ CountOf(s, g, f0, f1, f2) = 1 + CountOf(t, g - 1, f1, f2, h2)
                    /\ StateOf(s, g, f0, f1, f2) = StateOf(t, g - 1, f1, f2, h2)
            /\ s = "upper" /\ ~f0.hi /\ t = "aligned"
                 => /\ CountOf(s, g, f0, f1, f2) = 1 + CountOf(t, g - 1, f1, f2, h2)
                    /\ StateOf(s, g, f0, f1, f2) = StateOf(t, g - 1, f1, f2, h2)
            /\ s = "upper" /\ f0.hi /\ t = "upper" /\ g >= 2
                 => /\ CountOf(s, g, f0, f1, f2) = 1 + CountOf(t, g - 1, f1, f2, h2)
                    /\ StateOf(s, g, f0, f1, f2) = StateOf(t, g - 1, f1, f2, h2)
        BY <1>11, <3>2, CountPop
      <4>2. QED
        BY <3>5, <4>1, Zenon
    <3>7. CountOf(t, g - 1, f1, f2, h2) \in Nat
      BY <1>11, <3>2, CountFacts
    <3>8. QED
      BY <1>3, <2>1, <3>4, <3>6, <3>7
  <2>2. CASE ~Done(in)
    <3>1. Bit(Done(in)) = 0
      BY <2>2 DEF Bit
    <3>2. Filled' = g /\ Filled' \in 0 .. 3
      BY <1>3, <1>4, <3>1
    <3>3. (Filled' > 0 => h0 = f0) /\ (Filled' > 1 => h1 = f1) /\ (Filled' > 2 => h2 = f2)
      <4>1. \A k \in 0 .. 2 : k + 0 = k
        OBVIOUS
      <4>2. \A k \in 0 .. 2 : k < Filled' => fifo'[Ring(k)'] = Seen(in, k)
        BY <1>4, <3>1, <4>1
      <4>3. QED
        BY <3>2, <4>2 DEF h0, h1, h2, f0, f1, f2
    <3>4. /\ StateOf(t, Filled', h0, h1, h2) = StateOf(t, g, f0, f1, f2)
          /\ CountOf(t, Filled', h0, h1, h2) = CountOf(t, g, f0, f1, f2)
      BY <3>2, <3>3, CountSame
    <3>5. CASE Popped(in)
      <4>1. s = "aligned" /\ ~f0.lo /\ t = "upper" /\ g \in 1 .. 3
        BY <1>3, <1>5, <1>6, <1>7, <1>9, <2>2, <3>5, SMTT(30)
      <4>2. /\ CountOf(s, g, f0, f1, f2) = 1 + CountOf(t, g, f0, f1, f2)
            /\ StateOf(s, g, f0, f1, f2) = StateOf(t, g, f0, f1, f2)
        BY <1>11, <4>1, CountPop, SMTT(30)
      <4>3. CountOf(t, g, f0, f1, f2) \in Nat
        BY <1>3, <1>11, CountFacts
      <4>4. QED
        BY <3>4, <3>5, <4>2, <4>3
    <3>6. CASE ~Popped(in)
      <4>1. s = t
        BY <1>5, <1>6, <3>6
      <4>2. QED
        BY <1>13, <3>4, <3>6, <4>1
    <3>7. QED
      BY <3>5, <3>6
  <2>3. QED
    BY <2>1, <2>2
<1>15. instr_cnt_q' - pop_q' = CountOf(s, g, f0, f1, f2) - (IF Popped(in) THEN 1 ELSE 0)
  BY <1>2, <1>10
<1>16. QED
  BY <1>2, <1>12, <1>14, <1>15

-----------------------------------------------------------------------------
(* A cycle without a branch. *)

\* A fetch is for the next word of the path, and there is room for its answer.
LEMMA Room ==
  ASSUME FetchInv, NEW in \in Inputs, ~in.branch.taken, FetchAccepted(in)
  PROVE  /\ Filled + Current <= 2
         /\ ctrl_fsm_cs # "RESET" /\ ~ptr_fetch_accepted_q
         /\ TransAddr(in) = PathWord(Filled + Current)
         /\ PtrAccess(in) => is_ptr_q /\ state_q = "BRANCH_WAIT"
<1>1. TypeInv /\ FifoInv /\ FlightInv /\ PathInv /\ ModeInv /\ CountInv
  BY DEF FetchInv
<1>2. /\ in.req /\ outstanding_cnt_q < 2 /\ ~ptr_fetch_accepted_q
      /\ \/ instr_cnt_q - pop_q = 0
         \/ instr_cnt_q - pop_q = 1 /\ outstanding_cnt_q = 0
  BY DEF FetchAccepted, MpuHit, BusTransValid, FetchValid
<1>3. ctrl_fsm_cs # "RESET"
  BY <1>2, InputFacts
<1>4. TransAddr(in) = PathWord(Filled + Current)
  BY <1>1, <1>3 DEF PathInv, TransAddr, NextFetch, NextWord
<1>5. PtrAccess(in) => is_ptr_q /\ state_q = "BRANCH_WAIT"
  BY <1>1 DEF PtrAccess, ModeInv
<1>6. /\ Filled \in 0 .. 3 /\ outstanding_cnt_q \in 0 .. 2 /\ n_flush_q \in 0 .. 2
      /\ n_flush_q <= outstanding_cnt_q /\ Current = outstanding_cnt_q - n_flush_q
  BY <1>1, FilledFacts DEF TypeInv, Current
<1>7. Filled + Current <= 2
  <2>1. CASE is_ptr_q
    BY <1>1, <1>2, <2>1 DEF ModeInv
  <2>2. CASE ~is_ptr_q
    <3>1. instr_cnt_q - pop_q
            = CountOf(ReadState, Filled, fifo[Ring(0)], fifo[Ring(1)], fifo[Ring(2)])
      BY <1>1, <1>2, <1>3, <2>2 DEF CountInv, InCode
    <3>2. ReadState \in States
      BY DEF ReadState, States
    <3>3. CountOf(ReadState, Filled, fifo[Ring(0)], fifo[Ring(1)], fifo[Ring(2)]) >= Filled - 1
      BY <1>6, <3>2, CountFacts
    <3>4. instr_cnt_q - pop_q >= Filled - 1
      BY <3>1, <3>3
    <3>5. CASE instr_cnt_q - pop_q = 0
      <4>1. 0 >= Filled - 1
        BY <3>4, <3>5
      <4>2. QED
        BY <1>2, <1>6, <4>1
    <3>6. CASE instr_cnt_q - pop_q = 1 /\ outstanding_cnt_q = 0
      <4>1. 1 >= Filled - 1
        BY <3>4, <3>6
      <4>2. QED
        BY <1>6, <3>6, <4>1
    <3>7. QED
      BY <1>2, <3>5, <3>6
  <2>3. QED
    BY <2>1, <2>2
<1>8. QED
  BY <1>2, <1>3, <1>4, <1>5, <1>7

\* Words come in and are done with, fetches are accepted and answered.
LEMMA NumbersCycle ==
  ASSUME FetchInv, NEW in \in Inputs, ~in.branch.taken, Cycle(in)
  PROVE  /\ Filled' = Got(in) - Bit(Done(in)) /\ Filled' \in 0 .. 3
         /\ Current' = Current + Bit(FetchAccepted(in)) - Bit(RespValidGated(in))
         /\ n_flush_q' + Bit(RespValid(in)) = n_flush_q + Bit(RespValidGated(in))
         /\ n_flush_q' \in 0 .. 2 /\ n_flush_q' <= outstanding_cnt_q'
         /\ Filled' + Current' = Filled + Current + Bit(FetchAccepted(in)) - Bit(Done(in))
         /\ Filled' + Current' <= 3
<1> DEFINE a == FetchAccepted(in)
           rv == RespValid(in)
           w == RespValidGated(in)
           d == Done(in)
           aa == Bit(a)
           rr == Bit(rv)
           ww == Bit(w)
           dd == Bit(d)
<1>1. TypeInv /\ FifoInv /\ FlightInv /\ PathInv /\ ModeInv
  BY DEF FetchInv
<1>2. /\ CountStep(in) /\ FlushStep(in) /\ FifoStep(in) /\ AddrStep(in)
      /\ PrefetcherStep(in) /\ MpuStep(in) /\ ObiStep(in) /\ BusStep(in) /\ memory' = memory
  BY DEF Cycle
<1>3. /\ outstanding_cnt_q' = outstanding_cnt_q + Bit(a) - Bit(rv)
      /\ outstanding_cnt_q' \in 0 .. 2
  BY <1>1, <1>2, FlightCycle
<1>4. rv => outstanding_cnt_q >= 1
  BY <1>1, Answer
<1>5. /\ w <=> rv /\ n_flush_q = 0
      /\ n_flush_q' = IF rv /\ n_flush_q > 0 THEN n_flush_q - 1 ELSE n_flush_q
  BY <1>2 DEF RespValidGated, FlushStep
<1>6. /\ Filled \in 0 .. 3 /\ outstanding_cnt_q \in 0 .. 2 /\ n_flush_q \in 0 .. 2
      /\ n_flush_q <= outstanding_cnt_q /\ Current = outstanding_cnt_q - n_flush_q
      /\ Current' = outstanding_cnt_q' - n_flush_q'
      /\ Filled + Current <= 3
  BY <1>1, FilledFacts DEF TypeInv, Current, FifoInv
<1>7. /\ aa \in {0, 1} /\ rr \in {0, 1} /\ ww \in {0, 1} /\ dd \in {0, 1}
      /\ (aa = 1 <=> a) /\ (rr = 1 <=> rv) /\ (ww = 1 <=> w) /\ (dd = 1 <=> d)
  BY DEF Bit
<1>8. Filled' = Got(in) - dd
  <2>1. w => Filled <= 2 /\ Resp(in).word \in Stream!Words
    BY <1>1, Received
  <2>2. QED
    BY <1>1, <1>2, <1>7, <2>1, FifoCycle
<1>9. /\ Got(in) = Filled + ww /\ Got(in) \in 0 .. 3
      /\ d => Got(in) >= 1
  BY <1>1, Numbers DEF Got
<1>10. a => Filled + Current <= 2
  BY Room
<1>. outstanding_cnt_q' = outstanding_cnt_q + aa - rr /\ outstanding_cnt_q' \in 0 .. 2
  BY <1>3
<1> HIDE DEF a, rv, w, d, aa, rr, ww, dd
<1>11. Filled' = Filled + ww - dd /\ Filled' \in 0 .. 3
  <2>1. Filled' = Got(in) - dd /\ Got(in) = Filled + ww /\ Got(in) \in 0 .. 3
    BY <1>8, <1>9
  <2>2. dd = 1 => Got(in) >= 1
    BY <1>7, <1>9
  <2>3. QED
    BY <1>6, <1>7, <2>1, <2>2
<1>12. n_flush_q' + rr = n_flush_q + ww /\ n_flush_q' \in 0 .. 2 /\ n_flush_q' = n_flush_q + ww - rr
  BY <1>5, <1>6, <1>7
<1>13. /\ aa \in Int /\ rr \in Int /\ ww \in Int /\ dd \in Int
       /\ n_flush_q \in Int /\ outstanding_cnt_q \in Int /\ n_flush_q' \in Int
       /\ outstanding_cnt_q' \in Int /\ Filled \in Int /\ Current \in Int /\ Current' \in Int
  BY <1>6, <1>7, <1>12
<1>a. n_flush_q' <= outstanding_cnt_q'
  <2>1. (aa = 0 \/ aa = 1) /\ (rr = 0 \/ rr = 1) /\ (ww = 0 \/ ww = 1)
    BY <1>7
  <2>2. n_flush_q <= outstanding_cnt_q /\ n_flush_q >= 0
    BY <1>6
  <2>3. /\ ww = 1 => n_flush_q = 0 /\ outstanding_cnt_q >= 1 /\ rr = 1
        /\ ww = 0 /\ rr = 1 => n_flush_q >= 1
    BY <1>4, <1>5, <1>6, <1>7
  <2>4. n_flush_q' = n_flush_q + ww - rr
    BY <1>12
  <2>5. n_flush_q + ww - rr <= outstanding_cnt_q + aa - rr
    <3>1. CASE ww = 1
      BY <1>13, <2>1, <2>2, <2>3, <3>1
    <3>2. CASE ww = 0
      BY <1>13, <2>1, <2>2, <2>3, <3>2
    <3>3. QED
      BY <2>1, <3>1, <3>2
  <2>6. QED
    BY <2>4, <2>5
<1>14. Current' = Current + aa - ww
  <2>1. Current = outstanding_cnt_q - n_flush_q /\ Current' = outstanding_cnt_q' - n_flush_q'
    BY <1>6
  <2>2. n_flush_q' = n_flush_q + ww - rr
    BY <1>12
  <2>3. QED
    BY <1>13, <2>1, <2>2
<1>15. Filled' + Current' = Filled + Current + aa - dd
  <2>1. Filled' = Filled + ww - dd
    BY <1>11
  <2>2. QED
    BY <1>13, <1>14, <2>1
<1>16. Filled' + Current' <= 3
  BY <1>6, <1>7, <1>10, <1>15
<1>17. QED
  BY <1>7, <1>8, <1>11, <1>12, <1>a, <1>14, <1>15, <1>16 DEF a, rv, w, d, aa, rr, ww, dd

LEMMA PathCycle ==
  ASSUME FetchInv, NEW in \in Inputs, ~in.branch.taken, Cycle(in)
  PROVE  PathInv'
<1> DEFINE a == FetchAccepted(in)
           aa == Bit(a)
           rr == Bit(RespValid(in))
           ww == Bit(RespValidGated(in))
           dd == Bit(Done(in))
           F == Filled
           C == Current
           g == Got(in)
           f == n_flush_q
           o == outstanding_cnt_q
           F1 == Filled'
           C1 == Current'
           f1 == n_flush_q'
           o1 == outstanding_cnt_q'
<1>1. TypeInv /\ FifoInv /\ FlightInv /\ PathInv /\ ModeInv
  BY DEF FetchInv
<1>2. /\ FlushStep(in) /\ FifoStep(in) /\ AddrStep(in) /\ ControllerStep(in)
      /\ PrefetcherStep(in) /\ MpuStep(in) /\ ObiStep(in) /\ BusStep(in) /\ memory' = memory
  BY DEF Cycle
<1>3. /\ aa \in {0, 1} /\ rr \in {0, 1} /\ ww \in {0, 1} /\ dd \in {0, 1}
      /\ (aa = 1 <=> a)
  BY DEF Bit
<1>4. /\ F1 = g - dd /\ F1 \in 0 .. 3
      /\ C1 = C + aa - ww /\ f1 + rr = f + ww
      /\ f1 \in 0 .. 2 /\ f1 <= o1 /\ F1 + C1 = F + C + aa - dd /\ F1 + C1 <= 3
  BY NumbersCycle
<1>5. /\ F \in 0 .. 3 /\ C \in 0 .. 2 /\ g = F + ww /\ g \in 0 .. 3
      /\ F + C <= 3
  BY <1>1, Numbers DEF Got
<1>6. a => F + C <= 2 /\ TransAddr(in) = PathWord(F + C)
  BY Room
<1>7. \A k \in 0 .. 3 : k + dd <= 3 => PathWord(k)' = PathWord(k + dd)
  BY <1>1, <1>2, AddrCycle
<1>8. /\ o1 \in 0 .. 2 /\ o1 = o + aa - rr
      /\ \A j \in 1 .. 2 : j + rr <= o => InFlight(j)' = InFlight(j + rr)
      /\ \A j \in 1 .. 2 : a /\ j = o1 => InFlight(j)' = TransAddr(in)
  BY <1>1, <1>2, FlightCycle
<1>9. /\ \A j \in 1 .. 2 : j <= C => InFlight(f + j) = PathWord(F + j - 1)
      /\ ctrl_fsm_cs # "RESET" => PathWord(F + C) = NextFetch
  BY <1>1 DEF PathInv
<1>10. /\ o \in 0 .. 2 /\ f \in 0 .. 2 /\ C = o - f /\ C1 = o1 - f1
  BY <1>1 DEF TypeInv, Current
<1>11. \A k \in 0 .. 2 : k < F1 => /\ fifo'[Ring(k)'].word = PathWord(k)'
                                  /\ Genuine(fifo'[Ring(k)'])
  <2> SUFFICES ASSUME NEW k \in 0 .. 2, k < F1
               PROVE  fifo'[Ring(k)'].word = PathWord(k)' /\ Genuine(fifo'[Ring(k)'])
    OBVIOUS
  <2>1. RespValidGated(in) => Filled <= 2 /\ Resp(in).word \in Stream!Words
    BY <1>1, Received
  <2>2. fifo'[Ring(k)'] = Seen(in, k + dd)
    BY <1>1, <1>2, <2>1, FifoCycle
  <2> HIDE DEF dd, F1, g
  <2>3. k + dd \in 0 .. 2 /\ k + dd < g /\ k + dd <= 3 /\ k \in 0 .. 3
    BY <1>3, <1>4, <1>5
  <2>4. Seen(in, k + dd).word = PathWord(k + dd) /\ Genuine(Seen(in, k + dd))
    BY <1>1, <2>3, SeenFacts DEF g
  <2>5. PathWord(k)' = PathWord(k + dd)
    BY <1>7, <2>3
  <2>6. QED
    BY <2>2, <2>4, <2>5
<1>12. \A j, k : k = f1 + j => InFlight(n_flush_q + j)' = InFlight(k)'
  BY DEF InFlight
<1>13. \A j, k : k = F1 + j - 1 => PathWord(Filled + j - 1)' = PathWord(k)'
  BY DEF PathWord
<1>14. \A k : k = F1 + C1 => PathWord(Filled + Current)' = PathWord(k)'
  BY DEF PathWord
<1> HIDE DEF a, aa, rr, ww, dd, F, C, g, f, o, F1, C1, f1, o1
<1>15. \A j \in 1 .. 2 : j <= C1 => InFlight(n_flush_q + j)' = PathWord(Filled + j - 1)'
  <2> SUFFICES ASSUME NEW j \in 1 .. 2, j <= C1
               PROVE  InFlight(n_flush_q + j)' = PathWord(Filled + j - 1)'
    OBVIOUS
  <2>1. f1 + j \in 1 .. 2 /\ f1 + j <= o1 /\ F1 + j - 1 \in 0 .. 3 /\ g + j - 1 \in 0 .. 4
    BY <1>4, <1>5, <1>8, <1>10
  <2>k. PICK k \in 1 .. 2, l \in 0 .. 3, m \in 0 .. 4 :
          k = f1 + j /\ l = F1 + j - 1 /\ m = g + j - 1 /\ k <= o1
    BY <2>1
  <2>2. /\ InFlight(n_flush_q + j)' = InFlight(k)'
        /\ PathWord(Filled + j - 1)' = PathWord(l)'
    BY <1>12, <1>13, <2>k
  <2>3. l \in 0 .. 3 /\ l + dd = m /\ m \in 0 .. 3
    <3>1. l + dd = m
      BY <1>3, <1>4, <1>5, <2>k
    <3>2. m <= F + C + aa - 1
      BY <1>3, <1>4, <1>5, <2>k
    <3>3. m <= 3
      BY <1>3, <1>5, <1>6, <3>2
    <3>4. QED
      BY <3>1, <3>3
  <2>4. PathWord(l)' = PathWord(m)
    BY <1>7, <2>3
  <2>5. CASE k + rr <= o
    <3>1. InFlight(k)' = InFlight(k + rr)
      BY <1>8, <2>5, <2>k
    <3>2. j + ww \in 1 .. 2 /\ j + ww <= C /\ k + rr = f + (j + ww) /\ m = F + (j + ww) - 1
      BY <1>3, <1>4, <1>5, <1>10, <2>5, <2>k
    <3>3. InFlight(f + (j + ww)) = PathWord(F + (j + ww) - 1)
      BY <1>9, <3>2
    <3>4. QED
      BY <2>2, <2>4, <3>1, <3>2, <3>3
  <2>6. CASE ~(k + rr <= o)
    <3>1. aa = 1 /\ k = o1 /\ m = F + C
      BY <1>3, <1>4, <1>5, <1>8, <1>10, <2>6, <2>k
    <3>2. InFlight(k)' = TransAddr(in)
      BY <1>3, <1>8, <2>k, <3>1
    <3>3. TransAddr(in) = PathWord(F + C)
      BY <1>3, <1>6, <3>1
    <3>4. QED
      BY <2>2, <2>4, <3>1, <3>2, <3>3
  <2>7. QED
    BY <2>5, <2>6
<1>16. ctrl_fsm_cs' # "RESET" => PathWord(Filled + Current)' = NextFetch'
  <2> SUFFICES ASSUME ctrl_fsm_cs' # "RESET" PROVE PathWord(Filled + Current)' = NextFetch'
    OBVIOUS
  <2>1. ctrl_fsm_cs # "RESET"
    BY <1>2 DEF ControllerStep
  <2>2. PathWord(Filled + Current)' = PathWord(F + C + aa)
    <3>1. F1 + C1 \in 0 .. 3 /\ F1 + C1 + dd = F + C + aa /\ F + C + aa <= 3
      <4>1. F + C + aa <= 3
        BY <1>3, <1>5, <1>6
      <4>2. C1 >= 0 /\ C1 \in Int
        BY <1>4, <1>8, <1>10
      <4>3. QED
        BY <1>3, <1>4, <1>5, <4>1, <4>2
    <3>2. PICK k \in 0 .. 3 : k = F1 + C1
      BY <3>1
    <3>3. PathWord(Filled + Current)' = PathWord(k)'
      BY <1>14, <3>2
    <3>4. k + dd = F + C + aa /\ k + dd <= 3
      BY <3>1, <3>2
    <3>5. PathWord(k)' = PathWord(k + dd)
      BY <1>7, <3>4
    <3>6. QED
      BY <3>3, <3>4, <3>5
  <2>3. CASE a
    <3>1. aa = 1 /\ F + C \in 0 .. 2 /\ F + C + aa = F + C + 1
      BY <1>3, <1>5, <1>6, <2>3
    <3>2. PathWord(F + C + 1) = NextWord(PathWord(F + C))
      BY <3>1, PathFacts
    <3>3. state_q' = "IDLE" /\ trans_addr_q' = TransAddr(in)
      BY <1>2, <2>3 DEF PrefetcherStep, a
    <3>4. NextFetch' = NextWord(TransAddr(in))
      BY <3>3 DEF NextFetch, NextWord
    <3>5. QED
      BY <1>6, <2>2, <2>3, <3>1, <3>2, <3>4
  <2>4. CASE ~a
    <3>1. aa = 0 /\ F + C + aa = F + C
      BY <1>3, <1>5, <2>4
    <3>2. state_q' = state_q /\ trans_addr_q' = trans_addr_q
      BY <1>2, <2>4 DEF PrefetcherStep, a
    <3>3. NextFetch' = NextFetch
      BY <3>2 DEF NextFetch, NextWord
    <3>4. QED
      BY <1>9, <2>1, <2>2, <3>1, <3>3
  <2>5. QED
    BY <2>3, <2>4
<1>17. \A k : Genuine(fifo'[Ring(k)']) => Genuine(fifo[Ring(k)])'
  BY <1>2 DEF Genuine, Stream!Blocked
<1>18. QED
  BY <1>11, <1>15, <1>16, <1>17 DEF PathInv, F1, C1

LEMMA ModeCycle ==
  ASSUME FetchInv, NEW in \in Inputs, ~in.branch.taken, Cycle(in)
  PROVE  /\ ModeInv'
         /\ InCode' => InCode
<1> DEFINE a == FetchAccepted(in)
           p == PtrAccess(in)
<1>1. TypeInv /\ FifoInv /\ FlightInv /\ PathInv /\ ModeInv
  BY DEF FetchInv
<1>2. /\ CountStep(in) /\ FlushStep(in) /\ FifoStep(in) /\ AddrStep(in) /\ ControllerStep(in)
      /\ PrefetcherStep(in) /\ MpuStep(in) /\ ObiStep(in) /\ BusStep(in) /\ memory' = memory
  BY DEF Cycle
<1>3. /\ is_ptr_q \in BOOLEAN /\ ptr_fetch_accepted_q \in BOOLEAN
      /\ outstanding_cnt_q \in 0 .. 2 /\ n_flush_q \in 0 .. 2 /\ n_flush_q <= outstanding_cnt_q
      /\ Current = outstanding_cnt_q - n_flush_q
  BY <1>1 DEF TypeInv, Current
<1>4. /\ Filled' \in 0 .. 3 /\ n_flush_q' \in 0 .. 2 /\ n_flush_q' <= outstanding_cnt_q'
      /\ Current' = outstanding_cnt_q' - n_flush_q'
      /\ Current' = Current + Bit(a) - Bit(RespValidGated(in))
      /\ Filled' = Got(in) - Bit(Done(in))
      /\ Filled' + Current' = Filled + Current + Bit(a) - Bit(Done(in))
  BY NumbersCycle DEF Current
<1>5. outstanding_cnt_q' \in 0 .. 2
  BY <1>1, <1>2, FlightCycle
<1>6. /\ Filled \in 0 .. 3 /\ Current \in 0 .. 2
      /\ Got(in) = Filled + (IF RespValidGated(in) THEN 1 ELSE 0)
      /\ Got(in) <= Filled + Current
      /\ (Popped(in) => Got(in) >= 1) /\ (Done(in) => Popped(in))
      /\ Got(in) \in 0 .. 3
  BY <1>1, Numbers
<1>7. Popped(in) => /\ ctrl_fsm_cs # "RESET" /\ state_q # "BRANCH_WAIT"
                    /\ is_ptr_q <=> ptr_fetch_accepted_q
                    /\ is_ptr_q => Done(in)
  BY <1>1, PoppedWhen
<1>8. a => /\ ctrl_fsm_cs # "RESET" /\ ~ptr_fetch_accepted_q
           /\ p => is_ptr_q /\ state_q = "BRANCH_WAIT"
  BY Room
<1>9. /\ addr_q' = IF Popped(in) THEN Stream!Plus(addr_q, IF IsCompressed(in) THEN 1 ELSE 2) ELSE addr_q
      /\ is_ptr_q' = (is_ptr_q /\ ~Popped(in))
      /\ ptr_fetch_accepted_q' = ((a /\ p) \/ ptr_fetch_accepted_q)
      /\ ~Popped(in) => sent' = Stream!Nothing
  BY <1>2, <1>3 DEF AddrStep
<1>10. /\ state_q' = IF a THEN "IDLE" ELSE state_q
       /\ ~a => trans_ptr_access_q' = trans_ptr_access_q
       /\ a => trans_ptr_access_q' = p
  BY <1>2 DEF PrefetcherStep
<1>11. ctrl_fsm_cs' = "RESET" <=> ctrl_fsm_cs = "RESET"
  BY <1>2 DEF ControllerStep
<1>12. /\ ctrl_fsm_cs = "RESET" =>
            /\ Filled = 0 /\ outstanding_cnt_q = 0 /\ state_q = "IDLE" /\ sent = Stream!Nothing
            /\ ~is_ptr_q /\ ~ptr_fetch_accepted_q /\ instr_cnt_q = 0
       /\ ptr_fetch_accepted_q => Filled + Current = Bit(is_ptr_q)
       /\ is_ptr_q => addr_q % 2 = 0
       /\ is_ptr_q /\ ~ptr_fetch_accepted_q => state_q = "BRANCH_WAIT"
       /\ state_q = "BRANCH_WAIT" =>
            /\ Filled = 0 /\ Current = 0
            /\ trans_ptr_access_q = is_ptr_q /\ ~ptr_fetch_accepted_q
  BY <1>1 DEF ModeInv
<1>13. /\ Bit(a) = IF a THEN 1 ELSE 0
       /\ Bit(Done(in)) = IF Done(in) THEN 1 ELSE 0
       /\ Bit(RespValidGated(in)) = IF RespValidGated(in) THEN 1 ELSE 0
       /\ Bit(is_ptr_q) = IF is_ptr_q THEN 1 ELSE 0
  BY DEF Bit
<1>14. Bit(is_ptr_q)' = IF is_ptr_q' THEN 1 ELSE 0
  BY DEF Bit
<1>15. p = (state_q = "BRANCH_WAIT" /\ trans_ptr_access_q)
  BY DEF PtrAccess
<1>16. sent' = Stream!Nothing => pop_q' = 0
  BY DEF pop_q, Stream!Nothing
<1>17. ctrl_fsm_cs = "RESET" => ~RespValid(in) /\ ~RespValidGated(in) /\ instr_cnt_q' = 0
  <2> SUFFICES ASSUME ctrl_fsm_cs = "RESET"
               PROVE  ~RespValid(in) /\ ~RespValidGated(in) /\ instr_cnt_q' = 0
    OBVIOUS
  <2>1. ~RespValid(in)
    BY <1>1, <1>12, Answer
  <2>2. ~RespValidGated(in)
    BY <2>1 DEF RespValidGated
  <2>3. instr_cnt_q = 0 /\ pop_q = 0
    BY <1>12 DEF pop_q
  <2>4. instr_cnt_q' = instr_cnt_q - pop_q
    BY <1>2, <2>2 DEF CountStep
  <2>5. QED
    BY <2>1, <2>2, <2>3, <2>4
<1> HIDE DEF a, p
<1>18. state_q = "BRANCH_WAIT" => ~Popped(in) /\ ~Done(in) /\ ~RespValidGated(in)
  BY <1>6, <1>12
<1>19. ctrl_fsm_cs' = "RESET" =>
         /\ Filled' = 0 /\ outstanding_cnt_q' = 0 /\ state_q' = "IDLE" /\ sent' = Stream!Nothing
         /\ ~is_ptr_q' /\ ~ptr_fetch_accepted_q' /\ instr_cnt_q' = 0
  <2> SUFFICES ASSUME ctrl_fsm_cs = "RESET"
               PROVE  /\ Filled' = 0 /\ outstanding_cnt_q' = 0 /\ state_q' = "IDLE"
                      /\ sent' = Stream!Nothing
                      /\ ~is_ptr_q' /\ ~ptr_fetch_accepted_q' /\ instr_cnt_q' = 0
    BY <1>11
  <2>1. ~a /\ ~Popped(in) /\ ~Done(in) /\ ~RespValidGated(in) /\ ~RespValid(in)
    BY <1>6, <1>7, <1>8, <1>17
  <2>2. Filled' = 0 /\ Filled' \in 0 .. 3
    BY <1>4, <1>6, <1>12, <1>13, <2>1
  <2>3. outstanding_cnt_q' = 0
    <3>1. outstanding_cnt_q' = outstanding_cnt_q + Bit(a) - Bit(RespValid(in))
      BY <1>1, <1>2, FlightCycle DEF a
    <3>2. Bit(a) = 0 /\ Bit(RespValid(in)) = 0
      BY <2>1 DEF Bit
    <3>3. QED
      BY <1>12, <3>1, <3>2
  <2>4. QED
    BY <1>8, <1>9, <1>10, <1>12, <1>17, <2>1, <2>2, <2>3
<1>20. ptr_fetch_accepted_q' => Filled' + Current' = Bit(is_ptr_q)'
  <2> SUFFICES ASSUME ptr_fetch_accepted_q' PROVE Filled' + Current' = Bit(is_ptr_q)'
    OBVIOUS
  <2>1. CASE a /\ p
    <3>1. /\ is_ptr_q /\ Filled = 0 /\ Current = 0 /\ ~Popped(in) /\ ~Done(in)
      BY <1>8, <1>12, <1>18, <2>1
    <3>2. Filled' + Current' = 1
      BY <1>4, <1>13, <2>1, <3>1
    <3>3. QED
      BY <1>9, <1>14, <3>1, <3>2
  <2>2. CASE ~(a /\ p)
    <3>1. ptr_fetch_accepted_q /\ ~a
      BY <1>8, <1>9, <2>2
    <3>2. /\ is_ptr_q => Filled + Current = 1
          /\ ~is_ptr_q => Filled + Current = 0
      BY <1>12, <1>13, <3>1
    <3>3. Filled' + Current' = Filled + Current + 0 - Bit(Done(in))
      BY <1>4, <1>13, <3>1
    <3>4. CASE is_ptr_q
      <4>1. CASE Popped(in)
        <5>1. Bit(Done(in)) = 1 /\ Filled + Current = 1
          BY <1>7, <1>13, <3>2, <3>4, <4>1
        <5>2. Filled' + Current' = 0
          BY <1>6, <3>3, <5>1
        <5>3. ~is_ptr_q'
          BY <1>9, <4>1
        <5>4. QED
          BY <1>14, <5>2, <5>3
      <4>2. CASE ~Popped(in)
        <5>1. Bit(Done(in)) = 0 /\ Filled + Current = 1
          BY <1>6, <1>13, <3>2, <3>4, <4>2
        <5>2. Filled' + Current' = 1
          BY <1>6, <3>3, <5>1
        <5>3. is_ptr_q'
          BY <1>9, <3>4, <4>2
        <5>4. QED
          BY <1>14, <5>2, <5>3
      <4>3. QED
        BY <4>1, <4>2
    <3>5. CASE ~is_ptr_q
      <4>1. ~Popped(in) /\ ~Done(in)
        BY <1>6, <1>7, <3>1, <3>5
      <4>2. Bit(Done(in)) = 0 /\ Filled + Current = 0
        BY <1>13, <3>2, <3>5, <4>1
      <4>3. Filled' + Current' = 0
        BY <1>6, <3>3, <4>2
      <4>4. ~is_ptr_q'
        BY <1>9, <3>5
      <4>5. QED
        BY <1>14, <4>3, <4>4
    <3>6. QED
      BY <3>4, <3>5
  <2>3. QED
    BY <2>1, <2>2
<1>21. is_ptr_q' => addr_q' % 2 = 0
  BY <1>9, <1>12
<1>22. is_ptr_q' /\ ~ptr_fetch_accepted_q' => state_q' = "BRANCH_WAIT"
  BY <1>3, <1>9, <1>10, <1>12, <1>15
<1>23. state_q' = "BRANCH_WAIT" =>
         /\ Filled' = 0 /\ Current' = 0
         /\ trans_ptr_access_q' = is_ptr_q' /\ ~ptr_fetch_accepted_q'
  <2> SUFFICES ASSUME state_q' = "BRANCH_WAIT"
               PROVE  /\ Filled' = 0 /\ Current' = 0
                      /\ trans_ptr_access_q' = is_ptr_q' /\ ~ptr_fetch_accepted_q'
    OBVIOUS
  <2>1. ~a /\ state_q = "BRANCH_WAIT" /\ ~Popped(in) /\ ~Done(in) /\ ~RespValidGated(in)
    BY <1>10, <1>18
  <2>2. Filled' = 0
    BY <1>4, <1>6, <1>12, <1>13, <2>1
  <2>3. Current' = 0
    BY <1>4, <1>6, <1>12, <1>13, <2>1
  <2>4. QED
    BY <1>3, <1>9, <1>10, <1>12, <2>1, <2>2, <2>3
<1>24. ModeInv'
  BY <1>19, <1>20, <1>21, <1>22, <1>23 DEF ModeInv
<1>25. InCode' => InCode
  <2> SUFFICES ASSUME InCode' PROVE InCode
    OBVIOUS
  <2>1. ctrl_fsm_cs # "RESET" /\ ~is_ptr_q' /\ ~ptr_fetch_accepted_q'
    BY <1>11 DEF InCode
  <2>2. ~ptr_fetch_accepted_q
    BY <1>9, <2>1
  <2>3. ~is_ptr_q
    BY <1>7, <1>9, <2>1, <2>2
  <2>4. QED
    BY <2>1, <2>2, <2>3 DEF InCode
<1>26. QED
  BY <1>24, <1>25

\* The type invariant, the FIFO, the fetches and the count.
LEMMA PlainCycle ==
  ASSUME FetchInv, NEW in \in Inputs, ~in.branch.taken, Cycle(in)
  PROVE  FetchInv'
<1>1. TypeInv /\ FifoInv /\ FlightInv /\ PathInv /\ ModeInv
  BY DEF FetchInv
<1>2. /\ CountStep(in) /\ FlushStep(in) /\ FifoStep(in) /\ AddrStep(in) /\ ControllerStep(in)
      /\ PrefetcherStep(in) /\ MpuStep(in) /\ ObiStep(in) /\ BusStep(in) /\ memory' = memory
  BY DEF Cycle
<1>3. RespValidGated(in) => Filled <= 2 /\ Resp(in).word \in Stream!Words
  BY <1>1, Received
<1>4. FifoInv'
  <2>1. /\ ~Valid(Ring(0))' => ~Valid(Ring(1))'
        /\ ~Valid(Ring(1))' => ~Valid(Ring(2))'
        /\ wptr' = Ring(IF Filled = 3 THEN 0 ELSE Filled)'
    BY <1>1, <1>2, <1>3, FifoCycle
  <2>2. Filled' + Current' <= 3
    BY NumbersCycle
  <2>3. QED
    BY <2>1, <2>2 DEF FifoInv
<1>5. FlightInv'
  BY <1>1, <1>2, FlightCycle
<1>6. PathInv'
  BY PathCycle
<1>7. ModeInv' /\ (InCode' => InCode)
  BY ModeCycle
<1>8. CountInv'
  <2> SUFFICES ASSUME InCode'
               PROVE  /\ WriteState' = StateOf(ReadState, Filled, fifo[Ring(0)], fifo[Ring(1)],
                                               fifo[Ring(2)])'
                      /\ instr_cnt_q' - pop_q'
                           = CountOf(ReadState, Filled, fifo[Ring(0)], fifo[Ring(1)],
                                     fifo[Ring(2)])'
    BY DEF CountInv
  <2>1. InCode
    BY <1>7
  <2>2. QED
    BY <1>2, <2>1, CountCycle
<1>9. TypeInv'
  <2>1. memory' \in Memories /\ ctrl_fsm_cs' \in {"RESET", "DEBUG_TAKEN", "FUNCTIONAL"}
    BY <1>1, <1>2 DEF TypeInv, ControllerStep
  <2>2. addr_q' \in Stream!HalfWords
    BY <1>1, <1>2, AddrCycle
  <2>3. is_ptr_q' \in BOOLEAN /\ ptr_fetch_accepted_q' \in BOOLEAN
    BY <1>1, <1>2 DEF AddrStep, TypeInv
  <2>4. trans_ptr_access_q' \in BOOLEAN /\ state_q' \in {"IDLE", "BRANCH_WAIT"}
    BY <1>1, <1>2 DEF PrefetcherStep, PtrAccess, TypeInv
  <2>5. trans_addr_q' \in Stream!Words
    BY <1>1, <1>2, TransTyped DEF PrefetcherStep, TypeInv
  <2>6. rptr' \in 0 .. 2 /\ wptr' \in 0 .. 2 /\ fifo' = [k \in 0 .. 2 |-> fifo'[k]]
    BY <1>1, <1>2, <1>3, FifoCycle
  <2>7. /\ outstanding_cnt_q' \in 0 .. 2 /\ n_flush_q' \in 0 .. 2
        /\ n_flush_q' <= outstanding_cnt_q'
    BY <1>1, <1>2, NumbersCycle, FlightCycle
  <2>8. /\ mpu_state' \in {"IDLE", "WAIT", "RESP"}
        /\ obi_a_req_q' \in Stream!Words \cup {NoWord} /\ granted' \in Seq(Stream!Words)
    BY <1>1, <1>2, FlightCycle
  <2>9. instr_cnt_q' \in Int
    <3>1. instr_cnt_q \in Int /\ pop_q \in Int /\ Incoming(Resp(in)).n \in Int
      BY <1>1 DEF TypeInv, pop_q, Incoming
    <3>2. QED
      BY <1>2, <3>1 DEF CountStep
  <2>10. aligned_q' \in BOOLEAN /\ complete_q' \in BOOLEAN
    BY <1>1, <1>2 DEF CountStep, Incoming, TypeInv
  <2>11. QED
    BY <2>1, <2>2, <2>3, <2>4, <2>5, <2>6, <2>7, <2>8, <2>9, <2>10, Zenon
       DEF TypeInv, Stream!HalfWords, Stream!Words
<1>10. QED
  BY <1>4, <1>5, <1>6, <1>7, <1>8, <1>9 DEF FetchInv

-----------------------------------------------------------------------------
(* A branch: the path begins anew, with nothing fetched of it but, perhaps, *)
(* its first word.                                                          *)

LEMMA BranchCycle ==
  ASSUME FetchInv, NEW in \in Inputs, in.branch.taken, Cycle(in)
  PROVE  FetchInv'
<1> DEFINE a == FetchAccepted(in)
           to == in.branch.to
           ptr == in.branch.ptr
           rr == Bit(RespValid(in))
<1>1. TypeInv /\ FifoInv /\ FlightInv /\ PathInv /\ ModeInv
  BY DEF FetchInv
<1>2. /\ CountStep(in) /\ FlushStep(in) /\ FifoStep(in) /\ AddrStep(in) /\ ControllerStep(in)
      /\ PrefetcherStep(in) /\ MpuStep(in) /\ ObiStep(in) /\ BusStep(in) /\ memory' = memory
  BY DEF Cycle
<1>3. /\ to \in Stream!HalfWords /\ ptr \in BOOLEAN /\ (ptr => to % 2 = 0) /\ to % 2 \in 0 .. 1
      /\ Stream!WordOf(to) \in Stream!Words
  BY InputFacts, HalfWord
<1>4. /\ addr_q' = to /\ is_ptr_q' = ptr /\ ptr_fetch_accepted_q' = (a /\ ptr)
      /\ sent' = Stream!Nothing
  BY <1>2, <1>3 DEF AddrStep, PtrAccess, Popped, InstrValid
<1>5. /\ state_q' = (IF a THEN "IDLE" ELSE "BRANCH_WAIT")
      /\ trans_addr_q' = Stream!WordOf(to) /\ trans_ptr_access_q' = ptr
      /\ TransAddr(in) = Stream!WordOf(to)
  BY <1>2 DEF PrefetcherStep, TransAddr, PtrAccess
<1>6. ctrl_fsm_cs' \in {"DEBUG_TAKEN", "FUNCTIONAL"}
  BY <1>2 DEF ControllerStep
<1>7. /\ fifo' = [k \in 0 .. 2 |-> NoEntry] /\ rptr' = 0 /\ wptr' = 0
  BY <1>2 DEF FifoStep, Slots, AlbufDepth
<1>8. /\ Ring(0)' = 0 /\ Ring(1)' = 1 /\ Ring(2)' = 2
  BY <1>7 DEF Ring
<1>9. /\ ~Valid(Ring(0))' /\ ~Valid(Ring(1))' /\ ~Valid(Ring(2))' /\ Filled' = 0
  BY <1>7, <1>8 DEF Valid, Filled
<1>10. /\ outstanding_cnt_q' \in 0 .. 2
       /\ outstanding_cnt_q' = outstanding_cnt_q + Bit(a) - rr
       /\ mpu_state' \in {"IDLE", "WAIT", "RESP"}
       /\ obi_a_req_q' \in Stream!Words \cup {NoWord} /\ granted' \in Seq(Stream!Words)
       /\ FlightInv'
       /\ \A j \in 1 .. 2 : a /\ j = outstanding_cnt_q' => InFlight(j)' = TransAddr(in)
  BY <1>1, <1>2, FlightCycle
<1>11. n_flush_q' = outstanding_cnt_q - rr
  BY <1>2 DEF FlushStep, FlushOnBranch, Bit
<1>12. RespValid(in) => outstanding_cnt_q >= 1
  BY <1>1, Answer
<1>13. /\ outstanding_cnt_q \in 0 .. 2 /\ rr \in {0, 1} /\ (rr = 1 <=> RespValid(in))
       /\ Bit(a) = IF a THEN 1 ELSE 0
  BY <1>1 DEF TypeInv, Bit
<1>14. Current' = outstanding_cnt_q' - n_flush_q'
  BY DEF Current
<1> HIDE DEF a, to, ptr, rr
<1>15. /\ n_flush_q' \in 0 .. 2 /\ n_flush_q' <= outstanding_cnt_q'
       /\ Current' = IF a THEN 1 ELSE 0
  <2>1. rr = 0 \/ (rr = 1 /\ outstanding_cnt_q >= 1)
    BY <1>12, <1>13
  <2>2. outstanding_cnt_q \in Int /\ outstanding_cnt_q >= 0 /\ outstanding_cnt_q <= 2
    BY <1>13
  <2>3. n_flush_q' \in 0 .. 2
    BY <1>11, <2>1, <2>2
  <2>4. Bit(a) \in Int /\ Bit(a) >= 0
    BY <1>13
  <2>5. n_flush_q' + Bit(a) = outstanding_cnt_q'
    BY <1>10, <1>11, <2>1, <2>2, <2>4
  <2>6. n_flush_q' <= outstanding_cnt_q' /\ Current' = Bit(a)
    BY <1>10, <1>14, <2>3, <2>4, <2>5
  <2>7. QED
    BY <1>13, <2>3, <2>6
<1>16. FifoInv'
  <2>1. (Filled + Current)' <= 3
    BY <1>9, <1>15
  <2>2. wptr' = Ring(IF Filled = 3 THEN 0 ELSE Filled)'
    BY <1>7, <1>9 DEF Ring
  <2>3. QED
    BY <1>9, <2>1, <2>2 DEF FifoInv
<1>17. PathWord(0)' = Stream!WordOf(to) /\ PathWord(1)' = NextWord(Stream!WordOf(to))
  BY <1>4 DEF PathWord
<1>18. PathInv'
  <2>1. \A k \in 0 .. 2 : k < Filled' => FALSE
    BY <1>9
  <2>2. \A j \in 1 .. 2 : j <= Current' => InFlight(n_flush_q + j)' = PathWord(Filled + j - 1)'
    <3> SUFFICES ASSUME NEW j \in 1 .. 2, j <= Current'
                 PROVE  InFlight(n_flush_q + j)' = PathWord(Filled + j - 1)'
      OBVIOUS
    <3>1. a /\ j = 1 /\ n_flush_q' + 1 = outstanding_cnt_q'
      BY <1>10, <1>14, <1>15
    <3>2. PICK k \in 1 .. 2 : k = n_flush_q' + 1 /\ k = outstanding_cnt_q'
      <4>1. outstanding_cnt_q' \in 0 .. 2 /\ n_flush_q' \in 0 .. 2
        BY <1>10, <1>15
      <4>2. outstanding_cnt_q' = n_flush_q' + 1
        BY <3>1
      <4>3. \A x, y \in 0 .. 2 : x = y + 1 => x \in 1 .. 2
        OBVIOUS
      <4>4. outstanding_cnt_q' \in 1 .. 2
        BY <4>1, <4>2, <4>3
      <4>5. QED
        BY <4>2, <4>4
    <3>3. InFlight(n_flush_q + j)' = InFlight(k)'
      BY <3>1, <3>2 DEF InFlight
    <3>4. InFlight(k)' = Stream!WordOf(to)
      BY <1>5, <1>10, <3>1, <3>2
    <3>5. PathWord(Filled + j - 1)' = PathWord(0)'
      BY <1>9, <3>1 DEF PathWord
    <3>6. QED
      BY <1>17, <3>3, <3>4, <3>5
  <2>3. PathWord(Filled + Current)' = NextFetch'
    <3>1. CASE a
      <4>1. PathWord(Filled + Current)' = PathWord(1)'
        BY <1>9, <1>15, <3>1 DEF PathWord
      <4>2. NextFetch' = NextWord(Stream!WordOf(to))
        BY <1>5, <3>1 DEF NextFetch, NextWord
      <4>3. QED
        BY <1>17, <4>1, <4>2
    <3>2. CASE ~a
      <4>1. PathWord(Filled + Current)' = PathWord(0)'
        BY <1>9, <1>15, <3>2 DEF PathWord
      <4>2. NextFetch' = Stream!WordOf(to)
        BY <1>5, <3>2 DEF NextFetch
      <4>3. QED
        BY <1>17, <4>1, <4>2
    <3>3. QED
      BY <3>1, <3>2
  <2>4. QED
    BY <2>1, <2>2, <2>3 DEF PathInv
<1>19. ModeInv'
  <2>1. ptr_fetch_accepted_q' => Filled' + Current' = Bit(is_ptr_q)'
    <3>1. ptr_fetch_accepted_q' => a /\ is_ptr_q'
      BY <1>3, <1>4 DEF ptr
    <3>2. is_ptr_q' => Bit(is_ptr_q)' = 1
      BY DEF Bit
    <3>3. a => Filled' + Current' = 1
      BY <1>9, <1>15
    <3>4. QED
      BY <3>1, <3>2, <3>3
  <2>2. is_ptr_q' => addr_q' % 2 = 0
    BY <1>3, <1>4 DEF to, ptr
  <2>3. is_ptr_q' /\ ~ptr_fetch_accepted_q' => state_q' = "BRANCH_WAIT"
    BY <1>4, <1>5
  <2>4. state_q' = "BRANCH_WAIT" =>
          /\ Filled' = 0 /\ Current' = 0
          /\ trans_ptr_access_q' = is_ptr_q' /\ ~ptr_fetch_accepted_q'
    BY <1>4, <1>5, <1>9, <1>15
  <2>5. QED
    BY <1>6, <2>1, <2>2, <2>3, <2>4 DEF ModeInv
<1>20. /\ instr_cnt_q' = 0
       /\ aligned_q' \in BOOLEAN /\ (aligned_q' <=> to % 2 = 0)
       /\ complete_q' \in BOOLEAN /\ (complete_q' <=> to % 2 = 1)
  BY <1>2 DEF CountStep, to
<1>21. CountInv'
  <2>1. WriteState' = ReadState'
    <3>1. /\ aligned_q' <=> to % 2 # 1
          /\ complete_q' <=> to % 2 = 1
      BY <1>3, <1>20
    <3>2. WriteState' = IF to % 2 = 1 THEN "upper" ELSE "aligned"
      BY <3>1 DEF WriteState
    <3>3. ReadState' = IF to % 2 = 1 THEN "upper" ELSE "aligned"
      BY <1>4 DEF ReadState, Unaligned
    <3>4. QED
      BY <3>2, <3>3
  <2>2. StateOf(ReadState, Filled, fifo[Ring(0)], fifo[Ring(1)], fifo[Ring(2)])' = ReadState'
    BY <1>9 DEF StateOf
  <2>3. CountOf(ReadState, Filled, fifo[Ring(0)], fifo[Ring(1)], fifo[Ring(2)])' = 0
    BY <1>9 DEF CountOf
  <2>4. instr_cnt_q' - pop_q' = 0
    BY <1>4, <1>20 DEF pop_q, Stream!Nothing
  <2>5. QED
    BY <2>1, <2>2, <2>3, <2>4 DEF CountInv
<1>22. TypeInv'
  <2>1. /\ memory' \in Memories /\ ctrl_fsm_cs' \in {"RESET", "DEBUG_TAKEN", "FUNCTIONAL"}
        /\ addr_q' \in Stream!HalfWords /\ instr_cnt_q' \in Int
        /\ aligned_q' \in BOOLEAN /\ complete_q' \in BOOLEAN
    BY <1>1, <1>2, <1>3, <1>4, <1>6, <1>20 DEF TypeInv, to
  <2>2. /\ is_ptr_q' \in BOOLEAN /\ ptr_fetch_accepted_q' \in BOOLEAN
        /\ trans_ptr_access_q' \in BOOLEAN
    BY <1>3, <1>4, <1>5 DEF ptr
  <2>3. state_q' \in {"IDLE", "BRANCH_WAIT"} /\ trans_addr_q' \in Stream!Words
    BY <1>3, <1>5 DEF to
  <2>4. rptr' \in 0 .. 2 /\ wptr' \in 0 .. 2 /\ fifo' = [k \in 0 .. 2 |-> fifo'[k]]
    BY <1>7
  <2>5. QED
    BY <1>10, <1>15, <2>1, <2>2, <2>3, <2>4, Zenon DEF TypeInv, Stream!HalfWords, Stream!Words
<1>23. QED
  BY <1>10, <1>16, <1>18, <1>19, <1>21, <1>22 DEF FetchInv

-----------------------------------------------------------------------------
(* The invariant holds. *)

LEMMA InitHolds == Init => FetchInv
<1> SUFFICES ASSUME Init PROVE FetchInv
  OBVIOUS
<1>1. /\ fifo = [k \in 0 .. 2 |-> NoEntry] /\ rptr = 0 /\ wptr = 0
  BY DEF Init, Slots, AlbufDepth
<1>2. /\ Ring(0) = 0 /\ Ring(1) = 1 /\ Ring(2) = 2
  BY <1>1 DEF Ring
<1>3. ~Valid(Ring(0)) /\ ~Valid(Ring(1)) /\ ~Valid(Ring(2)) /\ Filled = 0
  BY <1>1, <1>2 DEF Valid, Filled
<1>4. Current = 0
  BY DEF Init, Current
<1>5. TypeInv
  <2>1. 0 \in Stream!HalfWords /\ 0 \in Stream!Words
    BY FetchAssumption DEF Stream!HalfWords, Stream!Words
  <2>2. fifo = [k \in 0 .. 2 |-> fifo[k]] /\ granted \in Seq(Stream!Words)
    BY <1>1 DEF Init
  <2>3. /\ memory \in Memories /\ ctrl_fsm_cs = "RESET" /\ addr_q = 0
        /\ is_ptr_q = FALSE /\ ptr_fetch_accepted_q = FALSE /\ aligned_q = FALSE
        /\ complete_q = FALSE /\ instr_cnt_q = 0 /\ trans_ptr_access_q = FALSE
    BY DEF Init
  <2>4. /\ n_flush_q = 0 /\ outstanding_cnt_q = 0 /\ state_q = "IDLE" /\ trans_addr_q = 0
        /\ mpu_state = "IDLE" /\ obi_a_req_q = NoWord
    BY DEF Init
  <2>5. /\ ctrl_fsm_cs \in {"RESET", "DEBUG_TAKEN", "FUNCTIONAL"} /\ addr_q \in Stream!HalfWords
        /\ is_ptr_q \in BOOLEAN /\ ptr_fetch_accepted_q \in BOOLEAN
        /\ trans_ptr_access_q \in BOOLEAN /\ aligned_q \in BOOLEAN /\ complete_q \in BOOLEAN
        /\ instr_cnt_q \in Int
    <3>1. /\ is_ptr_q \in BOOLEAN /\ ptr_fetch_accepted_q \in BOOLEAN
          /\ trans_ptr_access_q \in BOOLEAN /\ aligned_q \in BOOLEAN /\ complete_q \in BOOLEAN
      BY <2>3, Zenon
    <3>2. /\ ctrl_fsm_cs \in {"RESET", "DEBUG_TAKEN", "FUNCTIONAL"} /\ instr_cnt_q \in Int
      BY <2>3
    <3>3. addr_q \in Stream!HalfWords
      BY <2>1, <2>3, Zenon
    <3>4. QED
      BY <3>1, <3>2, <3>3
  <2>6. /\ rptr \in 0 .. 2 /\ wptr \in 0 .. 2
        /\ outstanding_cnt_q \in 0 .. 2 /\ n_flush_q \in 0 .. 2 /\ n_flush_q <= outstanding_cnt_q
    BY <1>1, <2>4
  <2>7. /\ state_q \in {"IDLE", "BRANCH_WAIT"} /\ trans_addr_q \in Stream!Words
        /\ mpu_state \in {"IDLE", "WAIT", "RESP"} /\ obi_a_req_q \in Stream!Words \cup {NoWord}
    BY <2>1, <2>4
  <2>8. QED
    BY <2>2, <2>3, <2>5, <2>6, <2>7, Zenon DEF TypeInv
<1>6. FifoInv
  BY <1>1, <1>2, <1>3, <1>4 DEF FifoInv
<1>7. FlightInv
  <2>1. Bit(obi_a_req_q # NoWord) = 0 /\ Bit(mpu_state # "IDLE") = 0
    BY DEF Init, Bit
  <2>2. QED
    BY <2>1 DEF Init, FlightInv
<1>8. PathInv
  BY <1>3, <1>4 DEF PathInv, Init
<1>9. ModeInv
  <2>1. sent = Stream!Nothing
    BY DEF Init, Stream!Nothing
  <2>2. /\ outstanding_cnt_q = 0 /\ state_q = "IDLE" /\ ~is_ptr_q /\ ~ptr_fetch_accepted_q
        /\ instr_cnt_q = 0
    BY DEF Init
  <2>3. QED
    BY <1>3, <2>1, <2>2 DEF ModeInv
<1>10. CountInv
  BY DEF CountInv, InCode, Init
<1>11. QED
  BY <1>5, <1>6, <1>7, <1>8, <1>9, <1>10 DEF FetchInv

LEMMA Stutters == FetchInv /\ UNCHANGED vars => FetchInv'
<1> SUFFICES ASSUME FetchInv, UNCHANGED vars PROVE FetchInv'
  OBVIOUS
<1> USE DEF vars, albufVars
<1>1. /\ TypeInv' /\ (Filled = Filled') /\ (Current = Current')
  BY DEF FetchInv, TypeInv, Filled, Valid, Ring, Current, Stream!HalfWords, Stream!Words
<1>2. FifoInv'
  BY DEF FetchInv, FifoInv, Filled, Valid, Ring, Current
<1>3. FlightInv'
  BY DEF FetchInv, FlightInv, Stream!Words, Stream!Blocked
<1>4. PathInv'
  BY SMTT(30) DEF FetchInv, PathInv, Genuine, PathWord, InFlight, Filled, Valid, Ring, Current,
         NextFetch, Stream!Blocked
<1>5. ModeInv'
  BY DEF FetchInv, ModeInv, Filled, Valid, Ring, Current
<1>6. CountInv'
  BY DEF FetchInv, CountInv, InCode, WriteState, ReadState, Unaligned, Filled, Valid, Ring, pop_q,
         StateOf, CountOf
<1>7. QED
  BY <1>1, <1>2, <1>3, <1>4, <1>5, <1>6 DEF FetchInv

(* What the buffer, the prefetcher, the MPU gate and the bus interface know *)
(* of the fetches under way agrees, in every reachable state and for every  *)
(* memory: the buffered words, the outstanding fetches and the next one     *)
(* follow each other on the path, there is room for every answer, the MPU   *)
(* answers in its turn, and the instructions are counted.                   *)
THEOREM FetchInvariant == Spec => []FetchInv
<1>1. Init => FetchInv
  BY InitHolds
<1>2. FetchInv /\ [Next]_vars => FetchInv'
  <2> SUFFICES ASSUME FetchInv, [Next]_vars PROVE FetchInv'
    OBVIOUS
  <2>1. CASE Next
    <3>1. PICK in \in Inputs : Cycle(in)
      BY <2>1 DEF Next
    <3>2. QED
      BY <3>1, PlainCycle, BranchCycle
  <2>2. CASE UNCHANGED vars
    BY <2>2, Stutters
  <2>3. QED
    BY <2>1, <2>2
<1>3. QED
  BY <1>1, <1>2, PTL DEF Spec

-----------------------------------------------------------------------------
(* The buffer implements the stream of instructions. *)

\* What lies at the pc, for the stream.
Mode == IF is_ptr_q THEN "pointer"
        ELSE IF ptr_fetch_accepted_q \/ ctrl_fsm_cs = "RESET" THEN "none" ELSE "code"

\* An instruction is made of the words of the path it lies in.
LEMMA PoppedWords ==
  ASSUME FetchInv, NEW in \in Inputs, Popped(in)
  PROVE  /\ Entry(in, rptr).word = Stream!WordOf(addr_q) /\ Genuine(Entry(in, rptr))
         /\ Straddles(in) => Entry(in, rptr2).word = NextWord(Stream!WordOf(addr_q))
<1>1. TypeInv /\ FifoInv /\ FlightInv /\ PathInv
  BY DEF FetchInv
<1>2. RespValidGated(in) => Filled <= 2
  BY <1>1, Received
<1>3. InstrValid(in)
  BY DEF Popped
<1>4. /\ Got(in) \in 0 .. 3 /\ Got(in) >= 1 /\ Entry(in, rptr) = Seen(in, 0)
      /\ Straddles(in) => Got(in) >= 2 /\ Entry(in, rptr2) = Seen(in, 1)
  BY <1>1, <1>2, <1>3, Offered
<1>5. \A j \in 0 .. 2 : j < Got(in) => Seen(in, j).word = PathWord(j) /\ Genuine(Seen(in, j))
  BY <1>1, SeenFacts
<1>6. /\ PathWord(0) = Stream!WordOf(addr_q)
      /\ PathWord(1) = NextWord(Stream!WordOf(addr_q))
  BY DEF PathWord
<1>7. Seen(in, 0).word = PathWord(0) /\ Genuine(Seen(in, 0))
  BY <1>4, <1>5
<1>8. Straddles(in) => Seen(in, 1).word = PathWord(1)
  BY <1>4, <1>5
<1>9. QED
  BY <1>4, <1>6, <1>7, <1>8

LEMMA Delivers ==
  ASSUME FetchInv, NEW in \in Inputs, Popped(in), Cycle(in)
  PROVE  Stream!Deliver
<1> DEFINE h == addr_q
           w == Stream!WordOf(addr_q)
           long == ~IsCompressed(in)
           length == IF long THEN 2 ELSE 1
           first == Entry(in, rptr).word
           last == IF Straddles(in) THEN Entry(in, rptr2).word ELSE first
<1>1. TypeInv /\ FifoInv /\ FlightInv /\ PathInv /\ ModeInv
  BY DEF FetchInv
<1>2. ~in.branch.taken /\ AddrStep(in) /\ ControllerStep(in)
  BY DEF Popped, InstrValid, Cycle
<1>3. /\ ctrl_fsm_cs # "RESET" /\ state_q # "BRANCH_WAIT"
      /\ is_ptr_q <=> ptr_fetch_accepted_q
      /\ is_ptr_q => h % 2 = 0 /\ long
  BY <1>1, PoppedWhen
<1>4. /\ first = w /\ Genuine(Entry(in, rptr))
      /\ Straddles(in) => last = NextWord(w)
      /\ ~Straddles(in) => last = w
  BY PoppedWords
<1>5. h \in Stream!HalfWords /\ h % 2 \in 0 .. 1
  BY <1>1, HalfWord DEF TypeInv
<1>6. Straddles(in) <=> h % 2 = 1 /\ long
  BY <1>3 DEF Straddles, Unaligned
<1>7. last = Stream!WordOf(Stream!Plus(h, length - 1))
  <2>1. CASE long
    <3>1. length - 1 = 1
      BY <2>1
    <3>2. Stream!WordOf(Stream!Plus(h, 1)) = IF h % 2 = 0 THEN w ELSE NextWord(w)
      BY <1>5, Onward
    <3>3. last = IF h % 2 = 0 THEN w ELSE NextWord(w)
      <4>1. CASE h % 2 = 0
        <5>1. ~Straddles(in)
          BY <1>6, <4>1
        <5>2. QED
          BY <1>4, <4>1, <5>1
      <4>2. CASE h % 2 = 1
        <5>1. Straddles(in)
          BY <1>6, <2>1, <4>2
        <5>2. QED
          BY <1>4, <4>2, <5>1
      <4>3. QED
        BY <1>5, <4>1, <4>2
    <3>4. QED
      BY <3>1, <3>2, <3>3
  <2>2. CASE ~long
    <3>1. length - 1 = 0 /\ Stream!Plus(h, 0) = h
      BY <1>5, <2>2, Onward
    <3>2. last = w
      BY <1>4, <1>6, <2>2
    <3>3. QED
      BY <3>1, <3>2
  <2>3. QED
    BY <2>1, <2>2
<1>8. sent' = [addr |-> h, words |-> <<first, last>>,
               faults |-> memory[first].faults \cup memory[last].faults]
  BY <1>2 DEF AddrStep, Instr
<1>9. addr_q' = Stream!Plus(h, length)
  BY <1>2 DEF AddrStep
<1>10. /\ is_ptr_q' = FALSE
       /\ ptr_fetch_accepted_q' <=> ptr_fetch_accepted_q
       /\ ctrl_fsm_cs' # "RESET"
  <2>1. ~PtrAccess(in)
    BY <1>2, <1>3 DEF PtrAccess
  <2>2. QED
    BY <1>2, <1>3, <2>1 DEF AddrStep, ControllerStep
<1>11. Mode = (IF is_ptr_q THEN "pointer" ELSE "code")
       /\ Mode' = (IF is_ptr_q THEN "none" ELSE "code")
  BY <1>3, <1>10 DEF Mode
<1>12. \/ is_ptr_q /\ length = 2
       \/ ~is_ptr_q /\ Stream!Blocked(w) /\ length \in {1, 2}
       \/ ~is_ptr_q /\ ~Stream!Blocked(w) /\ length = IF Stream!IsLong(h) THEN 2 ELSE 1
  <2>1. CASE is_ptr_q
    BY <1>3, <2>1
  <2>2. CASE ~is_ptr_q /\ ~Stream!Blocked(w)
    <3>1. /\ Entry(in, rptr).lo = memory[w].lo /\ Entry(in, rptr).hi = memory[w].hi
      BY <1>4, <2>2 DEF Genuine
    <3>2. IsCompressed(in) <=> ~(IF h % 2 = 1 THEN memory[w].hi ELSE memory[w].lo)
      BY <2>2, <3>1 DEF IsCompressed, Unaligned
    <3>3. Stream!IsLong(h) <=> IF h % 2 = 0 THEN memory[w].lo ELSE memory[w].hi
      BY DEF Stream!IsLong
    <3>4. long <=> Stream!IsLong(h)
      BY <1>5, <3>2, <3>3
    <3>5. QED
      BY <2>2, <3>4
  <2>3. CASE ~is_ptr_q /\ Stream!Blocked(w)
    BY <2>3
  <2>4. QED
    BY <2>1, <2>2, <2>3
<1> HIDE DEF length, last, first, h, w
<1>13. length \in Stream!Lengths
  BY <1>3, <1>12 DEF Stream!Lengths, h, w
<1>14. sent' = Stream!Item(w, Stream!WordOf(Stream!Plus(h, length - 1)))
  BY <1>4, <1>7, <1>8 DEF Stream!Item, h
<1>15. QED
  BY <1>3, <1>9, <1>11, <1>13, <1>14 DEF Stream!Deliver, Mode, h, w

LEMMA StreamStep ==
  ASSUME FetchInv, NEW in \in Inputs, Cycle(in)
  PROVE  Stream!StreamNext
<1>1. TypeInv /\ ModeInv
  BY DEF FetchInv
<1>2. AddrStep(in) /\ ControllerStep(in) /\ memory' = memory
  BY DEF Cycle
<1>3. CASE in.branch.taken
  <2>1. /\ in.branch.to \in Stream!HalfWords /\ in.branch.ptr \in BOOLEAN
        /\ in.branch.ptr => in.branch.to % 2 = 0
    BY InputFacts
  <2>2. /\ addr_q' = in.branch.to /\ is_ptr_q' = in.branch.ptr
        /\ ptr_fetch_accepted_q' => in.branch.ptr
        /\ sent' = Stream!Nothing
    BY <1>2, <1>3 DEF AddrStep, PtrAccess, Popped, InstrValid
  <2>3. ctrl_fsm_cs' # "RESET"
    BY <1>2, <1>3 DEF ControllerStep
  <2>4. Mode' = IF in.branch.ptr THEN "pointer" ELSE "code"
    BY <2>2, <2>3 DEF Mode
  <2>5. Stream!SetPc
    BY <2>1, <2>2, <2>4 DEF Stream!SetPc, Mode
  <2>6. QED
    BY <1>2, <2>5 DEF Stream!StreamNext
<1>4. CASE ~in.branch.taken /\ Popped(in)
  <2>1. Stream!Deliver
    BY <1>4, Delivers
  <2>2. QED
    BY <1>2, <2>1 DEF Stream!StreamNext
<1>5. CASE ~in.branch.taken /\ ~Popped(in)
  <2>1. addr_q' = addr_q /\ sent' = Stream!Nothing /\ is_ptr_q' = is_ptr_q
    BY <1>1, <1>2, <1>5 DEF AddrStep, TypeInv
  <2>2. ptr_fetch_accepted_q' => ptr_fetch_accepted_q \/ is_ptr_q
    <3>1. PtrAccess(in) => is_ptr_q
      BY <1>1, <1>5 DEF PtrAccess, ModeInv
    <3>2. QED
      BY <1>2, <3>1 DEF AddrStep
  <2>3. ptr_fetch_accepted_q => ptr_fetch_accepted_q'
    BY <1>2, <1>5 DEF AddrStep
  <2>4. ctrl_fsm_cs' = "RESET" <=> ctrl_fsm_cs = "RESET"
    BY <1>2, <1>5 DEF ControllerStep
  <2>5. Mode' = Mode
    BY <2>1, <2>2, <2>3, <2>4 DEF Mode
  <2>6. Stream!Idle
    BY <2>1, <2>5 DEF Stream!Idle, Mode
  <2>7. QED
    BY <1>2, <2>6 DEF Stream!StreamNext
<1>6. QED
  BY <1>3, <1>4, <1>5

(* IF is handed the instructions of the current path, each once, in order,  *)
(* made of its own words and with the faults of these words, whatever       *)
(* fetches of an abandoned path are still to be granted or answered.        *)
THEOREM FetchIsStream == Spec => ImplementsStream
<1>1. Init => Stream!StreamInit
  BY DEF Init, Stream!StreamInit, Stream!Nothing
<1>2. FetchInv /\ [Next]_vars => [Stream!StreamNext]_(Stream!streamVars)
  <2> SUFFICES ASSUME FetchInv, [Next]_vars
               PROVE  [Stream!StreamNext]_(Stream!streamVars)
    OBVIOUS
  <2>1. CASE Next
    <3>1. PICK in \in Inputs : Cycle(in)
      BY <2>1 DEF Next
    <3>2. Stream!StreamNext
      BY <3>1, StreamStep
    <3>3. QED
      BY <3>2
  <2>2. CASE UNCHANGED vars
    BY <2>2 DEF vars, albufVars, Stream!streamVars
  <2>3. QED
    BY <2>1, <2>2
<1>3. QED
  BY <1>1, <1>2, FetchInvariant, PTL DEF Spec, ImplementsStream, Stream!StreamSpec

-----------------------------------------------------------------------------
(* The count that decides on fetches is exact. *)

LEMMA CardinalityOfFilled ==
  ASSUME TypeInv, FifoInv
  PROVE  Cardinality({k \in Slots : Valid(k)}) = Filled
<1> DEFINE V == {k \in Slots : Valid(k)}
           p == Ring(0)
           q == Ring(1)
           r == Ring(2)
<1>1. /\ p \in 0 .. 2 /\ q \in 0 .. 2 /\ r \in 0 .. 2 /\ p # q /\ q # r /\ p # r
      /\ \A k \in 0 .. 2 : k = p \/ k = q \/ k = r
  BY RingFacts DEF TypeInv
<1>2. /\ Filled \in 0 .. 3 /\ (Valid(p) <=> Filled >= 1) /\ (Valid(q) <=> Filled >= 2)
      /\ (Valid(r) <=> Filled >= 3)
  BY FilledFacts
<1>3. Slots = 0 .. 2
  BY DEF Slots, AlbufDepth
<1> HIDE DEF p, q, r
<1>4. /\ IsFiniteSet({}) /\ Cardinality({}) = 0
      /\ IsFiniteSet({p}) /\ Cardinality({p}) = 1
  BY FS_EmptySet, FS_Singleton
<1>5. IsFiniteSet({p} \cup {q}) /\ Cardinality({p} \cup {q}) = 2
  <2>1. q \notin {p} /\ IsFiniteSet({p}) /\ Cardinality({p}) = 1
    BY <1>1, <1>4
  <2>2. /\ IsFiniteSet({p} \cup {q})
        /\ Cardinality({p} \cup {q}) = IF q \in {p} THEN Cardinality({p}) ELSE Cardinality({p}) + 1
    BY <2>1, FS_AddElement, Zenon
  <2>3. Cardinality({p} \cup {q}) = Cardinality({p}) + 1
    BY <2>1, <2>2, Zenon
  <2>4. QED
    BY <2>1, <2>2, <2>3
<1>6. Cardinality({p} \cup {q} \cup {r}) = 3
  <2>1. r \notin {p} \cup {q}
    BY <1>1
  <2>2. QED
    BY <1>5, <2>1, FS_AddElement
<1>7. CASE Filled = 0
  <2>1. V = {}
    BY <1>1, <1>2, <1>3, <1>7
  <2>2. QED
    BY <1>4, <1>7, <2>1
<1>8. CASE Filled = 1
  <2>1. V = {p}
    BY <1>1, <1>2, <1>3, <1>8
  <2>2. QED
    BY <1>4, <1>8, <2>1
<1>9. CASE Filled = 2
  <2>1. V = {p} \cup {q}
    BY <1>1, <1>2, <1>3, <1>9
  <2>2. QED
    BY <1>5, <1>9, <2>1
<1>10. CASE Filled = 3
  <2>1. V = {p} \cup {q} \cup {r}
    BY <1>1, <1>2, <1>3, <1>10
  <2>2. QED
    BY <1>6, <1>10, <2>1
<1>11. QED
  BY <1>2, <1>7, <1>8, <1>9, <1>10

\* The halfwords in the FIFO from the pc on: how many there are, and whether a
\* 32-bit instruction begins at one.
Total == 2 * Cardinality({k \in Slots : Valid(k)})
LongAt(n) == LET e == fifo[(rptr + n \div 2) % AlbufDepth]
             IN  IF n % 2 = 0 THEN e.lo ELSE e.hi

LEMMA HalfWordsOfFifo ==
  ASSUME TypeInv, FifoInv
  PROVE  /\ Total = 2 * Filled
         /\ LongAt(0) <=> fifo[Ring(0)].lo
         /\ LongAt(1) <=> fifo[Ring(0)].hi
         /\ LongAt(2) <=> fifo[Ring(1)].lo
         /\ LongAt(3) <=> fifo[Ring(1)].hi
         /\ LongAt(4) <=> fifo[Ring(2)].lo
         /\ LongAt(5) <=> fifo[Ring(2)].hi
<1>1. Total = 2 * Filled
  BY CardinalityOfFilled DEF Total
<1>2. rptr \in 0 .. 2 /\ AlbufDepth = 3
  BY DEF TypeInv, AlbufDepth
<1>3. /\ 0 \div 2 = 0 /\ 1 \div 2 = 0 /\ 2 \div 2 = 1 /\ 3 \div 2 = 1 /\ 4 \div 2 = 2 /\ 5 \div 2 = 2
      /\ 0 % 2 = 0 /\ 1 % 2 = 1 /\ 2 % 2 = 0 /\ 3 % 2 = 1 /\ 4 % 2 = 0 /\ 5 % 2 = 1
  OBVIOUS
<1>4. \A k \in 0 .. 2 : (rptr + k) % 3 = Ring(k)
  BY <1>2 DEF Ring
<1>5. /\ (rptr + 0) % 3 = Ring(0) /\ (rptr + 1) % 3 = Ring(1) /\ (rptr + 2) % 3 = Ring(2)
  BY <1>4
<1>6. /\ LongAt(0) <=> fifo[Ring(0)].lo
      /\ LongAt(1) <=> fifo[Ring(0)].hi
      /\ LongAt(2) <=> fifo[Ring(1)].lo
      /\ LongAt(3) <=> fifo[Ring(1)].hi
      /\ LongAt(4) <=> fifo[Ring(2)].lo
      /\ LongAt(5) <=> fifo[Ring(2)].hi
  BY <1>2, <1>3, <1>5 DEF LongAt
<1>7. QED
  BY <1>1, <1>6

\* What Buffered counts from a halfword on.
Rest(f, n) == IF n >= Total THEN 0
              ELSE IF ~LongAt(n) THEN 1 + f[n + 1]
              ELSE IF n + 1 < Total THEN 1 + f[n + 2] ELSE 0
CountsRest(f) == f = [n \in 0 .. 2 * AlbufDepth + 1 |-> Rest(f, n)]

\* Seven halfwords at most: the function that counts can be written down.
LEMMA RestExists ==
  ASSUME TypeInv, FifoInv
  PROVE  \E f : CountsRest(f)
<1> DEFINE T == Total
           L(n) == LongAt(n)
           g5 == IF 5 >= T THEN 0 ELSE IF ~L(5) THEN 1 ELSE 0
           g4 == IF 4 >= T THEN 0 ELSE IF ~L(4) THEN 1 + g5 ELSE 1
           g3 == IF 3 >= T THEN 0 ELSE IF ~L(3) THEN 1 + g4 ELSE IF 4 < T THEN 1 + g5 ELSE 0
           g2 == IF 2 >= T THEN 0 ELSE IF ~L(2) THEN 1 + g3 ELSE 1 + g4
           g1 == IF 1 >= T THEN 0 ELSE IF ~L(1) THEN 1 + g2 ELSE IF 2 < T THEN 1 + g3 ELSE 0
           g0 == IF 0 >= T THEN 0 ELSE IF ~L(0) THEN 1 + g1 ELSE 1 + g2
           g == [n \in 0 .. 7 |-> IF n = 0 THEN g0 ELSE IF n = 1 THEN g1 ELSE IF n = 2 THEN g2
                                  ELSE IF n = 3 THEN g3 ELSE IF n = 4 THEN g4
                                  ELSE IF n = 5 THEN g5 ELSE 0]
<1>1. T \in {0, 2, 4, 6}
  <2>1. T = 2 * Filled /\ Filled \in 0 .. 3
    BY HalfWordsOfFifo, FilledFacts
  <2>2. QED
    BY <2>1
<1>2. 2 * AlbufDepth + 1 = 7
  BY DEF AlbufDepth
<1>3. /\ g[0] = g0 /\ g[1] = g1 /\ g[2] = g2 /\ g[3] = g3 /\ g[4] = g4 /\ g[5] = g5
      /\ g[6] = 0 /\ g[7] = 0
  <2> HIDE DEF g0, g1, g2, g3, g4, g5
  <2>1. QED
    OBVIOUS
<1>4. \A n \in 0 .. 7 : Rest(g, n) = IF n >= T THEN 0
                                     ELSE IF ~L(n) THEN 1 + g[n + 1]
                                     ELSE IF n + 1 < T THEN 1 + g[n + 2] ELSE 0
  <2> HIDE DEF g
  <2>1. QED
    BY DEF Rest
<1>5. g = [n \in 0 .. 7 |-> g[n]]
  <2> HIDE DEF g0, g1, g2, g3, g4, g5
  <2>1. QED
    OBVIOUS
<1> HIDE DEF g, T, L
<1>6. \A n \in 0 .. 7 : Rest(g, n) = g[n]
  <2> SUFFICES ASSUME NEW n \in 0 .. 7 PROVE Rest(g, n) = g[n]
    OBVIOUS
  <2>1. CASE n = 0
    BY <1>1, <1>3, <1>4, <2>1
  <2>2. CASE n = 1
    BY <1>1, <1>3, <1>4, <2>2
  <2>3. CASE n = 2
    BY <1>1, <1>3, <1>4, <2>3
  <2>4. CASE n = 3
    BY <1>1, <1>3, <1>4, <2>4
  <2>5. CASE n = 4
    BY <1>1, <1>3, <1>4, <2>5
  <2>6. CASE n = 5
    BY <1>1, <1>3, <1>4, <2>6
  <2>7. CASE n = 6 \/ n = 7
    BY <1>1, <1>3, <1>4, <2>7
  <2>8. QED
    BY <2>1, <2>2, <2>3, <2>4, <2>5, <2>6, <2>7
<1>7. g = [n \in 0 .. 7 |-> Rest(g, n)]
  BY <1>5, <1>6, Zenon
<1>8. CountsRest(g)
  BY <1>2, <1>7 DEF CountsRest
<1>9. QED
  BY <1>8

\* Word by word from the last one: the instructions counted by halfwords.
LEMMA RestCounts ==
  ASSUME TypeInv, FifoInv, NEW f, CountsRest(f)
  PROVE  /\ f[0] = CountOf("aligned", Filled, fifo[Ring(0)], fifo[Ring(1)], fifo[Ring(2)])
         /\ f[1] = CountOf("upper", Filled, fifo[Ring(0)], fifo[Ring(1)], fifo[Ring(2)])
<1> DEFINE T == Total
           F == Filled
           e0 == fifo[Ring(0)]
           e1 == fifo[Ring(1)]
           e2 == fifo[Ring(2)]
<1>1. T = 2 * F /\ F \in 0 .. 3
  BY HalfWordsOfFifo, FilledFacts
<1>2. /\ LongAt(0) <=> e0.lo
      /\ LongAt(1) <=> e0.hi
      /\ LongAt(2) <=> e1.lo
      /\ LongAt(3) <=> e1.hi
      /\ LongAt(4) <=> e2.lo
      /\ LongAt(5) <=> e2.hi
  BY HalfWordsOfFifo
<1>3. \A n \in 0 .. 7 : f[n] = IF n >= T THEN 0
                               ELSE IF ~LongAt(n) THEN 1 + f[n + 1]
                               ELSE IF n + 1 < T THEN 1 + f[n + 2] ELSE 0
  <2>1. f = [n \in 0 .. 7 |-> Rest(f, n)]
    BY DEF CountsRest, AlbufDepth
  <2>2. QED
    BY <2>1 DEF Rest
<1>4. \A s, a, b, c : CountOf(s, 0, a, b, c) = 0
  BY DEF CountOf
<1>5. \A s \in States, n \in 0 .. 3 : \A a, b, c : CountOf(s, n, a, b, c) \in Nat
  BY CountFacts
<1>6. \A n \in 1 .. 3 : \A a, b, c, d :
        /\ CountOf("aligned", n, a, b, c)
             = 1 + (IF a.lo THEN CountOf("aligned", n - 1, b, c, d) ELSE CountOf("upper", n, a, b, c))
        /\ CountOf("upper", n, a, b, c)
             = IF ~a.hi THEN 1 + CountOf("aligned", n - 1, b, c, d)
               ELSE IF n >= 2 THEN 1 + CountOf("upper", n - 1, b, c, d) ELSE 0
  <2> SUFFICES ASSUME NEW n \in 1 .. 3, NEW a, NEW b, NEW c, NEW d
               PROVE  /\ CountOf("aligned", n, a, b, c)
                           = 1 + (IF a.lo THEN CountOf("aligned", n - 1, b, c, d)
                                  ELSE CountOf("upper", n, a, b, c))
                      /\ CountOf("upper", n, a, b, c)
                           = IF ~a.hi THEN 1 + CountOf("aligned", n - 1, b, c, d)
                             ELSE IF n >= 2 THEN 1 + CountOf("upper", n - 1, b, c, d) ELSE 0
    OBVIOUS
  <2>1. "aligned" \in States /\ "upper" \in States
    BY DEF States
  <2>2. /\ a.lo => CountOf("aligned", n, a, b, c) = 1 + CountOf("aligned", n - 1, b, c, d)
        /\ ~a.lo => CountOf("aligned", n, a, b, c) = 1 + CountOf("upper", n, a, b, c)
        /\ ~a.hi => CountOf("upper", n, a, b, c) = 1 + CountOf("aligned", n - 1, b, c, d)
        /\ a.hi /\ n >= 2 => CountOf("upper", n, a, b, c) = 1 + CountOf("upper", n - 1, b, c, d)
    BY <2>1, CountPop
  <2>3. a.hi /\ n = 1 => CountOf("upper", n, a, b, c) = 0
    BY DEF CountOf, EndsIn
  <2>4. QED
    BY <2>2, <2>3
<1> HIDE DEF T, F, e0, e1, e2
<1>7. \A n \in 0 .. 7 : n >= 2 * F => f[n] = 0
  BY <1>1, <1>3
<1>8. F = 3 => /\ f[4] = CountOf("aligned", 1, e2, e0, e0)
               /\ f[5] = CountOf("upper", 1, e2, e0, e0)
  <2> SUFFICES ASSUME F = 3
               PROVE  /\ f[4] = CountOf("aligned", 1, e2, e0, e0)
                      /\ f[5] = CountOf("upper", 1, e2, e0, e0)
    OBVIOUS
  <2>1. T = 6 /\ f[6] = 0
    BY <1>1, <1>7
  <2>2. /\ f[5] = (IF ~e2.hi THEN 1 + f[6] ELSE 0)
        /\ f[4] = (IF ~e2.lo THEN 1 + f[5] ELSE 1 + f[6])
    BY <1>2, <1>3, <2>1
  <2>3. /\ CountOf("aligned", 1, e2, e0, e0)
             = 1 + (IF e2.lo THEN CountOf("aligned", 0, e0, e0, e0)
                    ELSE CountOf("upper", 1, e2, e0, e0))
        /\ CountOf("upper", 1, e2, e0, e0)
             = IF ~e2.hi THEN 1 + CountOf("aligned", 0, e0, e0, e0) ELSE 0
    BY <1>6
  <2>4. CountOf("aligned", 0, e0, e0, e0) = 0
    BY <1>4
  <2>5. QED
    BY <2>1, <2>2, <2>3, <2>4
<1>9. F >= 2 => /\ f[2] = CountOf("aligned", F - 1, e1, e2, e0)
                /\ f[3] = CountOf("upper", F - 1, e1, e2, e0)
  <2>1. CASE F = 2
    <3>1. T = 4 /\ f[4] = 0 /\ F - 1 = 1
      BY <1>1, <1>7, <2>1
    <3>2. /\ f[3] = (IF ~e1.hi THEN 1 + f[4] ELSE 0)
          /\ f[2] = (IF ~e1.lo THEN 1 + f[3] ELSE 1 + f[4])
      BY <1>2, <1>3, <3>1
    <3>3. /\ CountOf("aligned", 1, e1, e2, e0)
               = 1 + (IF e1.lo THEN CountOf("aligned", 0, e2, e0, e0)
                      ELSE CountOf("upper", 1, e1, e2, e0))
          /\ CountOf("upper", 1, e1, e2, e0)
               = IF ~e1.hi THEN 1 + CountOf("aligned", 0, e2, e0, e0) ELSE 0
      BY <1>6
    <3>4. CountOf("aligned", 0, e2, e0, e0) = 0
      BY <1>4
    <3>5. QED
      BY <3>1, <3>2, <3>3, <3>4
  <2>2. CASE F = 3
    <3>1. T = 6 /\ F - 1 = 2
      BY <1>1, <2>2
    <3>2. /\ f[3] = (IF ~e1.hi THEN 1 + f[4] ELSE 1 + f[5])
          /\ f[2] = (IF ~e1.lo THEN 1 + f[3] ELSE 1 + f[4])
      BY <1>2, <1>3, <3>1
    <3>3. /\ CountOf("aligned", 2, e1, e2, e0)
               = 1 + (IF e1.lo THEN CountOf("aligned", 1, e2, e0, e0)
                      ELSE CountOf("upper", 2, e1, e2, e0))
          /\ CountOf("upper", 2, e1, e2, e0)
               = IF ~e1.hi THEN 1 + CountOf("aligned", 1, e2, e0, e0)
                 ELSE 1 + CountOf("upper", 1, e2, e0, e0)
      BY <1>6
    <3>4. QED
      BY <1>8, <2>2, <3>1, <3>2, <3>3
  <2>3. QED
    BY <1>1, <2>1, <2>2
<1>10. /\ f[0] = CountOf("aligned", F, e0, e1, e2)
       /\ f[1] = CountOf("upper", F, e0, e1, e2)
  <2>1. CASE F = 0
    BY <1>4, <1>7, <2>1
  <2>2. CASE F = 1
    <3>1. T = 2 /\ f[2] = 0
      BY <1>1, <1>7, <2>2
    <3>2. /\ f[1] = (IF ~e0.hi THEN 1 + f[2] ELSE 0)
          /\ f[0] = (IF ~e0.lo THEN 1 + f[1] ELSE 1 + f[2])
      BY <1>2, <1>3, <3>1
    <3>3. /\ CountOf("aligned", 1, e0, e1, e2)
               = 1 + (IF e0.lo THEN CountOf("aligned", 0, e1, e2, e0)
                      ELSE CountOf("upper", 1, e0, e1, e2))
          /\ CountOf("upper", 1, e0, e1, e2)
               = IF ~e0.hi THEN 1 + CountOf("aligned", 0, e1, e2, e0) ELSE 0
      BY <1>6
    <3>4. CountOf("aligned", 0, e1, e2, e0) = 0
      BY <1>4
    <3>5. QED
      BY <2>2, <3>1, <3>2, <3>3, <3>4
  <2>3. CASE F >= 2
    <3>1. T >= 4 /\ F \in 1 .. 3
      BY <1>1, <2>3
    <3>2. /\ f[1] = (IF ~e0.hi THEN 1 + f[2] ELSE 1 + f[3])
          /\ f[0] = (IF ~e0.lo THEN 1 + f[1] ELSE 1 + f[2])
      BY <1>1, <1>2, <1>3, <2>3
    <3>3. /\ CountOf("aligned", F, e0, e1, e2)
               = 1 + (IF e0.lo THEN CountOf("aligned", F - 1, e1, e2, e0)
                      ELSE CountOf("upper", F, e0, e1, e2))
          /\ CountOf("upper", F, e0, e1, e2)
               = IF ~e0.hi THEN 1 + CountOf("aligned", F - 1, e1, e2, e0)
                 ELSE 1 + CountOf("upper", F - 1, e1, e2, e0)
      <4>1. /\ CountOf("aligned", F, e0, e1, e2)
                 = 1 + (IF e0.lo THEN CountOf("aligned", F - 1, e1, e2, e0)
                        ELSE CountOf("upper", F, e0, e1, e2))
            /\ CountOf("upper", F, e0, e1, e2)
                 = IF ~e0.hi THEN 1 + CountOf("aligned", F - 1, e1, e2, e0)
                   ELSE IF F >= 2 THEN 1 + CountOf("upper", F - 1, e1, e2, e0) ELSE 0
        <5>1. F \in 1 .. 3
          BY <3>1
        <5>2. QED
          BY ONLY <1>6, <5>1
      <4>2. QED
        BY <4>1, <2>3
    <3>4. QED
      BY <1>9, <2>3, <3>2, <3>3
  <2>4. QED
    BY <1>1, <2>1, <2>2, <2>3
<1>11. QED
  BY <1>10 DEF F, e0, e1, e2

LEMMA BufferedCounts ==
  ASSUME TypeInv, FifoInv
  PROVE  Buffered = CountOf(ReadState, Filled, fifo[Ring(0)], fifo[Ring(1)], fifo[Ring(2)])
<1> DEFINE f == CHOOSE g : CountsRest(g)
<1>1. Buffered = f[addr_q % 2]
  BY Zenon DEF Buffered, CountsRest, Rest, Total, LongAt
<1>2. CountsRest(f)
  BY RestExists, Zenon
<1> HIDE DEF f
<1>3. /\ f[0] = CountOf("aligned", Filled, fifo[Ring(0)], fifo[Ring(1)], fifo[Ring(2)])
      /\ f[1] = CountOf("upper", Filled, fifo[Ring(0)], fifo[Ring(1)], fifo[Ring(2)])
  BY <1>2, RestCounts
<1>4. addr_q % 2 \in 0 .. 1
  BY HalfWord DEF TypeInv
<1>5. ReadState = IF addr_q % 2 = 1 THEN "upper" ELSE "aligned"
  BY DEF ReadState, Unaligned
<1>6. addr_q % 2 = 0 \/ addr_q % 2 = 1
  BY <1>4
<1>7. QED
  BY <1>1, <1>3, <1>5, <1>6

(* The count that decides on fetches is the number of complete instructions *)
(* in the FIFO, however the 16-bit and 32-bit ones lie in its words: the    *)
(* core never waits for a fetch that nobody makes.                          *)
THEOREM CountIsRight == Spec => []CountIsExact
<1>1. FetchInv => CountIsExact
  <2> SUFFICES ASSUME FetchInv, ~is_ptr_q /\ ~ptr_fetch_accepted_q
               PROVE  instr_cnt_q - pop_q = Buffered
    BY DEF CountIsExact
  <2>1. TypeInv /\ FifoInv /\ ModeInv /\ CountInv
    BY DEF FetchInv
  <2>2. Buffered = CountOf(ReadState, Filled, fifo[Ring(0)], fifo[Ring(1)], fifo[Ring(2)])
    BY <2>1, BufferedCounts
  <2>3. CASE ctrl_fsm_cs = "RESET"
    <3>1. Filled = 0 /\ sent = Stream!Nothing /\ instr_cnt_q = 0
      BY <2>1, <2>3 DEF ModeInv
    <3>2. Buffered = 0
      BY <2>2, <3>1 DEF CountOf
    <3>3. pop_q = 0
      BY <3>1 DEF pop_q
    <3>4. QED
      BY <3>1, <3>2, <3>3
  <2>4. CASE ctrl_fsm_cs # "RESET"
    BY <2>1, <2>2, <2>4 DEF CountInv, InCode
  <2>5. QED
    BY <2>3, <2>4
<1>2. QED
  BY <1>1, FetchInvariant, PTL

=============================================================================
