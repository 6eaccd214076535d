------------------------------- MODULE Fetch -------------------------------
(***************************************************************************)
(* Instruction fetch of the CV32E40X: the alignment buffer, the            *)
(* prefetcher, the memory protection gate of the IF stage and the OBI      *)
(* interface of the instruction bus.                                       *)
(*                                                                         *)
(* One step is one clock cycle; `in' are its inputs: where the controller  *)
(* sets the pc (which kills IF), whether it wants instructions, whether IF *)
(* takes one, and the bus.  Addresses count halfwords and wrap.  A         *)
(* register that is looked at only while a flag is set holds a value that  *)
(* says so when it is not: an empty FIFO slot is NoEntry, and obi_a_req_q  *)
(* is NoWord in state TRANSPARENT.  Privilege levels are left out.         *)
(***************************************************************************)
EXTENDS Naturals, Sequences, FiniteSets

CONSTANTS
  NumWords,   \* of memory
  Memories    \* the contents it may have

ASSUME FetchAssumption == NumWords \in Nat \ {0}

AlbufDepth == 3
Slots == 0 .. AlbufDepth - 1
NoWord == NumWords
NoEntry == [word |-> NoWord]
NoBranch == [to |-> 0, ptr |-> FALSE, taken |-> FALSE]

VARIABLES
  memory,
  ctrl_fsm_cs,
  addr_q, is_ptr_q, ptr_fetch_accepted_q,
  fifo, rptr, wptr,                          \* resp_q with valid_q
  aligned_q, complete_q, instr_cnt_q,
  n_flush_q, outstanding_cnt_q,
  sent,                                      \* taken in the last cycle: pop_q
  state_q, trans_addr_q, trans_ptr_access_q, \* the prefetcher
  mpu_state, mpu_word,                       \* the fetch the MPU answers
  obi_a_req_q, granted,                      \* fetches the bus has taken
  redirected                                 \* was the pc set in the last cycle?

albufVars == <<addr_q, is_ptr_q, ptr_fetch_accepted_q, fifo, rptr, wptr, aligned_q,
               complete_q, instr_cnt_q, n_flush_q, outstanding_cnt_q, sent>>
vars == <<memory, ctrl_fsm_cs, albufVars, state_q, trans_addr_q,
          trans_ptr_access_q, mpu_state, mpu_word, obi_a_req_q, granted, redirected>>

Init ==
  /\ memory \in Memories
  /\ ctrl_fsm_cs = "RESET"
  /\ addr_q = 0 /\ is_ptr_q = FALSE /\ ptr_fetch_accepted_q = FALSE
  /\ fifo = [k \in Slots |-> NoEntry] /\ rptr = 0 /\ wptr = 0
  /\ aligned_q = FALSE /\ complete_q = FALSE /\ instr_cnt_q = 0
  /\ n_flush_q = 0 /\ outstanding_cnt_q = 0
  /\ sent = [words |-> <<>>]
  /\ state_q = "IDLE" /\ trans_addr_q = 0 /\ trans_ptr_access_q = FALSE
  /\ mpu_state = "IDLE" /\ mpu_word = NoWord
  /\ obi_a_req_q = NoWord /\ granted = <<>>
  /\ redirected = FALSE

\* What lies at the pc, and what is promised of it.
Stream == INSTANCE FetchStream WITH
  pc <- addr_q,
  mode <- IF is_ptr_q THEN "pointer"
          ELSE IF ptr_fetch_accepted_q \/ ctrl_fsm_cs = "RESET" THEN "none"
          ELSE "code"

-----------------------------------------------------------------------------
(* Requests: from the alignment buffer through the prefetcher and the MPU   *)
(* to the bus.                                                              *)

pop_q == IF sent = Stream!Nothing THEN 0 ELSE 1

FetchValid(in) ==
  /\ in.req /\ outstanding_cnt_q < 2
  /\ ptr_fetch_accepted_q => in.branch.taken
  /\ \/ instr_cnt_q - pop_q = 0
     \/ instr_cnt_q - pop_q = 1 /\ outstanding_cnt_q = 0
     \/ in.branch.taken

\* The branch target, once more while it has not been accepted, or the next word.
TransAddr(in) ==
  IF in.branch.taken THEN Stream!WordOf(in.branch.to)
  ELSE IF state_q = "BRANCH_WAIT" THEN trans_addr_q
  ELSE (trans_addr_q + 1) % NumWords

PtrAccess(in) == IF in.branch.taken THEN in.branch.ptr
                 ELSE state_q = "BRANCH_WAIT" /\ trans_ptr_access_q

MpuHit(in) == FetchValid(in) /\ mpu_state = "IDLE" /\ Stream!Blocked(TransAddr(in))
BusTransValid(in) == FetchValid(in) /\ mpu_state = "IDLE" /\ ~MpuHit(in)

\* The bus interface accepts a fetch before the bus has granted it.
FetchAccepted(in) == \/ MpuHit(in)
                     \/ BusTransValid(in) /\ obi_a_req_q = NoWord

Req(in) == obi_a_req_q # NoWord \/ BusTransValid(in)
ReqWord(in) == IF obi_a_req_q # NoWord THEN obi_a_req_q ELSE TransAddr(in)

-----------------------------------------------------------------------------
(* Responses, and the instruction offered to IF.                            *)

RespValid(in) == in.rvalid \/ mpu_state = "RESP"

\* The data of a blocked word are whatever the bus shows.
Resp(in) ==
  IF mpu_state = "RESP" THEN [word |-> mpu_word, lo |-> in.rdata.lo, hi |-> in.rdata.hi]
  ELSE LET w == Head(granted)
       IN [word |-> w, lo |-> memory[w].lo, hi |-> memory[w].hi]

RespValidGated(in) == RespValid(in) /\ n_flush_q = 0

Succ(k) == IF k < AlbufDepth - 1 THEN k + 1 ELSE 0
rptr2 == Succ(rptr)
Valid(k) == fifo[k] # NoEntry

Entry(in, k) == IF Valid(k) THEN fifo[k] ELSE Resp(in)
EntryValid(in) == Valid(rptr) \/ RespValidGated(in)
Unaligned == addr_q % 2 = 1

\* Is the instruction at addr_q a 16-bit one; does it go on in the next word?
IsCompressed(in) == /\ ~is_ptr_q
                    /\ ~(IF Unaligned THEN Entry(in, rptr).hi ELSE Entry(in, rptr).lo)
Straddles(in) == Unaligned /\ ~is_ptr_q /\ ~IsCompressed(in)

InstrValid(in) ==
  /\ ~in.branch.taken
  /\ EntryValid(in)
  /\ Straddles(in) => Valid(rptr2) \/ (Valid(rptr) /\ RespValidGated(in))

\* The words it comes from, and their bus errors and MPU status.
Instr(in) ==
  LET first == Entry(in, rptr).word
      last == IF Straddles(in) THEN Entry(in, rptr2).word ELSE first
  IN [addr |-> addr_q, words |-> <<first, last>>,
      faults |-> memory[first].faults \cup memory[last].faults]

Popped(in) == InstrValid(in) /\ in.ready

-----------------------------------------------------------------------------
(* The registers.                                                           *)

\* Mutant: after an unaligned branch the lower half counts as an instruction.
IncomingBothHalves(resp) ==
  IF aligned_q /\ resp.lo THEN [n |-> 1, aligned |-> TRUE, complete |-> TRUE]
  ELSE [n |-> 1 + (IF resp.hi THEN 0 ELSE 1), aligned |-> ~resp.hi, complete |-> ~resp.hi]

\* The complete instructions that end in a response, and how the word leaves
\* the write side: aligned, or with half an instruction; unaligned and complete
\* is the state after a branch to the upper half of a word.
Incoming(resp) ==
  IF aligned_q /\ resp.lo THEN [n |-> 1, aligned |-> TRUE, complete |-> TRUE]
  ELSE [n |-> (IF aligned_q \/ ~complete_q THEN 1 ELSE 0) + (IF resp.hi THEN 0 ELSE 1),
        aligned |-> ~resp.hi, complete |-> ~resp.hi]

CountStep(in) ==
  IF in.branch.taken
  THEN /\ instr_cnt_q' = 0
       /\ aligned_q' = (in.branch.to % 2 = 0)
       /\ complete_q' = (in.branch.to % 2 = 1)
  ELSE IF RespValidGated(in)
  THEN LET coming == Incoming(Resp(in))
       IN /\ instr_cnt_q' = instr_cnt_q + coming.n - pop_q
          /\ aligned_q' = coming.aligned
          /\ complete_q' = coming.complete
  ELSE /\ instr_cnt_q' = instr_cnt_q - pop_q
       /\ UNCHANGED <<aligned_q, complete_q>>

\* Mutant: the response of the very cycle of the branch is counted as well.
FlushOnBranchAll(in) == outstanding_cnt_q

\* The responses still to come when the pc is set.
FlushOnBranch(in) == outstanding_cnt_q - (IF RespValid(in) THEN 1 ELSE 0)

NextOutstanding(in) == outstanding_cnt_q + (IF FetchAccepted(in) THEN 1 ELSE 0)
                                         - (IF RespValid(in) THEN 1 ELSE 0)

FlushStep(in) ==
  /\ outstanding_cnt_q' = NextOutstanding(in)
  /\ n_flush_q' = IF in.branch.taken THEN FlushOnBranch(in)
                  ELSE IF RespValid(in) /\ n_flush_q > 0 THEN n_flush_q - 1 ELSE n_flush_q

\* A response is written although it may be consumed in the same cycle.
FifoStep(in) ==
  IF in.branch.taken
  THEN /\ fifo' = [k \in Slots |-> NoEntry] /\ rptr' = 0 /\ wptr' = 0
  ELSE LET written == IF RespValidGated(in) THEN [fifo EXCEPT ![wptr] = Resp(in)] ELSE fifo
           done == Popped(in) /\ (Unaligned \/ ~IsCompressed(in))
       IN /\ fifo' = IF done THEN [written EXCEPT ![rptr] = NoEntry] ELSE written
          /\ wptr' = IF RespValidGated(in) THEN Succ(wptr) ELSE wptr
          /\ rptr' = IF done THEN rptr2 ELSE rptr

AddrStep(in) ==
  /\ addr_q' = IF in.branch.taken THEN in.branch.to
               ELSE IF Popped(in) THEN Stream!Plus(addr_q, IF IsCompressed(in) THEN 1 ELSE 2)
               ELSE addr_q
  /\ is_ptr_q' = IF in.branch.taken THEN in.branch.ptr ELSE is_ptr_q /\ ~Popped(in)
  /\ ptr_fetch_accepted_q' = \/ FetchAccepted(in) /\ PtrAccess(in)
                             \/ ptr_fetch_accepted_q /\ ~in.branch.taken
  /\ sent' = IF Popped(in) THEN Instr(in) ELSE Stream!Nothing

PrefetcherStep(in) ==
  /\ state_q' = IF FetchAccepted(in) THEN "IDLE"
                ELSE IF in.branch.taken THEN "BRANCH_WAIT" ELSE state_q
  /\ IF in.branch.taken \/ FetchAccepted(in)
     THEN trans_addr_q' = TransAddr(in) /\ trans_ptr_access_q' = PtrAccess(in)
     ELSE UNCHANGED <<trans_addr_q, trans_ptr_access_q>>

\* Mutant: the MPU waits until nothing is outstanding.
MpuAnswersLast(in) == NextOutstanding(in) = 0

MpuAnswers(in) == NextOutstanding(in) = 1

\* A blocked fetch is answered by the MPU once it is the only one outstanding.
MpuStep(in) ==
  /\ mpu_state' = IF MpuHit(in) \/ mpu_state = "WAIT"
                  THEN IF MpuAnswers(in) THEN "RESP" ELSE "WAIT"
                  ELSE "IDLE"
  /\ mpu_word' = IF MpuHit(in) THEN TransAddr(in)
                 ELSE IF mpu_state = "WAIT" THEN mpu_word ELSE NoWord

ObiStep(in) ==
  obi_a_req_q' = IF Req(in) /\ ~in.gnt THEN ReqWord(in) ELSE NoWord

BusStep(in) ==
  granted' = (IF in.rvalid THEN Tail(granted) ELSE granted)
               \o (IF Req(in) /\ in.gnt THEN <<ReqWord(in)>> ELSE <<>>)

\* Out of reset the controller sets the pc once, or to enter debug mode at
\* once twice, the first time without fetching.
ControllerStep(in) ==
  ctrl_fsm_cs' = IF ctrl_fsm_cs = "RESET" /\ ~in.branch.taken THEN "RESET"
                 ELSE IF ctrl_fsm_cs = "RESET" /\ ~in.req THEN "DEBUG_TAKEN"
                 ELSE "FUNCTIONAL"

-----------------------------------------------------------------------------

Branches == [to : Stream!HalfWords, ptr : BOOLEAN, taken : {TRUE}]

\* A pointer is aligned to a word; the controller fetches whenever it sets the
\* pc, except on the way from reset to debug mode.
Inputs ==
  {in \in [branch : {NoBranch} \cup Branches, req : BOOLEAN, ready : BOOLEAN,
           gnt : BOOLEAN, rvalid : IF granted = <<>> THEN {FALSE} ELSE BOOLEAN,
           rdata : IF mpu_state = "RESP" THEN [lo : BOOLEAN, hi : BOOLEAN]
                   ELSE {[lo |-> FALSE, hi |-> FALSE]}] :
     /\ in.branch.ptr => in.branch.to % 2 = 0
     /\ in.branch.taken => in.req \/ ctrl_fsm_cs = "RESET"
     /\ ctrl_fsm_cs = "RESET" /\ ~in.branch.taken => ~in.req
     /\ ctrl_fsm_cs = "DEBUG_TAKEN" => in.branch.taken
     /\ in.gnt => Req(in)}

Cycle(in) ==
  /\ CountStep(in) /\ FlushStep(in) /\ FifoStep(in) /\ AddrStep(in)
  /\ PrefetcherStep(in) /\ MpuStep(in) /\ ObiStep(in) /\ BusStep(in)
  /\ ControllerStep(in)
  /\ redirected' = in.branch.taken
  /\ UNCHANGED memory

Next == \E in \in Inputs : Cycle(in)

Spec == Init /\ [][Next]_vars

\* The controller wants instructions and IF takes them, and the bus grants and
\* answers.
ServingCycle ==
  \E in \in Inputs :
    /\ ~in.branch.taken /\ in.req /\ in.ready
    /\ Req(in) => in.gnt
    /\ granted # <<>> => in.rvalid
    /\ Cycle(in)

FairSpec == Spec /\ WF_vars(ServingCycle)

-----------------------------------------------------------------------------

(* IF is handed the instructions of the current path, each once, in order   *)
(* and made of its own words, whatever fetches of an abandoned path are     *)
(* still to be granted or answered, and with the faults of these words; and *)
(* nothing after a pointer.                                                 *)
ImplementsStream == Stream!StreamSpec

\* The complete instructions in the FIFO, halfword by halfword from addr_q.
Buffered ==
  LET total == 2 * Cardinality({k \in Slots : Valid(k)})
      Long(n) == LET e == fifo[(rptr + n \div 2) % AlbufDepth]
                 IN IF n % 2 = 0 THEN e.lo ELSE e.hi
      from[n \in 0 .. 2 * AlbufDepth + 1] ==
        IF n >= total THEN 0
        ELSE IF ~Long(n) THEN 1 + from[n + 1]
        ELSE IF n + 1 < total THEN 1 + from[n + 2] ELSE 0
  IN from[addr_q % 2]

(* The count that decides on fetches, kept by looking at each word once and *)
(* one cycle late, is the number of complete instructions in the FIFO: too  *)
(* high, and the core would wait for ever for a fetch nobody makes.         *)
CountIsExact ==
  ~is_ptr_q /\ ~ptr_fetch_accepted_q => instr_cnt_q - pop_q = Buffered

(* Unless the pc is set for ever, instructions keep coming: the buffer, the *)
(* MPU and the bus interface never wait for each other.  A pointer is the   *)
(* last thing that comes.                                                   *)
FetchGoesOn ==
  \/ []<>redirected
  \/ []<>(sent # Stream!Nothing)
  \/ <>[](ctrl_fsm_cs # "FUNCTIONAL" \/ (ptr_fetch_accepted_q /\ ~is_ptr_q))

=============================================================================
