------------------------------- MODULE RopeXif -------------------------------
(***************************************************************************)
(* The RoPE coprocessor behind CORE-V-XIF (rope_xif_coproc.sv): issue      *)
(* decision, operand capture, fixed-latency datapath with its tag pipe,    *)
(* per-id killed/committed levels, credit counter and result FIFO.         *)
(*                                                                         *)
(* One step is one clock cycle.  Its inputs are the issue request `req',   *)
(* the commit `com' and result_ready `rdy' that the core drives in it; the *)
(* combinational outputs are the operators Accept, IssueReady, ResultValid *)
(* and Result.  Every always_ff block of the source is one operator, and   *)
(* CoprocStep is their conjunction.                                        *)
(***************************************************************************)
EXTENDS RopePrefetch, Integers, FiniteSets

CONSTANTS
  Ids,            \* transaction ids: 2^X_ID_WIDTH of them
  NumPipeRegs,    \* pipeline registers in each multiplier and each adder
  FifoDepth,      \* entries of the result FIFO
  Words,          \* the values of rs1: a pair of BF16 numbers
  NoEntry         \* an invalid pipeline stage

Operands == [x : Words, m : Positions, i : Pairs]

\* What the datapath computes: which x was rotated by which m * theta.
Data    == [x : Words, m : Positions, theta : Pairs \cup {NoTheta}]
Results == [id : Ids, data : Data]

Rotation(op) == [x |-> op.x, m |-> op.m, theta |-> op.i]

\* Stages of rope_datapath: the LUT register, the multipliers, the adders.
\* Mutant: the multipliers take a cycle of their own.
LatencyPlusOne == 2 + 2 * NumPipeRegs

Latency == 1 + 2 * NumPipeRegs
Stages  == 1 .. Latency
Slots   == 0 .. FifoDepth - 1

ASSUME CoprocAssumption ==
  /\ Ids # {}
  /\ NumPipeRegs \in Nat
  /\ FifoDepth \in Nat \ {0}
  /\ NoEntry \notin Ids \cup Data \cup Results \cup [id : Ids, op : Operands]

VARIABLES
  capture,        \* issued_q, id_q, x_q, y_q, pos_q, pair_q
  datapath,       \* the stages of rope_datapath
  tag_pipe,       \* tag_pipe_q, as far as the stage that is selected
  killed, committed,          \* the flags of each id, as sets of ids
  fifo, wr_ptr, rd_ptr,       \* the result FIFO; pointers have a wrap bit
  credit                      \* credit_q

coprocVars == <<capture, datapath, tag_pipe, killed, committed,
                fifo, wr_ptr, rd_ptr, credit>>

Pointers == 0 .. 2 * FifoDepth - 1

CoprocTypeOK ==
  /\ PrefetchTypeOK
  /\ capture \in [id : Ids, op : Operands] \cup {NoEntry}
  /\ datapath \in [Stages -> Data \cup {NoEntry}]
  /\ tag_pipe \in [Stages -> Ids \cup {NoEntry}]
  /\ killed \subseteq Ids
  /\ committed \subseteq Ids
  /\ fifo \in [Slots -> Results \cup {NoEntry}]
  /\ wr_ptr \in Pointers
  /\ rd_ptr \in Pointers
  /\ credit \in Pointers

CoprocInit ==
  /\ PrefetchInit
  /\ capture = NoEntry
  /\ datapath = [k \in Stages |-> NoEntry]
  /\ tag_pipe = [k \in Stages |-> NoEntry]
  /\ killed = {}
  /\ committed = {}
  /\ fifo = [s \in Slots |-> NoEntry]
  /\ wr_ptr = 0
  /\ rd_ptr = 0
  /\ credit = 0

-----------------------------------------------------------------------------
(* The channels.  A request is valid, is a ROPE.ROT or not, has both source *)
(* operands valid or not; a commit says for one id whether it is a kill.    *)

Requests == [valid : BOOLEAN, rot : BOOLEAN, rs_valid : BOOLEAN,
             id : Ids, op : Operands]
Commits  == [valid : BOOLEAN, kill : BOOLEAN, id : Ids]

RotIssued(req) == req.valid /\ req.rot

\* Mutant: off by one at the last credit.
HaveCreditPlusOne == credit <= FifoDepth

HaveCredit == credit < FifoDepth

CanTake(req) ==
  req.rs_valid /\ HaveCredit /\ ~NeedResync(RotIssued(req), req.op)

IssueReady(req) == req.rot => CanTake(req)

Accept(req) == RotIssued(req) /\ CanTake(req)

KillSeen(com)       == com.valid /\ com.kill
KillOf(com, id)     == KillSeen(com) /\ com.id = id

-----------------------------------------------------------------------------
(* Operand capture and the input of the datapath.                           *)

Captured(req) == [id |-> req.id, op |-> req.op]

CaptureStep(req) ==
  IF UsePrefetch
  THEN UNCHANGED capture      \* read by nothing in that build
  ELSE capture' = IF Accept(req) THEN Captured(req) ELSE NoEntry

\* With the prefetch the datapath takes the operand off the bus in the cycle
\* of the issue and the phase from m_q and theta_q; without, it takes both
\* from the capture registers one cycle later.
DpValid(req) == IF UsePrefetch THEN Accept(req) ELSE capture # NoEntry

DpId(req) == IF UsePrefetch THEN req.id ELSE capture.id

DpData(req) ==
  IF UsePrefetch
  THEN [x |-> req.op.x, m |-> m_q, theta |-> ThetaSel]
  ELSE Rotation(capture.op)

\* A register pipeline that takes `in' and moves every stage on by one.
Shift(pipe, in) ==
  [k \in Stages |-> IF k = 1 THEN in ELSE pipe[k - 1]]

DatapathStep(req) ==
  datapath' = Shift(datapath, IF DpValid(req) THEN DpData(req) ELSE NoEntry)

\* Mutant: the tag is pushed at the acceptance in either build.
TagStepAtAccept(req) ==
  tag_pipe' = Shift(tag_pipe, IF Accept(req) THEN req.id ELSE NoEntry)

TagStep(req) ==
  tag_pipe' = Shift(tag_pipe, IF DpValid(req) THEN DpId(req) ELSE NoEntry)

ResData == datapath[Latency]
CurTag  == tag_pipe[Latency]

-----------------------------------------------------------------------------
(* The per-id levels.  An acceptance clears both flags of its id; it is the *)
(* last assignment of the block, so it wins over a commit for the same id.  *)

\* Mutant: a reused id keeps the committed flag of its previous user.
FlagsStepStaleCommit(req, com) ==
  LET set(flags, seen) == IF seen THEN flags \cup {com.id} ELSE flags
      clear == IF Accept(req) THEN {req.id} ELSE {}
  IN  /\ killed'    = set(killed, com.valid /\ com.kill) \ clear
      /\ committed' = set(committed, com.valid /\ ~com.kill)

\* Mutant: a reused id keeps the killed flag of its previous user.
FlagsStepStaleKill(req, com) ==
  LET set(flags, seen) == IF seen THEN flags \cup {com.id} ELSE flags
      clear == IF Accept(req) THEN {req.id} ELSE {}
  IN  /\ killed'    = set(killed, com.valid /\ com.kill)
      /\ committed' = set(committed, com.valid /\ ~com.kill) \ clear

FlagsStep(req, com) ==
  LET set(flags, seen) == IF seen THEN flags \cup {com.id} ELSE flags
      clear == IF Accept(req) THEN {req.id} ELSE {}
  IN  /\ killed'    = set(killed, com.valid /\ com.kill) \ clear
      /\ committed' = set(committed, com.valid /\ ~com.kill) \ clear

-----------------------------------------------------------------------------
(* The result FIFO and the result channel.                                  *)

Slot(ptr) == IF ptr < FifoDepth THEN ptr ELSE ptr - FifoDepth

\* Mutant: a pointer that never wraps.
NextPtrUnbounded(ptr) == ptr + 1

NextPtr(ptr) == IF ptr = 2 * FifoDepth - 1 THEN 0 ELSE ptr + 1

Occupancy == IF wr_ptr >= rd_ptr THEN wr_ptr - rd_ptr
                                 ELSE wr_ptr - rd_ptr + 2 * FifoDepth

FifoEmpty == wr_ptr = rd_ptr
FifoHead  == fifo[Slot(rd_ptr)]

ResultPresent == ResData # NoEntry /\ CurTag # NoEntry

ResultIsKilled(com) == CurTag \in killed \/ KillOf(com, CurTag)

FifoPush(com)     == ResultPresent /\ ~ResultIsKilled(com)
RetireKilled(com) == ResultPresent /\ ResultIsKilled(com)

HeadKilled    == FifoHead.id \in killed
HeadCommitted == FifoHead.id \in committed

\* Mutant: a result is offered as soon as it is there.
ResultValidUncommitted == ~FifoEmpty /\ ~HeadKilled

ResultValid == ~FifoEmpty /\ HeadCommitted /\ ~HeadKilled

\* Mutant: a head killed after its push is never drained.
FifoDrainNever == FALSE

FifoDrain == ~FifoEmpty /\ HeadKilled

ResultTaken(rdy) == ResultValid /\ rdy
FifoPop(rdy)     == ResultTaken(rdy) \/ FifoDrain

\* NoEntry stands for whatever a slot that was popped still holds.
FifoStep(com, rdy) ==
  /\ fifo' = [s \in Slots |->
                IF FifoPush(com) /\ s = Slot(wr_ptr)
                THEN [id |-> CurTag, data |-> ResData]
                ELSE IF FifoPop(rdy) /\ s = Slot(rd_ptr) THEN NoEntry
                                                        ELSE fifo[s]]
  /\ wr_ptr' = IF FifoPush(com) THEN NextPtr(wr_ptr) ELSE wr_ptr
  /\ rd_ptr' = IF FifoPop(rdy) THEN NextPtr(rd_ptr) ELSE rd_ptr

-----------------------------------------------------------------------------
(* Credits.  The two ways of leaving are summed: a pop at the head and a    *)
(* kill caught before the push may happen in one cycle.  credit_q has the   *)
(* width of a pointer and wraps like one.                                   *)

One(b) == IF b THEN 1 ELSE 0

WrapCredit(n) == IF n < 0 THEN n + 2 * FifoDepth
                 ELSE IF n >= 2 * FifoDepth THEN n - 2 * FifoDepth ELSE n

\* Mutant: the two ways of leaving are ORed, so a coincidence loses a credit.
CreditStepOred(req, com, rdy) ==
  credit' = WrapCredit(credit + One(Accept(req))
                              - One(FifoPop(rdy) \/ RetireKilled(com)))

\* Mutant: an instruction killed before its push keeps its credit.
CreditStepLeak(req, com, rdy) ==
  credit' = WrapCredit(credit + One(Accept(req)) - One(FifoPop(rdy)))

CreditStep(req, com, rdy) ==
  credit' = WrapCredit(credit + One(Accept(req)) - One(FifoPop(rdy))
                              - One(RetireKilled(com)))

-----------------------------------------------------------------------------

CoprocStep(req, com, rdy) ==
  /\ CaptureStep(req)
  /\ DatapathStep(req)
  /\ TagStep(req)
  /\ FlagsStep(req, com)
  /\ FifoStep(com, rdy)
  /\ CreditStep(req, com, rdy)
  /\ IF UsePrefetch
     THEN PrefetchStep(RotIssued(req), req.op, Accept(req), KillSeen(com))
     ELSE UNCHANGED prefetchVars   \* read by nothing in that build

-----------------------------------------------------------------------------
(* What the coprocessor holds, place by place, in the order of the results: *)
(* the FIFO from its head, the last stage of the datapath to the first, and *)
(* the capture registers.                                                   *)

CapturePlace == FifoDepth + Latency

StagePlace(k) == CapturePlace - k

\* The pointer of the n-th entry behind the head.
PtrAfter(n) == IF rd_ptr + n < 2 * FifoDepth THEN rd_ptr + n
                                             ELSE rd_ptr + n - 2 * FifoDepth

InFifo(n)  == fifo[Slot(PtrAfter(n))]
InStage(k) == [id |-> tag_pipe[k], data |-> datapath[k]]
InCapture  == [id |-> capture.id, data |-> Rotation(capture.op)]

\* What the place p holds, if it holds something.
Content(p) == IF p < FifoDepth THEN InFifo(p)
              ELSE IF p < CapturePlace THEN InStage(StagePlace(p))
              ELSE InCapture

\* The places that hold something.
Held ==
  {p \in 0 .. FifoDepth - 1 : p < Occupancy}
    \cup {StagePlace(k) : k \in {l \in Stages : tag_pipe[l] # NoEntry}}
    \cup (IF capture = NoEntry THEN {} ELSE {CapturePlace})

\* Those that are not killed, oldest first.
Live == {p \in Held : Content(p).id \notin killed}

Unflagged(e) ==
  [id |-> e.id, data |-> e.data, committed |-> e.id \in committed]

Increasing(order) ==
  \A j, k \in DOMAIN order : j < k => order[j] < order[k]

Contents ==
  LET live  == Live
      order == CHOOSE f \in [1 .. Cardinality(live) -> live] : Increasing(f)
  IN  [n \in DOMAIN order |-> Unflagged(Content(order[n]))]

-----------------------------------------------------------------------------
(* Properties of the coprocessor alone.                                     *)

\* How many accepted instructions the coprocessor still holds.
NumStaged == Cardinality({k \in Stages : tag_pipe[k] # NoEntry})
NumCaptured == IF capture = NoEntry THEN 0 ELSE 1

(* The credit counter counts exactly the instructions that are in the       *)
(* capture registers, in the datapath or in the FIFO: a kill and a          *)
(* writeback in one cycle give two credits back, and none is lost.          *)
CreditExact == credit = NumCaptured + NumStaged + Occupancy

(* The datapath cannot be stalled, so whatever leaves it finds room in the  *)
(* FIFO (the source asserts "result FIFO overflow" never happens).          *)
NoOverflow == ResultPresent => Occupancy < FifoDepth

(* Every result leaves the datapath together with the tag it entered with   *)
(* ("result with no matching tag").                                         *)
TagsAligned ==
  \A k \in Stages : datapath[k] = NoEntry <=> tag_pipe[k] = NoEntry

(* Once the prefetch is trusted, theta_q is the ROM word of i_q.            *)
ThetaCurrent == UsePrefetch /\ ~desync_q /\ ~recover_q => theta_q = i_q

=============================================================================
