------------------------------- MODULE LsuPath ------------------------------
(***************************************************************************)
(* The way of a load or store through the CV32E40X: the two halves of the  *)
(* load/store unit in EX and WB, the watchpoint and memory protection      *)
(* gates, the response filter, the write buffer and the data bus, with the *)
(* decisions of the controller that halt or kill it.                       *)
(*                                                                         *)
(* One step is one clock cycle.  `in' holds the inputs of the cycle: the   *)
(* grant and the response of the bus, and the interrupt, NMI or debug      *)
(* request that is taken in it.  Atomics, the eXtension interface's memory *)
(* channel and push/pop sequences are left out.                            *)
(***************************************************************************)
EXTENDS Naturals, Sequences

CONSTANTS
  Accesses,   \* the loads and stores of the program
  Depth       \* DEPTH, of the load/store unit and of the response filter

\* One attribute for each transfer of the access: a split access has two.
\* watch: a trigger matches it; fault: the PMA blocks it.
Attributes == {"plain", "buffered", "fault", "watch"}

ASSUME LsuAssumption ==
  /\ Depth = 2
  /\ \A a \in Accesses :
       /\ a.kind = "lsu" /\ a.we \in BOOLEAN
       /\ a.attrs \in Seq(Attributes) /\ Len(a.attrs) \in {1, 2}
       \* Loads are never classified as bufferable.
       /\ ~a.we => \A k \in DOMAIN a.attrs : a.attrs[k] # "buffered"

\* What else comes down the pipeline: a bubble or an instruction the data side
\* does not notice; one that traps in WB; a fence; a CSR write that may enable
\* interrupts.
Others == {[kind |-> k] : k \in {"none", "trap", "fence", "csr"}}
Bubble == [kind |-> "none"]

VARIABLES
  clk,           \* changes in every cycle
  in,
  id_ex_pipe, ex_wb_pipe,        \* the instruction in EX, the kind of that in WB
  split_q, cnt_q, trans_valid_q, lsu_we_q,
  rdata_q,                       \* the transfer whose data it holds
  lsu_valid_q, lsu_status_q,     \* sticky response in WB
  wpt_state, mpu_state,
  bus_cnt_q, core_cnt_q, outstanding_q,
  wbuf,                          \* the transfer in the write buffer
  ctrl_fsm_cs, debug_cause_q, fence_req_q,
  waiting, owed, granted,        \* what DataPort sees
  begun                          \* the access in EX has a transfer under way

lsuVars == <<id_ex_pipe, ex_wb_pipe, split_q, cnt_q, trans_valid_q, lsu_we_q,
             rdata_q, lsu_valid_q, lsu_status_q>>
pathVars == <<wpt_state, mpu_state, bus_cnt_q, core_cnt_q, outstanding_q, wbuf>>
ctrlVars == <<ctrl_fsm_cs, debug_cause_q, fence_req_q>>
vars == <<clk, in, lsuVars, pathVars, ctrlVars, waiting, owed, granted, begun>>

TransferOf(a, k) == [access |-> a, part |-> k, attr |-> a.attrs[k]]
Transfers == UNION {{TransferOf(a, k) : k \in DOMAIN a.attrs} : a \in Accesses}
NoTransfer == [attr |-> "none"]
Statuses == {"ok", "fault", "watch"}
GateStates == {"IDLE", "WAIT", "RESP"}

TypeOK ==
  /\ clk \in BOOLEAN
  /\ in \in [gnt : BOOLEAN, rvalid : BOOLEAN,
             async : {"none", "interrupt", "debug"}]
  /\ id_ex_pipe \in Accesses \cup Others
  /\ ex_wb_pipe \in {"none", "trap", "fence", "csr", "lsu"}
  /\ {split_q, trans_valid_q, lsu_we_q, lsu_valid_q, fence_req_q, begun}
       \subseteq BOOLEAN
  /\ rdata_q \in Transfers \cup {NoTransfer}
  /\ lsu_status_q \in Statuses
  /\ wpt_state \in GateStates /\ mpu_state \in GateStates
  /\ {cnt_q, bus_cnt_q, core_cnt_q} \subseteq 0 .. Depth
  /\ outstanding_q \in [0 .. Depth -> BOOLEAN]
  /\ wbuf \in Transfers \cup {NoTransfer}
  /\ ctrl_fsm_cs \in {"FUNCTIONAL", "DEBUG_TAKEN"}
  /\ debug_cause_q \in {"HALTREQ", "TRIGGER"}

Init ==
  /\ clk = FALSE
  /\ in = [gnt |-> FALSE, rvalid |-> FALSE, async |-> "none"]
  /\ id_ex_pipe = Bubble /\ ex_wb_pipe = "none"
  /\ split_q = FALSE /\ cnt_q = 0 /\ trans_valid_q = FALSE /\ lsu_we_q = FALSE
  /\ rdata_q = NoTransfer
  /\ lsu_valid_q = FALSE /\ lsu_status_q = "ok"
  /\ wpt_state = "IDLE" /\ mpu_state = "IDLE"
  /\ bus_cnt_q = 0 /\ core_cnt_q = 0
  /\ outstanding_q = [k \in 0 .. Depth |-> FALSE]
  /\ wbuf = NoTransfer
  /\ ctrl_fsm_cs = "FUNCTIONAL" /\ debug_cause_q = "HALTREQ"
  /\ fence_req_q = FALSE
  /\ waiting = <<>> /\ owed = <<>> /\ granted = <<>> /\ begun = FALSE

-----------------------------------------------------------------------------
(* Responses, from the bus back to WB.                                      *)

\* The filter answers for the oldest transfer of the core when both it and the
\* oldest on the bus are bufferable, and hides the answer of the bus to them.
FilterRespValid == IF outstanding_q[bus_cnt_q] THEN outstanding_q[core_cnt_q]
                                               ELSE in.rvalid

RespValid == FilterRespValid \/ mpu_state = "RESP" \/ wpt_state = "RESP"

RespStatus == IF wpt_state = "RESP" THEN "watch"
              ELSE IF mpu_state = "RESP" THEN "fault" ELSE "ok"

WbStatus == IF lsu_valid_q THEN lsu_status_q ELSE RespStatus

-----------------------------------------------------------------------------
(* The controller.                                                          *)

\* Mutants: an offered request, or the first half of a split access, does
\* not keep interrupts away.
InterruptibleUnlessOutstanding == cnt_q = 0
InterruptibleUnlessOffered == ~trans_valid_q

Interruptible == ~trans_valid_q /\ cnt_q = 0

\* What is taken in the cycle, in the order of the controller's priorities.
Decision ==
  CASE ctrl_fsm_cs = "DEBUG_TAKEN"                   -> "debug"
    [] ctrl_fsm_cs # "DEBUG_TAKEN" /\ in.async # "none" ->
         IF in.async = "interrupt" THEN "interrupt" ELSE "halt"
    [] OTHER ->
         CASE ex_wb_pipe # "none" /\ WbStatus = "watch" -> "halt"
           [] ex_wb_pipe # "none" /\ WbStatus = "fault" -> "exception"
           [] ex_wb_pipe = "trap"                       -> "exception"
           [] ex_wb_pipe = "fence" ->
                IF fence_req_q THEN "flush" ELSE "drain"
           [] OTHER                                     -> "go"

KillEx == Decision \in {"debug", "interrupt", "exception", "flush"}
KillWb == \/ Decision = "interrupt"
          \/ Decision = "debug" /\ debug_cause_q = "HALTREQ"
HaltEx == \/ Decision \in {"halt", "drain", "flush"}
          \/ ex_wb_pipe = "csr" /\ id_ex_pipe.kind = "lsu"
HaltWb == Decision \in {"halt", "drain"}

-----------------------------------------------------------------------------
(* Requests, from EX to the bus: each stage says what it passes on, and     *)
(* whether the stage above may consider the transfer accepted.              *)

ExValidInstr == id_ex_pipe.kind # "none" /\ ~KillEx /\ ~HaltEx
Valid0 == ExValidInstr /\ id_ex_pipe.kind = "lsu"
Split0 == Valid0 /\ ~split_q /\ Len(id_ex_pipe.attrs) = 2

Trans == TransferOf(id_ex_pipe, IF split_q THEN 2 ELSE 1)
TransValid == Valid0 /\ cnt_q < Depth

WptHit == TransValid /\ wpt_state = "IDLE" /\ Trans.attr = "watch"
MpuTransValid == TransValid /\ wpt_state = "IDLE" /\ ~WptHit
MpuHit == MpuTransValid /\ mpu_state = "IDLE" /\ Trans.attr = "fault"
FilterTransValid == MpuTransValid /\ mpu_state = "IDLE" /\ ~MpuHit

\* Mutant: the filter does not hold back what would overflow its counter.
BufferTransValidUnbounded == FilterTransValid

BufferTransValid == FilterTransValid /\ bus_cnt_q < Depth
Bufferable == BufferTransValid /\ Trans.attr = "buffered"
WbufFull == wbuf # NoTransfer

BusTransValid == WbufFull \/ BufferTransValid
BusTrans == IF WbufFull THEN wbuf ELSE Trans

BufferReady == IF WbufFull THEN Bufferable /\ in.gnt ELSE Bufferable \/ in.gnt

\* The filter counts and shifts what it passes on and the write buffer takes.
FilterAccepts == BufferTransValid /\ BufferReady
CountUp == WptHit \/ MpuHit \/ FilterAccepts

-----------------------------------------------------------------------------
(* Handshakes of EX and WB.                                                 *)

AddressDone == cnt_q < Depth => CountUp
WbReady == KillWb \/ ((cnt_q = 0 \/ RespValid) /\ ~HaltWb)
Done0   == (Valid0 => AddressDone) /\ WbReady
CtrlUpdate == Done0 /\ Valid0
ExValid == ExValidInstr /\ (id_ex_pipe.kind = "lsu" => AddressDone)
ExReady == KillEx \/ (Done0 /\ ~Split0 /\ ~HaltEx)

LsuValidWb == lsu_valid_q \/ (RespValid /\ ex_wb_pipe = "lsu")
WbValid == /\ ex_wb_pipe # "none" /\ ~KillWb /\ ~HaltWb
           /\ ex_wb_pipe = "lsu" => LsuValidWb

-----------------------------------------------------------------------------
(* The registers.                                                           *)

NextCnt == cnt_q + (IF CountUp THEN 1 ELSE 0) - (IF RespValid THEN 1 ELSE 0)
OneTxnPendN == NextCnt = 1

\* A gate takes a transfer that it blocks and answers it when no other is
\* pending.
\* Mutants: it waits until none is pending; it does not wait.
GateNextEmpty(state, hit) ==
  CASE state = "IDLE" -> IF ~hit THEN "IDLE" ELSE IF OneTxnPendN THEN "RESP" ELSE "WAIT"
    [] state = "WAIT" -> IF NextCnt = 0 THEN "RESP" ELSE "WAIT"
    [] state = "RESP" -> "IDLE"
GateNextAtOnce(state, hit) == IF state = "IDLE" /\ hit THEN "RESP" ELSE "IDLE"

GateNext(state, hit) ==
  CASE state = "IDLE" -> IF ~hit THEN "IDLE" ELSE IF OneTxnPendN THEN "RESP" ELSE "WAIT"
    [] state = "WAIT" -> IF OneTxnPendN THEN "RESP" ELSE "WAIT"
    [] state = "RESP" -> "IDLE"

LsuStep ==
  /\ split_q' = (Valid0 /\ IF CtrlUpdate THEN Split0 ELSE split_q)
  /\ cnt_q' = NextCnt
  /\ trans_valid_q' = (~CtrlUpdate /\ (TransValid \/ trans_valid_q))
  /\ lsu_we_q' = IF CtrlUpdate THEN id_ex_pipe.we ELSE lsu_we_q
  /\ rdata_q' = IF ~RespValid \/ lsu_we_q THEN rdata_q
                ELSE IF (split_q \/ Split0) /\ in.rvalid THEN Head(granted)
                ELSE NoTransfer

WbStep ==
  /\ ex_wb_pipe' = IF ~WbReady THEN ex_wb_pipe
                   ELSE IF ExValid THEN id_ex_pipe.kind ELSE "none"
  /\ LET done == WbValid \/ KillWb
     IN  /\ lsu_valid_q' = (~done /\ LsuValidWb)
         /\ lsu_status_q' = IF done \/ ~LsuValidWb THEN "ok" ELSE WbStatus

ExStep(next) ==
  id_ex_pipe' = IF ExReady THEN next ELSE id_ex_pipe

GateStep ==
  /\ wpt_state' = GateNext(wpt_state, WptHit)
  /\ mpu_state' = GateNext(mpu_state, MpuHit)

\* Mutant: the shift register takes what is offered, accepted or not.
FilterShiftsOffer == BufferTransValid

FilterShifts == FilterAccepts

FilterStep ==
  /\ bus_cnt_q' = bus_cnt_q + (IF FilterAccepts THEN 1 ELSE 0)
                            - (IF in.rvalid THEN 1 ELSE 0)
  /\ core_cnt_q' = core_cnt_q + (IF FilterAccepts THEN 1 ELSE 0)
                              - (IF FilterRespValid THEN 1 ELSE 0)
  /\ outstanding_q' =
       IF ~FilterShifts THEN outstanding_q
       ELSE [k \in 0 .. Depth |->
               CASE k = 0 -> FALSE [] k = 1 -> Trans.attr = "buffered"
                 [] OTHER -> outstanding_q[k - 1]]

BufferStep ==
  wbuf' = IF Bufferable /\ (WbufFull <=> in.gnt) THEN Trans
          ELSE IF in.gnt THEN NoTransfer ELSE wbuf

\* Mutant: the unit is idle once the core has its answers.
BusyTowardsCore == cnt_q > 0 \/ TransValid

Busy == bus_cnt_q # 0 \/ FilterTransValid \/ cnt_q > 0 \/ TransValid

ControllerStep ==
  /\ ctrl_fsm_cs' = IF Decision = "halt" THEN "DEBUG_TAKEN" ELSE "FUNCTIONAL"
  /\ debug_cause_q' = IF Decision # "halt" THEN debug_cause_q
                      ELSE IF in.async = "debug" THEN "HALTREQ" ELSE "TRIGGER"
  /\ fence_req_q' = (Decision = "drain" /\ (fence_req_q \/ ~Busy))

\* What an observer at either end of the path sees.
ObserverStep ==
  /\ waiting' = (IF RespValid /\ waiting # <<>> THEN Tail(waiting) ELSE waiting)
                  \o (IF CountUp THEN <<Trans>> ELSE <<>>)
  /\ LET new == IF FilterAccepts THEN owed \o <<Trans>> ELSE owed
     IN  owed' = IF BusTransValid /\ in.gnt /\ new # <<>> THEN Tail(new) ELSE new
  /\ granted' = (IF in.rvalid THEN Tail(granted) ELSE granted)
                  \o (IF BusTransValid /\ in.gnt THEN <<BusTrans>> ELSE <<>>)
  /\ begun' = (~ExReady /\ (begun \/ FilterAccepts))

-----------------------------------------------------------------------------

\* A grant is looked at when there is a request; a response needs a transfer
\* the bus has taken; an interrupt or a debug request is taken when allowed.
Possible ==
  /\ in.gnt => BusTransValid
  /\ in.rvalid => granted # <<>>
  /\ in.async # "none" => Interruptible /\ ctrl_fsm_cs = "FUNCTIONAL"

NextInput == /\ in' \in [gnt : BOOLEAN, rvalid : BOOLEAN,
                         async : {"none", "interrupt", "debug"}]
             /\ Possible'

Registers(next) ==
  /\ ExStep(next) /\ LsuStep /\ WbStep /\ GateStep /\ FilterStep /\ BufferStep
  /\ ControllerStep /\ ObserverStep

\* What ID may hand over.
Issued == IF ExReady /\ ~KillEx THEN Accesses \cup Others ELSE {Bubble}

Next == \E next \in Issued : Registers(next) /\ NextInput /\ clk' = ~clk

Spec == Init /\ [][Next]_vars

\* The bus neither refuses a request nor keeps an answer for ever.
Answers == (BusTransValid => in.gnt) /\ (granted # <<>> => in.rvalid)

\* The clock runs, and again and again it does so while the bus answers.
FairSpec == Spec /\ []<><<Answers>>_clk

-----------------------------------------------------------------------------

Port == INSTANCE DataPort

(* The path implements DataPort: every transfer is answered to the core     *)
(* once and in order, and every one that is not blocked reaches the bus     *)
(* once and in order, although stores are answered early, wait in the write *)
(* buffer and share counters with transfers the bus never sees.             *)
ImplementsDataPort == Port!PortSpec

(* An answer has the status of the transfer it is for, whatever the bus     *)
(* still owes for earlier stores, and a split load is put together from its *)
(* own two transfers.                                                       *)
AnswerIsOwn ==
  RespValid =>
    LET t == Head(waiting)
    IN  /\ RespStatus = IF Port!Passes(t) THEN "ok" ELSE t.attr
        /\ t.part = 2 /\ Port!Passes(t) /\ ~t.access.we =>
             rdata_q = TransferOf(t.access, 1)

(* An instruction is killed before any transfer of it is under way, or not  *)
(* at all: the handler returns to it, and would see half an access or cause *)
(* it a second time.  A split access is not torn apart.                     *)
KillsNothingBegun ==
  /\ KillEx => ~begun
  /\ KillWb => ex_wb_pipe # "lsu"

(* A fence retires when the write buffer has drained and the bus has        *)
(* answered everything before it.                                           *)
FenceDrains ==
  Decision = "flush" => waiting = <<>> /\ owed = <<>> /\ granted = <<>>

(* A request the bus has not granted is neither withdrawn nor changed, by   *)
(* interrupts, exceptions and debug entry either (OBI).                     *)
RequestHeld ==
  [][BusTransValid /\ ~in.gnt => (BusTransValid)' /\ BusTrans' = BusTrans]_vars

(* A load or store in WB is answered and a fence there completes, in        *)
(* particular after a blocked transfer and behind buffered stores.          *)
AccessEnds ==
  /\ (ex_wb_pipe = "lsu") ~> (ex_wb_pipe = "lsu" => LsuValidWb)
  /\ (ex_wb_pipe = "fence") ~> (ex_wb_pipe # "fence")

=============================================================================
