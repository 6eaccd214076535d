---------------------------- MODULE CorePipeline ----------------------------
(***************************************************************************)
(* The CV32E40X pipeline as the coprocessor sees it: the IF/ID, ID/EX and  *)
(* EX/WB registers, the issue, commit and result side of CORE-V-XIF, the   *)
(* hazard stalls, the EX and WB halves of the load/store unit, and the     *)
(* decisions of the controller that halt or kill stages.                   *)
(*                                                                         *)
(* One step is one clock cycle.  `in' holds what the core does not decide  *)
(* itself in that cycle: the instruction the fetch side delivers, a new    *)
(* interrupt, the grant and the response of the data bus, the end of a     *)
(* division, and result_valid; `iss' is the answer to the issue request.   *)
(* Debug, NMIs, sleep, CLIC pointers, jumps and instruction sequences are  *)
(* left out: their kills have the form of those that are here.             *)
(***************************************************************************)
EXTENDS Naturals

CONSTANTS
  NumIds,         \* 2^X_ID_WIDTH
  Kinds,          \* which kinds of instruction the program has
  Values,         \* what a source register may hold
  StaleValue,     \* what it holds before the instruction it waits for is done
  NoFetch         \* IF has nothing to deliver

\* branch: a branch that is taken; csr: a CSR instruction the core implements;
\* illegal: one that neither side knows; div: any that stays in EX for cycles.
AllKinds == {"alu", "branch", "csr", "div", "fence", "illegal", "load", "rot"}

ASSUME CoreAssumption ==
  /\ NumIds \in Nat \ {0}
  /\ Kinds \subseteq AllKinds /\ Kinds # {}
  /\ StaleValue \notin Values /\ Values # {}

XifIds == 0 .. NumIds - 1

\* rs1 is what the program means a rotation to read, dep that the instruction
\* just before writes it.  What other instructions read does not matter here.
AnyKind  == CHOOSE k \in Kinds : TRUE
AnyValue == CHOOSE v \in Values : TRUE
Nop      == [kind |-> AnyKind, rs1 |-> AnyValue, dep |-> FALSE]

Instructions ==
  {i \in [kind : Kinds, rs1 : Values, dep : BOOLEAN] :
     i.kind # "rot" => i.rs1 = AnyValue}

Inputs == [fetch : Instructions \cup {NoFetch}, irq : BOOLEAN,
           grant : BOOLEAN, resp : BOOLEAN, div : BOOLEAN, result : BOOLEAN]
Answers == [ready : BOOLEAN, accept : BOOLEAN]

VARIABLES
  if_id_pipe, id_ex_pipe, ex_wb_pipe,
  xif_answer,       \* xif_accepted_q, xif_rejected_q of the ID stage
  commit_valid_q, commit_kill_q,
  cnt_q,            \* data transactions outstanding
  trans_valid_q,    \* a request was offered to the bus and not accepted
  lsu_valid_q,      \* sticky response in WB
  branch_taken_q, interrupt_blanking_q, fence_req_q,
  irq               \* the interrupt controller requests an interrupt

coreVars == <<if_id_pipe, id_ex_pipe, ex_wb_pipe, xif_answer, commit_valid_q,
              commit_kill_q, cnt_q, trans_valid_q, lsu_valid_q,
              branch_taken_q, interrupt_blanking_q, fence_req_q, irq>>

\* The instruction that each stage holds.  xif_en: it was offered to the
\* coprocessor; busy: a division that is not finished; sent (not in the code):
\* the bus accepted a transaction of it.
EmptyId == [valid |-> FALSE, insn |-> Nop, xif_id |-> 0]
EmptyEx == [valid |-> FALSE, insn |-> Nop, xif_id |-> 0, xif_en |-> FALSE,
            accepted |-> FALSE, illegal |-> FALSE, rf_we |-> FALSE,
            busy |-> FALSE, sent |-> FALSE]
EmptyWb == [valid |-> FALSE, insn |-> Nop, xif_id |-> 0, xif_en |-> FALSE,
            illegal |-> FALSE, rf_we |-> FALSE]

CoreInit ==
  /\ if_id_pipe = EmptyId
  /\ id_ex_pipe = EmptyEx
  /\ ex_wb_pipe = EmptyWb
  /\ xif_answer = "none"
  /\ cnt_q = 0
  /\ commit_valid_q = FALSE /\ commit_kill_q = FALSE
  /\ trans_valid_q = FALSE /\ lsu_valid_q = FALSE
  /\ branch_taken_q = FALSE /\ interrupt_blanking_q = FALSE
  /\ fence_req_q = FALSE /\ irq = FALSE

-----------------------------------------------------------------------------
(* The controller: which stages it halts or kills.                          *)

InWb(kind) == ex_wb_pipe.valid /\ ex_wb_pipe.insn.kind = kind
InEx(kind) == id_ex_pipe.valid /\ id_ex_pipe.insn.kind = kind

XifInWb == ex_wb_pipe.valid /\ ex_wb_pipe.xif_en

LsuInterruptible == ~trans_valid_q /\ cnt_q = 0

\* Mutant: an interrupt does not wait for the rotation in WB.
InterruptAllowedInFlight == LsuInterruptible /\ ~interrupt_blanking_q

InterruptAllowed == LsuInterruptible /\ ~XifInWb /\ ~interrupt_blanking_q

\* FUNCTIONAL state, in the order of its priorities.
Decision ==
  IF irq /\ InterruptAllowed                     THEN "interrupt"
  ELSE IF ex_wb_pipe.valid /\ ex_wb_pipe.illegal THEN "exception"
  ELSE IF InWb("fence")                          THEN IF fence_req_q THEN "flush" ELSE "halt"
  ELSE IF InEx("branch") /\ ~branch_taken_q      THEN "branch"
  ELSE "go"

KillIf == Decision \in {"interrupt", "exception", "flush", "branch"}
KillId == KillIf
KillEx == Decision \in {"interrupt", "exception", "flush"}
KillWb == Decision = "interrupt"
Halt   == Decision \in {"halt", "flush"}      \* halt_if, halt_id and halt_ex
HaltWb == Decision = "halt"

-----------------------------------------------------------------------------
(* WB stage and the second half of the load/store unit.                     *)

WbWaiting(in) == XifInWb /\ ~in.result

LsuReady1(in) == cnt_q = 0 \/ in.resp

WbReady(in) == KillWb \/ (LsuReady1(in) /\ ~WbWaiting(in) /\ ~HaltWb)

WbValid(in) ==
  /\ ex_wb_pipe.valid /\ ~KillWb /\ ~HaltWb
  /\ IF ex_wb_pipe.insn.kind = "load" THEN lsu_valid_q \/ in.resp
                                      ELSE ~WbWaiting(in)

ResultReady == XifInWb

-----------------------------------------------------------------------------
(* EX stage and the first half of the load/store unit.                      *)

ExValidInstr == id_ex_pipe.valid /\ ~KillEx /\ ~Halt

LoadInEx  == ExValidInstr /\ id_ex_pipe.insn.kind = "load"
\* Mutant: the request is not held back when two are outstanding.
TransValidUnbounded == LoadInEx

TransValid == LoadInEx /\ cnt_q < 2
CountUp(in) == TransValid /\ in.grant
AddressDone(in) == cnt_q < 2 => CountUp(in)
LsuDone0(in)  == (LoadInEx => AddressDone(in)) /\ WbReady(in)

DivBusy(in) == InEx("div") /\ id_ex_pipe.busy /\ ~in.div

ExReady(in) ==
  KillEx \/ (WbReady(in) /\ ~DivBusy(in) /\ LsuDone0(in) /\ ~Halt)

ExValid(in) ==
  ExValidInstr /\ ~DivBusy(in) /\ (LoadInEx => AddressDone(in))

-----------------------------------------------------------------------------
(* Commit, from the EX stage.                                               *)

KillRejected == id_ex_pipe.valid /\ id_ex_pipe.xif_en /\ ~id_ex_pipe.accepted

CommitValid ==
  /\ ~Halt \/ KillEx
  /\ id_ex_pipe.valid /\ id_ex_pipe.xif_en
  /\ ~commit_valid_q

\* Mutant: an instruction killed in EX is committed.
CommitKillRejected == KillRejected

CommitKill == KillEx \/ KillRejected

Commit == [valid |-> CommitValid, kill |-> CommitKill,
           id |-> id_ex_pipe.xif_id]

-----------------------------------------------------------------------------
(* ID stage: hazards and the issue request.                                 *)

\* The instruction just before the one in ID is in EX, or else in WB.
\* Mutant: only offloaded instructions stall, loads in EX do not.
LoadStallXifOnly(in) ==
  /\ if_id_pipe.valid /\ if_id_pipe.insn.dep
  /\ IF id_ex_pipe.valid
     THEN id_ex_pipe.xif_en /\ id_ex_pipe.rf_we
     ELSE ex_wb_pipe.valid /\ ex_wb_pipe.rf_we /\ ~WbReady(in)

LoadStall(in) ==
  /\ if_id_pipe.valid /\ if_id_pipe.insn.dep
  /\ IF id_ex_pipe.valid
     THEN /\ id_ex_pipe.insn.kind = "load" \/ id_ex_pipe.xif_en
          /\ id_ex_pipe.rf_we
     ELSE ex_wb_pipe.valid /\ ex_wb_pipe.rf_we /\ ~WbReady(in)

HaltId(in) == LoadStall(in) \/ irq \/ Halt

IdValidInstr(in) == if_id_pipe.valid /\ ~KillId /\ ~HaltId(in)

\* The instruction just before has no result to forward yet.  The forwarding
\* network takes the output of EX, or else of WB, finished or not.
Unfinished(in) ==
  IF id_ex_pipe.valid
  THEN DivBusy(in) \/ id_ex_pipe.insn.kind = "load" \/ id_ex_pipe.accepted
  ELSE ex_wb_pipe.valid /\ ~WbReady(in)

Rs1(in) == IF if_id_pipe.insn.dep /\ Unfinished(in)
           THEN StaleValue ELSE if_id_pipe.insn.rs1

\* What the decoder finds illegal, and CSR instructions, are offloaded.
Offloaded(kind) == kind \in {"rot", "illegal", "csr"}

IssueValid(in) ==
  /\ IdValidInstr(in)
  /\ Offloaded(if_id_pipe.insn.kind)
  /\ xif_answer = "none"

Accepts(in, iss) == (IssueValid(in) /\ iss.ready /\ iss.accept)
                      \/ xif_answer = "accepted"
Rejects(in, iss) == (IssueValid(in) /\ iss.ready /\ ~iss.accept)
                      \/ xif_answer = "rejected"

IdWaiting(in, iss) == IssueValid(in) /\ ~iss.ready

IdValid(in, iss) == IdValidInstr(in) /\ ~IdWaiting(in, iss)
IdReady(in, iss) ==
  KillId \/ (ExReady(in) /\ ~HaltId(in) /\ ~IdWaiting(in, iss))

Offloading(in) == IssueValid(in) \/ xif_answer # "none"

\* issue_resp.writeback counts only in the cycle of the request itself.
\* Mutant: it counts only afterwards.
XifWeLate(in, iss) == xif_answer = "accepted" /\ iss.accept

XifWe(in, iss) == IssueValid(in) /\ iss.accept

\* What the decoder knows to write a register.
RfWe(kind) == kind \in {"alu", "csr", "div", "load"}

-----------------------------------------------------------------------------
(* The pipeline registers.                                                  *)

IfValid(in) == in.fetch # NoFetch /\ ~KillIf /\ ~Halt

NextXifId(in) == IF Offloading(in) THEN (if_id_pipe.xif_id + 1) % NumIds
                                   ELSE if_id_pipe.xif_id

IdStageStep(in, iss) ==
  /\ if_id_pipe' =
       IF ~IdReady(in, iss) THEN if_id_pipe
       ELSE IF IfValid(in)
            THEN [valid |-> TRUE, insn |-> in.fetch, xif_id |-> NextXifId(in)]
            ELSE [if_id_pipe EXCEPT !.valid = FALSE, !.insn = Nop]
  /\ xif_answer' =
       IF (IdValid(in, iss) /\ ExReady(in)) \/ KillId THEN "none"
       ELSE IF Accepts(in, iss) THEN "accepted"
       ELSE IF Rejects(in, iss) THEN "rejected" ELSE "none"

ToEx(in, iss) ==
  LET kind == if_id_pipe.insn.kind
  IN  [valid    |-> TRUE,
       insn     |-> [if_id_pipe.insn EXCEPT !.dep = FALSE],
       xif_id   |-> if_id_pipe.xif_id,
       xif_en   |-> Accepts(in, iss) \/ Rejects(in, iss),
       accepted |-> Accepts(in, iss),
       illegal  |-> kind \in {"rot", "illegal"} /\ ~Accepts(in, iss),
       rf_we    |-> RfWe(kind) \/ XifWe(in, iss),
       busy     |-> kind = "div",
       sent     |-> FALSE]

ExStageStep(in, iss) ==
  id_ex_pipe' =
    IF ~ExReady(in)
    THEN [id_ex_pipe EXCEPT !.busy = DivBusy(in),
                            !.sent = @ \/ CountUp(in)]
    ELSE IF IdValid(in, iss) THEN ToEx(in, iss) ELSE EmptyEx

\* Mutant: the flags outlive an instruction that is killed.
CommitStepSticky(in) ==
  LET leaves == ExValid(in) /\ WbReady(in)
  IN  /\ commit_valid_q' = (~leaves /\ (CommitValid \/ commit_valid_q))
      /\ commit_kill_q'  = (~leaves /\ (CommitKill \/ commit_kill_q))

CommitStep(in) ==
  LET leaves == (ExValid(in) /\ WbReady(in)) \/ KillEx
  IN  /\ commit_valid_q' = (~leaves /\ (CommitValid \/ commit_valid_q))
      /\ commit_kill_q'  = (~leaves /\ (CommitKill \/ commit_kill_q))

ToWb == [valid   |-> TRUE,
         insn    |-> id_ex_pipe.insn,
         xif_id  |-> id_ex_pipe.xif_id,
         xif_en  |-> id_ex_pipe.xif_en /\ ~CommitKill /\ ~commit_kill_q,
         illegal |-> id_ex_pipe.illegal,
         rf_we   |-> id_ex_pipe.rf_we]

WbStageStep(in) ==
  /\ ex_wb_pipe' = IF ~WbReady(in) THEN ex_wb_pipe
                   ELSE IF ExValid(in) THEN ToWb ELSE EmptyWb
  /\ lsu_valid_q' = (~WbValid(in) /\ ~KillWb /\ (lsu_valid_q \/ in.resp))

LsuStep(in) ==
  LET up   == IF CountUp(in) THEN 1 ELSE 0
      down == IF in.resp THEN 1 ELSE 0
      update == LoadInEx /\ LsuDone0(in)
  IN  /\ cnt_q' = cnt_q + up - down
      /\ trans_valid_q' = IF update THEN FALSE ELSE trans_valid_q \/ TransValid

\* A fence waits until the load/store unit is idle, then flushes.
ControllerStep(in, iss) ==
  /\ branch_taken_q' =
       IF IfValid(in) /\ IdReady(in, iss) /\ branch_taken_q THEN FALSE
       ELSE branch_taken_q \/ Decision = "branch"
  /\ interrupt_blanking_q' = InWb("load")
  /\ fence_req_q' = (Decision = "halt" /\ (fence_req_q \/ (cnt_q = 0 /\ ~TransValid)))
  /\ irq' = (Decision # "interrupt" /\ (irq \/ in.irq))

CorePipelineStep(in, iss) ==
  /\ IdStageStep(in, iss)
  /\ ExStageStep(in, iss)
  /\ CommitStep(in)
  /\ WbStageStep(in)
  /\ LsuStep(in)
  /\ ControllerStep(in, iss)

=============================================================================
