-------------------------- MODULE RopeSystemProofs --------------------------
(***************************************************************************)
(* The core together with the coprocessor, for every number of ids, FIFO   *)
(* depth, program and set of values.                                       *)
(***************************************************************************)
EXTENDS RopeSystem, RopeXifProofs, SequenceTheorems

Insns == [kind : Kinds, rs1 : Values, dep : BOOLEAN]

-----------------------------------------------------------------------------
(* The pipeline, whatever the coprocessor and the memory do.                *)

CoreTypeOK ==
  /\ if_id_pipe \in [valid : BOOLEAN, insn : Insns, xif_id : XifIds]
  /\ id_ex_pipe \in [valid : BOOLEAN, insn : Insns, xif_id : XifIds, xif_en : BOOLEAN,
                     accepted : BOOLEAN, illegal : BOOLEAN, rf_we : BOOLEAN,
                     busy : BOOLEAN, sent : BOOLEAN]
  /\ ex_wb_pipe \in [valid : BOOLEAN, insn : Insns, xif_id : XifIds, xif_en : BOOLEAN,
                     illegal : BOOLEAN, rf_we : BOOLEAN]
  /\ xif_answer \in {"none", "accepted", "rejected"}
  /\ commit_valid_q \in BOOLEAN /\ commit_kill_q \in BOOLEAN
  /\ trans_valid_q \in BOOLEAN /\ lsu_valid_q \in BOOLEAN
  /\ branch_taken_q \in BOOLEAN /\ interrupt_blanking_q \in BOOLEAN
  /\ fence_req_q \in BOOLEAN /\ irq \in BOOLEAN
  /\ cnt_q \in 0 .. 2

(* What is remembered of an instruction says what it is. *)
KindsInv ==
  /\ xif_answer # "none" => if_id_pipe.valid /\ Offloaded(if_id_pipe.insn.kind)
  /\ xif_answer = "accepted" => if_id_pipe.insn.kind = "rot"
  /\ id_ex_pipe.xif_en => Offloaded(id_ex_pipe.insn.kind)
  /\ id_ex_pipe.accepted => /\ id_ex_pipe.xif_en /\ ~id_ex_pipe.illegal
                            /\ id_ex_pipe.insn.kind = "rot"
  /\ id_ex_pipe.busy => id_ex_pipe.insn.kind = "div"
  /\ id_ex_pipe.sent => id_ex_pipe.insn.kind = "load"
  /\ ex_wb_pipe.xif_en => ex_wb_pipe.insn.kind = "rot" /\ ~ex_wb_pipe.illegal

(* An instruction that was told to commit and is still in EX waits for one  *)
(* in WB that an interrupt must wait for too, and that cannot raise an      *)
(* exception or flush the pipeline.                                         *)
CommittedInv ==
  /\ commit_kill_q => id_ex_pipe.valid /\ id_ex_pipe.xif_en /\ ~id_ex_pipe.accepted
  /\ commit_valid_q =>
       /\ id_ex_pipe.valid /\ id_ex_pipe.xif_en
       /\ ~InWb("fence") /\ ~(ex_wb_pipe.valid /\ ex_wb_pipe.illegal)
       /\ XifInWb \/ cnt_q > 0

CoreInv == CoreTypeOK /\ KindsInv /\ CommittedInv

(* The inputs of a cycle.                                                   *)
CoreInputs == [fetch : Instructions \cup {NoFetch}, irq : BOOLEAN,
               grant : BOOLEAN, resp : BOOLEAN, div : BOOLEAN, result : {ResultValid}]

LEMMA NextIsCycle ==
  ASSUME Next
  PROVE  \E in \in CoreInputs : /\ Cycle(in)
                                /\ in.resp => cnt_q > 0
                                /\ in.irq => Interrupts
                                /\ in.fetch \in Fetched \cup {NoFetch}
                                /\ ~SlowMemory => in.grant /\ (in.resp <=> cnt_q > 0)
<1>1. PICK newIrq \in NewIrq, bus \in BusInputs, div \in {d \in BOOLEAN : d => InEx("div")} :
        FetchingCycle(Input(newIrq, bus, div))
  BY DEF Next
<1> DEFINE base == Input(newIrq, bus, div)
<1>2. PICK fetch \in Delivered(base) : Cycle([base EXCEPT !.fetch = fetch])
  BY <1>1 DEF FetchingCycle
<1> DEFINE in == [base EXCEPT !.fetch = fetch]
<1>3. fetch \in Fetched \cup {NoFetch} /\ Fetched \subseteq Instructions \cup {NoFetch}
  BY DEF Delivered, Fetched
<1>4. /\ in = [fetch |-> fetch, irq |-> newIrq, grant |-> bus.grant, resp |-> bus.resp,
               div |-> div, result |-> ResultValid]
  BY DEF Input
<1>5. /\ bus.grant \in BOOLEAN /\ bus.resp \in BOOLEAN /\ div \in BOOLEAN /\ newIrq \in BOOLEAN
      /\ bus.resp => cnt_q > 0
      /\ newIrq => Interrupts
      /\ ~SlowMemory => bus.grant /\ (bus.resp <=> cnt_q > 0)
  BY DEF BusInputs, NewIrq
<1>6. in \in CoreInputs
  BY <1>3, <1>4, <1>5 DEF CoreInputs
<1>7. QED
  BY <1>2, <1>3, <1>4, <1>5, <1>6

(* What the controller decides, one by one. *)
LEMMA Decisions ==
  /\ Decision = "interrupt" <=> irq /\ InterruptAllowed
  /\ Decision = "exception" <=> ~(irq /\ InterruptAllowed) /\ ex_wb_pipe.valid /\ ex_wb_pipe.illegal
  /\ Halt => InWb("fence")
  /\ Decision \in {"flush", "halt"} => InWb("fence")
  /\ Decision = "branch" => InEx("branch")
  /\ Decision \in {"interrupt", "exception", "flush", "halt", "branch", "go"}
  /\ Decision \in {"go", "branch"} =>
       ~InWb("fence") /\ ~(ex_wb_pipe.valid /\ ex_wb_pipe.illegal)
  BY DEF Decision, Halt

-----------------------------------------------------------------------------
(* The core's half of the state keeps its invariant in every cycle.         *)

LEMMA CoreConstants ==
  /\ NumIds \in Nat \ {0} /\ 0 \in XifIds
  /\ Nop \in Insns /\ Instructions \subseteq Insns
<1>1. NumIds \in Nat \ {0} /\ Kinds # {} /\ Values # {}
  BY CoreAssumption
<1>2. 0 \in XifIds
  BY <1>1 DEF XifIds
<1>3. AnyKind \in Kinds /\ AnyValue \in Values
  BY <1>1 DEF AnyKind, AnyValue
<1>4. Nop \in Insns
  BY <1>1, <1>3 DEF Nop, Insns
<1>5. Instructions \subseteq Insns
  BY <1>1 DEF Instructions, Insns
<1> QED
  BY <1>1, <1>2, <1>3, <1>4, <1>5

LEMMA InitCore == Init => CoreInv
<1> SUFFICES ASSUME Init PROVE CoreInv
  OBVIOUS
<1>1. CoreTypeOK
  <2>1. if_id_pipe \in [valid : BOOLEAN, insn : Insns, xif_id : XifIds]
    BY CoreConstants DEF Init, CoreInit, EmptyId
  <2>2. id_ex_pipe \in [valid : BOOLEAN, insn : Insns, xif_id : XifIds, xif_en : BOOLEAN,
                        accepted : BOOLEAN, illegal : BOOLEAN, rf_we : BOOLEAN,
                        busy : BOOLEAN, sent : BOOLEAN]
    BY CoreConstants DEF Init, CoreInit, EmptyEx
  <2>3. ex_wb_pipe \in [valid : BOOLEAN, insn : Insns, xif_id : XifIds, xif_en : BOOLEAN,
                        illegal : BOOLEAN, rf_we : BOOLEAN]
    BY CoreConstants DEF Init, CoreInit, EmptyWb
  <2>4. /\ xif_answer = "none" /\ cnt_q = 0
        /\ <<commit_valid_q, commit_kill_q, trans_valid_q, lsu_valid_q>>
             = <<FALSE, FALSE, FALSE, FALSE>>
        /\ <<branch_taken_q, interrupt_blanking_q, fence_req_q, irq>>
             = <<FALSE, FALSE, FALSE, FALSE>>
    BY DEF Init, CoreInit
  <2> QED
    BY <2>1, <2>2, <2>3, <2>4 DEF CoreTypeOK
<1>2. KindsInv
  BY DEF KindsInv, Init, CoreInit, EmptyId, EmptyEx, EmptyWb
<1>3. CommittedInv
  BY DEF CommittedInv, Init, CoreInit
<1> QED
  BY <1>1, <1>2, <1>3 DEF CoreInv

(* Only a rotation is accepted. *)
LEMMA OnlyRotations ==
  ASSUME NEW in
  PROVE  IssueAnswer(in).accept => if_id_pipe.insn.kind = "rot"
  BY DEF IssueAnswer, IssueReq, Accept, RotIssued

LEMMA NextId == ASSUME CoreTypeOK, NEW in PROVE NextXifId(in) \in XifIds
<1>1. if_id_pipe.xif_id \in 0 .. NumIds - 1 /\ NumIds \in Nat \ {0}
  BY CoreConstants DEF CoreTypeOK, XifIds
<1>2. (if_id_pipe.xif_id + 1) % NumIds \in 0 .. NumIds - 1
  BY <1>1
<1> QED
  BY <1>1, <1>2 DEF NextXifId, XifIds

LEMMA TypesStep ==
  ASSUME CoreTypeOK, NEW in \in CoreInputs, in.resp => cnt_q > 0, Cycle(in)
  PROVE  CoreTypeOK'
<1> DEFINE iss == IssueAnswer(in)
<1>1. /\ IdStageStep(in, iss) /\ ExStageStep(in, iss) /\ CommitStep(in)
      /\ WbStageStep(in) /\ LsuStep(in) /\ ControllerStep(in, iss)
  BY DEF Cycle, CorePipelineStep
<1>2. if_id_pipe' \in [valid : BOOLEAN, insn : Insns, xif_id : XifIds]
  <2>1. IfValid(in) => in.fetch \in Insns
    BY CoreConstants DEF IfValid, CoreInputs
  <2> QED
    BY <1>1, <2>1, CoreConstants, NextId DEF IdStageStep, CoreTypeOK
<1>3. id_ex_pipe' \in [valid : BOOLEAN, insn : Insns, xif_id : XifIds, xif_en : BOOLEAN,
                       accepted : BOOLEAN, illegal : BOOLEAN, rf_we : BOOLEAN,
                       busy : BOOLEAN, sent : BOOLEAN]
  <2> DEFINE ExType == [valid : BOOLEAN, insn : Insns, xif_id : XifIds, xif_en : BOOLEAN,
                        accepted : BOOLEAN, illegal : BOOLEAN, rf_we : BOOLEAN,
                        busy : BOOLEAN, sent : BOOLEAN]
  <2>1. ToEx(in, iss) \in ExType
    <3>1. [if_id_pipe.insn EXCEPT !.dep = FALSE] \in Insns
      BY DEF CoreTypeOK, Insns
    <3>2. (RfWe(if_id_pipe.insn.kind) \/ XifWe(in, iss)) \in BOOLEAN
      OBVIOUS
    <3>3. (Accepts(in, iss) \/ Rejects(in, iss)) \in BOOLEAN /\ Accepts(in, iss) \in BOOLEAN
      BY DEF Accepts
    <3> HIDE DEF iss
    <3> QED
      BY <3>1, <3>2, <3>3 DEF CoreTypeOK, ToEx
  <2>2. EmptyEx \in ExType
    BY CoreConstants DEF EmptyEx
  <2>3. [id_ex_pipe EXCEPT !.busy = DivBusy(in), !.sent = @ \/ CountUp(in)] \in ExType
    <3>1. id_ex_pipe \in ExType
      BY DEF CoreTypeOK
    <3>2. DivBusy(in) \in BOOLEAN /\ (id_ex_pipe.sent \/ CountUp(in)) \in BOOLEAN
      BY DEF DivBusy
    <3> QED
      BY <3>1, <3>2
  <2> QED
    BY <1>1, <2>1, <2>2, <2>3 DEF ExStageStep
<1>4. ex_wb_pipe' \in [valid : BOOLEAN, insn : Insns, xif_id : XifIds, xif_en : BOOLEAN,
                       illegal : BOOLEAN, rf_we : BOOLEAN]
  <2>1. ToWb \in [valid : BOOLEAN, insn : Insns, xif_id : XifIds, xif_en : BOOLEAN,
                  illegal : BOOLEAN, rf_we : BOOLEAN]
    BY DEF ToWb, CoreTypeOK
  <2>2. EmptyWb \in [valid : BOOLEAN, insn : Insns, xif_id : XifIds, xif_en : BOOLEAN,
                     illegal : BOOLEAN, rf_we : BOOLEAN]
    BY CoreConstants DEF EmptyWb
  <2> QED
    BY <1>1, <2>1, <2>2 DEF WbStageStep, CoreTypeOK
<1>5. xif_answer' \in {"none", "accepted", "rejected"}
  BY <1>1 DEF IdStageStep
<1>6. commit_valid_q' \in BOOLEAN /\ commit_kill_q' \in BOOLEAN
  BY <1>1 DEF CommitStep
<1>7. trans_valid_q' \in BOOLEAN /\ lsu_valid_q' \in BOOLEAN
  BY <1>1 DEF LsuStep, WbStageStep, TransValid
<1>8. branch_taken_q' \in BOOLEAN /\ interrupt_blanking_q' \in BOOLEAN
      /\ fence_req_q' \in BOOLEAN /\ irq' \in BOOLEAN
  BY <1>1 DEF ControllerStep, InWb
<1>9. cnt_q' \in 0 .. 2
  <2>1. cnt_q \in 0 .. 2 /\ (CountUp(in) => cnt_q < 2)
    BY DEF CoreTypeOK, CountUp, TransValid
  <2> QED
    BY <1>1, <2>1 DEF LsuStep
<1> QED
  BY <1>2, <1>3, <1>4, <1>5, <1>6, <1>7, <1>8, <1>9 DEF CoreTypeOK

(* A cycle in which EX keeps what it was told, although nothing kills it:   *)
(* WB is not ready then.                                                    *)
LEMMA KeptInEx ==
  ASSUME NEW in, KindsInv, id_ex_pipe.valid, id_ex_pipe.xif_en, ~KillEx, ~Halt
  PROVE  /\ ExValid(in) /\ (ExReady(in) <=> WbReady(in))
         /\ ~LoadInEx /\ ~DivBusy(in)
<1>1. id_ex_pipe.insn.kind \notin {"load", "div"}
  BY DEF KindsInv, Offloaded
<1> QED
  BY <1>1 DEF ExValid, ExReady, ExValidInstr, LoadInEx, LsuDone0, DivBusy, InEx

LEMMA KindsStep ==
  ASSUME CoreTypeOK, KindsInv, NEW in \in CoreInputs, Cycle(in)
  PROVE  KindsInv'
<1> DEFINE iss == IssueAnswer(in)
<1>1. /\ IdStageStep(in, iss) /\ ExStageStep(in, iss) /\ WbStageStep(in)
  BY DEF Cycle, CorePipelineStep
<1>2. Accepts(in, iss) \/ Rejects(in, iss)
        => if_id_pipe.valid /\ Offloaded(if_id_pipe.insn.kind)
  BY DEF Accepts, Rejects, IssueValid, IdValidInstr, KindsInv
<1>3. Accepts(in, iss) => if_id_pipe.insn.kind = "rot"
  BY OnlyRotations DEF Accepts, KindsInv
<1>4. /\ xif_answer' # "none" => if_id_pipe'.valid /\ Offloaded(if_id_pipe'.insn.kind)
      /\ xif_answer' = "accepted" => if_id_pipe'.insn.kind = "rot"
  <2>1. xif_answer' # "none" => /\ Accepts(in, iss) \/ Rejects(in, iss)
                                /\ xif_answer' = "accepted" => Accepts(in, iss)
                                /\ ~KillId /\ ~(IdValid(in, iss) /\ ExReady(in))
    BY <1>1 DEF IdStageStep
  <2>2. Accepts(in, iss) \/ Rejects(in, iss) => ~IdWaiting(in, iss)
    BY DEF Accepts, Rejects, IdWaiting, IssueValid
  <2>3. xif_answer' # "none" => ~IdReady(in, iss)
    BY <1>2, <2>1, <2>2 DEF IdReady, IdValid, IdValidInstr
  <2>4. xif_answer' # "none" => if_id_pipe' = if_id_pipe
    BY <1>1, <2>3 DEF IdStageStep
  <2> QED
    BY <1>2, <1>3, <2>1, <2>4
<1>5. /\ id_ex_pipe'.xif_en => Offloaded(id_ex_pipe'.insn.kind)
      /\ id_ex_pipe'.accepted => /\ id_ex_pipe'.xif_en /\ ~id_ex_pipe'.illegal
                                 /\ id_ex_pipe'.insn.kind = "rot"
      /\ id_ex_pipe'.busy => id_ex_pipe'.insn.kind = "div"
      /\ id_ex_pipe'.sent => id_ex_pipe'.insn.kind = "load"
  <2>1. CASE ~ExReady(in)
    <3>1. id_ex_pipe' = [id_ex_pipe EXCEPT !.busy = DivBusy(in), !.sent = @ \/ CountUp(in)]
      BY <1>1, <2>1 DEF ExStageStep
    <3>2. /\ id_ex_pipe'.xif_en = id_ex_pipe.xif_en /\ id_ex_pipe'.insn = id_ex_pipe.insn
          /\ id_ex_pipe'.accepted = id_ex_pipe.accepted
          /\ id_ex_pipe'.illegal = id_ex_pipe.illegal
          /\ id_ex_pipe'.busy = DivBusy(in)
          /\ id_ex_pipe'.sent = (id_ex_pipe.sent \/ CountUp(in))
      BY <3>1 DEF CoreTypeOK
    <3> QED
      BY <3>2 DEF KindsInv, DivBusy, InEx, CountUp, TransValid, LoadInEx
  <2>2. CASE ExReady(in) /\ IdValid(in, iss)
    <3>1. id_ex_pipe' = ToEx(in, iss)
      BY <1>1, <2>2 DEF ExStageStep
    <3>2. /\ id_ex_pipe'.insn.kind = if_id_pipe.insn.kind
          /\ id_ex_pipe'.xif_en = (Accepts(in, iss) \/ Rejects(in, iss))
          /\ id_ex_pipe'.accepted = Accepts(in, iss)
          /\ id_ex_pipe'.illegal =
               (if_id_pipe.insn.kind \in {"rot", "illegal"} /\ ~Accepts(in, iss))
          /\ id_ex_pipe'.busy = (if_id_pipe.insn.kind = "div")
          /\ id_ex_pipe'.sent = FALSE
      BY <3>1 DEF ToEx, CoreTypeOK, Insns
    <3> QED
      BY <1>2, <1>3, <3>2
  <2>3. CASE ExReady(in) /\ ~IdValid(in, iss)
    BY <1>1, <2>3 DEF ExStageStep, EmptyEx
  <2> QED
    BY <2>1, <2>2, <2>3
<1>6. ex_wb_pipe'.xif_en => ex_wb_pipe'.insn.kind = "rot" /\ ~ex_wb_pipe'.illegal
  <2>1. ExValid(in) /\ ToWb.xif_en => ToWb.insn.kind = "rot" /\ ~ToWb.illegal
    BY DEF ExValid, ExValidInstr, ToWb, CommitKill, KillRejected, KindsInv
  <2>2. ~EmptyWb.xif_en
    BY DEF EmptyWb
  <2> QED
    BY <1>1, <2>1, <2>2 DEF WbStageStep, KindsInv
<1> QED
  BY <1>4, <1>5, <1>6 DEF KindsInv

LEMMA CommittedStep ==
  ASSUME CoreTypeOK, KindsInv, CommittedInv, NEW in \in CoreInputs,
         in.resp => cnt_q > 0, Cycle(in)
  PROVE  CommittedInv'
<1> DEFINE iss == IssueAnswer(in)
           Told == id_ex_pipe.valid /\ id_ex_pipe.xif_en
<1>1. /\ ExStageStep(in, iss) /\ CommitStep(in) /\ WbStageStep(in) /\ LsuStep(in)
  BY DEF Cycle, CorePipelineStep
<1>2. commit_kill_q' =>
        Told /\ ~id_ex_pipe.accepted /\ ~KillEx /\ ~(ExValid(in) /\ WbReady(in))
  BY <1>1 DEF CommitStep, CommitKill, KillRejected, CommittedInv
<1>3. commit_valid_q' =>
        /\ Told /\ ~KillEx /\ ~Halt /\ ~(ExValid(in) /\ WbReady(in))
        /\ ~InWb("fence") /\ ~(ex_wb_pipe.valid /\ ex_wb_pipe.illegal)
  <2>1. commit_valid_q' => /\ Told /\ ~KillEx /\ ~Halt /\ ~(ExValid(in) /\ WbReady(in))
    BY <1>1, Decisions DEF CommitStep, CommitValid, CommittedInv
  <2>2. ~KillEx /\ ~Halt => Decision \in {"go", "branch"}
    BY Decisions DEF KillEx, Halt
  <2> QED
    BY <2>1, <2>2, Decisions
<1>4. ~ExReady(in) => /\ id_ex_pipe'.valid = id_ex_pipe.valid
                      /\ id_ex_pipe'.xif_en = id_ex_pipe.xif_en
                      /\ id_ex_pipe'.accepted = id_ex_pipe.accepted
  BY <1>1 DEF ExStageStep, CoreTypeOK
<1>5. commit_kill_q' => ~ExReady(in)
  BY <1>2, KeptInEx DEF ExReady
<1>6. commit_valid_q' => ~ExReady(in) /\ ~WbReady(in)
  BY <1>3, KeptInEx
<1>7. commit_valid_q' => ex_wb_pipe' = ex_wb_pipe
  BY <1>1, <1>6 DEF WbStageStep
<1>8. commit_valid_q' => XifInWb \/ cnt_q' > 0
  <2>1. ~WbReady(in) /\ ~Halt => XifInWb \/ (cnt_q # 0 /\ ~in.resp)
    BY DEF WbReady, LsuReady1, WbWaiting, HaltWb, Halt
  <2>2. cnt_q # 0 /\ ~in.resp => cnt_q' > 0
    BY <1>1 DEF LsuStep, CoreTypeOK
  <2> QED
    BY <1>3, <1>6, <2>1, <2>2
<1> QED
  BY <1>2, <1>3, <1>4, <1>5, <1>6, <1>7, <1>8 DEF CommittedInv, InWb, XifInWb

LEMMA StutterCore == CoreInv /\ UNCHANGED vars => CoreInv'
<1> SUFFICES ASSUME CoreInv, UNCHANGED vars PROVE CoreInv'
  OBVIOUS
<1>1. UNCHANGED coreVars
  BY DEF vars
<1>2. CoreTypeOK'
  BY <1>1 DEF CoreInv, CoreTypeOK, coreVars
<1>3. KindsInv'
  BY <1>1 DEF CoreInv, KindsInv, coreVars
<1>4. CommittedInv'
  BY <1>1 DEF CoreInv, CommittedInv, InWb, XifInWb, coreVars
<1> QED
  BY <1>2, <1>3, <1>4 DEF CoreInv

THEOREM CoreInvariant == Spec => []CoreInv
<1>1. CoreInv /\ Next => CoreInv'
  BY NextIsCycle, TypesStep, KindsStep, CommittedStep DEF CoreInv
<1>2. CoreInv /\ [Next]_vars => CoreInv'
  BY <1>1, StutterCore
<1> QED
  BY InitCore, <1>2, PTL DEF Spec

-----------------------------------------------------------------------------

(* What a cycle does to a rotation that was told to commit, and to one that *)
(* waits in WB for its result.                                              *)
CommitKept ==
  /\ AcceptedInEx /\ commit_valid_q =>
       \/ id_ex_pipe' = id_ex_pipe
       \/ ex_wb_pipe'.xif_en /\ ex_wb_pipe'.insn = id_ex_pipe.insn
  /\ XifInWb /\ ~ResultValid => ex_wb_pipe' = ex_wb_pipe

LEMMA CommitKeptStep ==
  ASSUME CoreInv, NEW in \in CoreInputs, Cycle(in)
  PROVE  CommitKept
<1> DEFINE iss == IssueAnswer(in)
<1>1. /\ ExStageStep(in, iss) /\ WbStageStep(in)
  BY DEF Cycle, CorePipelineStep
<1>2. in.result = ResultValid
  BY DEF CoreInputs
<1>3. XifInWb \/ cnt_q > 0 => ~(irq /\ InterruptAllowed)
  BY DEF InterruptAllowed, LsuInterruptible
<1>4. ASSUME AcceptedInEx, commit_valid_q
      PROVE  \/ id_ex_pipe' = id_ex_pipe
             \/ ex_wb_pipe'.xif_en /\ ex_wb_pipe'.insn = id_ex_pipe.insn
  <2>1. /\ XifInWb \/ cnt_q > 0
        /\ ~commit_kill_q
        /\ ~InWb("fence") /\ ~(ex_wb_pipe.valid /\ ex_wb_pipe.illegal)
    BY <1>4 DEF CoreInv, CommittedInv, AcceptedInEx
  <2>2. ~KillEx /\ ~Halt
    BY <1>3, <2>1, Decisions DEF KillEx, Halt
  <2>3. /\ ExValid(in) /\ (ExReady(in) <=> WbReady(in)) /\ ~LoadInEx /\ ~DivBusy(in)
    BY <1>4, <2>2, KeptInEx DEF CoreInv, AcceptedInEx
  <2>4. CASE WbReady(in)
    <3>1. ex_wb_pipe' = ToWb
      BY <1>1, <2>3, <2>4 DEF WbStageStep
    <3>2. ToWb.xif_en /\ ToWb.insn = id_ex_pipe.insn
      BY <1>4, <2>1, <2>2 DEF ToWb, CommitKill, KillRejected, AcceptedInEx
    <3> QED
      BY <3>1, <3>2
  <2>5. CASE ~WbReady(in)
    <3>1. id_ex_pipe' = [id_ex_pipe EXCEPT !.busy = DivBusy(in), !.sent = @ \/ CountUp(in)]
      BY <1>1, <2>3, <2>5 DEF ExStageStep
    <3>2. id_ex_pipe.insn.kind = "rot"
      BY <1>4 DEF CoreInv, KindsInv, AcceptedInEx
    <3>3. id_ex_pipe.busy = FALSE /\ id_ex_pipe.sent = FALSE
      BY <3>2 DEF CoreInv, CoreTypeOK, KindsInv
    <3>4. DivBusy(in) = FALSE /\ CountUp(in) = FALSE
      BY <2>3 DEF CountUp, TransValid, DivBusy
    <3> QED
      BY <3>1, <3>3, <3>4 DEF CoreInv, CoreTypeOK
  <2> QED
    BY <2>4, <2>5
<1>5. ASSUME XifInWb, ~ResultValid PROVE ex_wb_pipe' = ex_wb_pipe
  <2>1. ~KillWb
    BY <1>3, <1>5, Decisions DEF KillWb
  <2>2. ~WbReady(in)
    BY <1>2, <1>5, <2>1 DEF WbReady, WbWaiting
  <2> QED
    BY <1>1, <2>2 DEF WbStageStep
<1> QED
  BY <1>4, <1>5 DEF CommitKept

(* A rotation that was told to commit is not killed any more: whatever the  *)
(* program, the memory and the interrupts do, it leaves EX for WB and WB    *)
(* with its result.                                                         *)
THEOREM CommitsAreFinal == Spec => CommitIsFinal
<1>1. CoreInv /\ [Next]_vars => [CommitKept]_vars
  BY NextIsCycle, CommitKeptStep
<1>2. CommitIsFinal <=> [][CommitKept]_vars
  BY PTL DEF CommitIsFinal, CommitKept
<1> QED
  BY CoreInvariant, <1>1, <1>2, PTL DEF Spec

-----------------------------------------------------------------------------
(* The coprocessor under this core: what the core drives is in the types of *)
(* the channels, so that its credits count and its FIFO never overflows.    *)

LEMMA ChannelTypes ==
  ASSUME CoreTypeOK, NEW in
  PROVE  IssueReq(in) \in Requests /\ Commit \in Commits /\ ResultReady \in BOOLEAN
<1>1. Ids = XifIds /\ Words = Values \cup {StaleValue} /\ 0 \in Positions /\ 0 \in Pairs
  BY SystemAssumption, PrefetchAssumption DEF Pairs
<1>2. if_id_pipe.insn.rs1 \in Values /\ if_id_pipe.xif_id \in Ids /\ id_ex_pipe.xif_id \in Ids
  BY <1>1 DEF CoreTypeOK, Insns
<1>3. OperandsOf(if_id_pipe.insn, Rs1(in)) \in Operands
  BY <1>1, <1>2 DEF OperandsOf, Operands, Rs1
<1>4. IssueValid(in) \in BOOLEAN /\ (if_id_pipe.insn.kind = "rot") \in BOOLEAN
  BY DEF IssueValid
<1>5. IssueReq(in) \in Requests
  BY <1>2, <1>3, <1>4 DEF IssueReq, Requests
<1>6. CommitValid \in BOOLEAN /\ CommitKill \in BOOLEAN
  BY DEF CommitValid, CommitKill
<1>7. Commit \in Commits
  BY <1>2, <1>6 DEF Commit, Commits
<1> QED
  BY <1>5, <1>7 DEF ResultReady, XifInWb

(* The inductive invariant of the coprocessor holds in the system: the FIFO *)
(* has room for every result, whatever program the core runs.               *)
THEOREM CoprocInvariant == Spec => []IInv
<1>1. Init => IInv
  BY InitCredits DEF Init
<1>2. ASSUME CoreInv, IInv, Next PROVE IInv'
  <2>1. PICK in \in CoreInputs : Cycle(in)
    BY <1>2, NextIsCycle
  <2>2. CoprocStep(IssueReq(in), Commit, ResultReady)
    BY <2>1 DEF Cycle
  <2> QED
    BY <1>2, <2>2, ChannelTypes, StepInv DEF CoreInv
<1>3. IInv /\ UNCHANGED vars => IInv'
  BY StutterCredits DEF vars
<1>4. CoreInv /\ IInv /\ [Next]_vars => IInv'
  BY <1>2, <1>3
<1> QED
  BY CoreInvariant, <1>1, <1>4, PTL DEF Spec

-----------------------------------------------------------------------------
(* The build with the theta prefetch and no pipeline registers, in which a  *)
(* result is ready in the cycle after its issue.  What is shown of it needs *)
(* one of two things more: that nothing in the pipeline is ever killed, or  *)
(* that neither the memory nor a division makes a rotation wait in ID.      *)

Direct      == UsePrefetch /\ NumPipeRegs = 0 /\ NumIds >= 2
NeverKilled == ~Interrupts /\ Kinds \cap {"branch", "fence", "illegal"} = {}
FastPath    == ~SlowMemory /\ "div" \notin Kinds

AcceptedInId == xif_answer = "accepted"

(* How many rotations the core has accepted and not retired, and which of   *)
(* them is the oldest and which the youngest.                               *)
NumPending == One(XifInWb) + One(AcceptedInEx) + One(AcceptedInId)
OldestId == IF XifInWb THEN ex_wb_pipe.xif_id
            ELSE IF AcceptedInEx THEN id_ex_pipe.xif_id ELSE if_id_pipe.xif_id
YoungestId == IF AcceptedInId THEN if_id_pipe.xif_id
              ELSE IF AcceptedInEx THEN id_ex_pipe.xif_id ELSE ex_wb_pipe.xif_id

(* The coprocessor holds just these: the oldest at the head of the FIFO,    *)
(* the youngest in the datapath or, one cycle later, behind it.             *)
HeldInOrder ==
  /\ Occupancy + One(CurTag # NoEntry) = NumPending
  /\ CurTag # NoEntry => (AcceptedInEx \/ AcceptedInId) /\ CurTag = YoungestId
  /\ Occupancy >= 1 => InFifo(0).id = OldestId
  /\ Occupancy >= 2 => InFifo(1).id = YoungestId

(* After a kill: the entry of the rotation that was killed is about to be   *)
(* drained, and nothing is offered meanwhile.                               *)
Draining ==
  /\ NumPending = 0 /\ CurTag = NoEntry
  /\ ~if_id_pipe.valid /\ ~id_ex_pipe.valid
  /\ Occupancy = 1 /\ InFifo(0).id \in killed

HoldInv == HeldInOrder \/ Draining

(* There is never a rotation in each of the three stages. *)
RoomInv == XifInWb => ~(AcceptedInEx /\ AcceptedInId)

FlagsInv ==
  /\ XifInWb => ex_wb_pipe.xif_id \in committed \ killed
  /\ AcceptedInEx => /\ id_ex_pipe.xif_id \notin killed
                     /\ commit_valid_q => id_ex_pipe.xif_id \in committed
  /\ AcceptedInId => if_id_pipe.xif_id \notin killed

IdsInv ==
  if_id_pipe.valid /\ id_ex_pipe.valid /\ id_ex_pipe.xif_en
    => if_id_pipe.xif_id # id_ex_pipe.xif_id

(* The loads in WB and in EX account for the transactions outstanding.      *)
LoadsInv ==
  /\ cnt_q = One(InWb("load")) + One(id_ex_pipe.sent)
  /\ id_ex_pipe.sent => InEx("load") /\ InWb("load")
  /\ ~lsu_valid_q

(* Every rotation that reaches EX was accepted: the coprocessor makes ID    *)
(* wait but does not reject one.                                            *)
RotInv ==
  /\ xif_answer = "rejected" => if_id_pipe.insn.kind # "rot"
  /\ InEx("rot") => id_ex_pipe.accepted
  /\ id_ex_pipe.illegal => id_ex_pipe.insn.kind = "illegal"
  /\ ex_wb_pipe.illegal => ex_wb_pipe.insn.kind = "illegal"

RegimeInv ==
  /\ NeverKilled => ~irq
  /\ FastPath => xif_answer = "none"

DirectInv ==
  /\ CoreInv /\ IInv /\ capture = NoEntry
  /\ HoldInv /\ RoomInv /\ FlagsInv /\ IdsInv /\ LoadsInv /\ RotInv /\ RegimeInv

DirectBuild == Direct /\ (NeverKilled \/ FastPath)

(* A cycle with inputs that the surroundings of the core may give.          *)
LegalCycle(in) ==
  /\ in \in CoreInputs /\ Cycle(in)
  /\ in.resp => cnt_q > 0
  /\ in.irq => Interrupts
  /\ ~SlowMemory => in.grant /\ (in.resp <=> cnt_q > 0)

-----------------------------------------------------------------------------
(* What the invariant says of one state.                                    *)

(* Only the fast path kills. *)
LEMMA Calm ==
  ASSUME DirectInv, DirectBuild, Decision # "go"
  PROVE  FastPath
<1> SUFFICES ASSUME NeverKilled PROVE Decision = "go"
  BY DEF DirectBuild
<1>1. ~irq
  BY DEF DirectInv, RegimeInv
<1>2. ex_wb_pipe.insn.kind \in Kinds /\ id_ex_pipe.insn.kind \in Kinds
  BY DEF DirectInv, CoreInv, CoreTypeOK, Insns
<1>3. ~ex_wb_pipe.illegal /\ ~InWb("fence") /\ ~InEx("branch")
  BY <1>2 DEF DirectInv, RotInv, NeverKilled, InWb, InEx
<1> QED
  BY <1>1, <1>3 DEF Decision

(* The datapath is a single stage. *)
LEMMA OneStage == ASSUME Direct PROVE Latency = 1 /\ Stages = {1}
<1>1. Latency = 1
  BY DEF Direct, Latency
<1> QED
  BY <1>1 DEF Stages

LEMMA AtMostTwo ==
  ASSUME DirectInv
  PROVE  /\ NumPending \in 0 .. 2 /\ Occupancy \in 0 .. FifoDepth
         /\ NumPending = 0 <=> ~XifInWb /\ ~AcceptedInEx /\ ~AcceptedInId
<1>1. NumPending \in 0 .. 2
  BY DEF DirectInv, RoomInv, NumPending, One
<1>2. Occupancy \in 0 .. FifoDepth
  <2>1. /\ Occupancy \in Nat /\ NumStaged \in Nat /\ NumCaptured \in Nat
        /\ credit \in 0 .. FifoDepth /\ credit = NumCaptured + NumStaged + Occupancy
    BY StagedBound DEF DirectInv, IInv, CreditExact
  <2> QED
    BY <2>1, Parameters
<1> QED
  BY <1>1, <1>2 DEF NumPending, One

(* The head of the FIFO, as the result channel sees it.                     *)
LEMMA HeadOfFifo == ASSUME IInv PROVE InFifo(0) = FifoHead
<1>1. rd_ptr \in Pointers
  BY DEF IInv, CoprocTypeOK
<1>2. PtrAfter(0) = rd_ptr
  BY <1>1, Parameters DEF PtrAfter, Pointers
<1> QED
  BY <1>2 DEF InFifo, FifoHead

(* A rotation in WB finds its result at the head of the FIFO. *)
LEMMA NoWait == ASSUME DirectInv PROVE XifInWb => ResultValid
<1> SUFFICES ASSUME XifInWb PROVE ResultValid
  OBVIOUS
<1>1. HeldInOrder
  BY AtMostTwo DEF DirectInv, HoldInv, Draining
<1>2. Occupancy >= 1
  BY <1>1, AtMostTwo DEF HeldInOrder, NumPending, One
<1>3. FifoHead.id = ex_wb_pipe.xif_id
  BY <1>1, <1>2, HeadOfFifo DEF HeldInOrder, OldestId, DirectInv
<1>4. ~FifoEmpty
  BY <1>2, Parameters DEF FifoEmpty, Occupancy, DirectInv, IInv, CoprocTypeOK, Pointers
<1> QED
  BY <1>3, <1>4 DEF ResultValid, HeadCommitted, HeadKilled, DirectInv, FlagsInv

(* So it leaves at once. *)
LEMMA WbLeaves ==
  ASSUME DirectInv, NEW in, LegalCycle(in)
  PROVE  /\ ~WbWaiting(in)
         /\ XifInWb => WbReady(in) /\ cnt_q = 0 /\ Decision \in {"go", "branch"}
<1>1. in.result = ResultValid
  BY DEF LegalCycle, CoreInputs
<1>2. ~WbWaiting(in)
  BY <1>1, NoWait DEF WbWaiting
<1>3. ASSUME XifInWb
      PROVE  WbReady(in) /\ cnt_q = 0 /\ Decision \in {"go", "branch"}
  <2>1. ~InWb("load") /\ ~InWb("fence") /\ ~ex_wb_pipe.illegal
    BY <1>3 DEF DirectInv, CoreInv, KindsInv, XifInWb, InWb
  <2>2. cnt_q = 0
    BY <2>1 DEF DirectInv, LoadsInv, One
  <2>3. ~(irq /\ InterruptAllowed)
    BY <1>3 DEF InterruptAllowed
  <2>4. Decision \in {"go", "branch"}
    BY <2>1, <2>3, Decisions
  <2> QED
    BY <1>2, <2>2, <2>4 DEF WbReady, LsuReady1, HaltWb
<1> QED
  BY <1>2, <1>3

(* With fast memory nothing but a fence or a kill stops EX. *)
LEMMA FastEx ==
  ASSUME DirectInv, NEW in, LegalCycle(in), FastPath, ~Halt
  PROVE  ExReady(in)
<1>1. LsuReady1(in)
  BY DEF LegalCycle, FastPath, LsuReady1, DirectInv, CoreInv, CoreTypeOK
<1>2. WbReady(in)
  BY <1>1, WbLeaves DEF WbReady, HaltWb, Halt
<1>3. ~DivBusy(in)
  BY DEF DirectInv, CoreInv, CoreTypeOK, Insns, DivBusy, InEx, FastPath
<1>4. LsuDone0(in)
  BY <1>2 DEF LsuDone0, AddressDone, CountUp, TransValid, LegalCycle, FastPath
<1> QED
  BY <1>2, <1>3, <1>4 DEF ExReady

-----------------------------------------------------------------------------
(* What a cycle does to the rotations in the pipeline.                      *)

(* A rotation is accepted now; the one in ID is accepted, now or before; it *)
(* moves on to EX.                                                          *)
AcceptedNow(in) == Accept(IssueReq(in))
HasAccepted(in) == Accepts(in, IssueAnswer(in))
OutOfId(in)     == IdValid(in, IssueAnswer(in)) /\ ExReady(in)

LEMMA Issuing ==
  ASSUME DirectInv, NEW in, LegalCycle(in)
  PROVE  /\ HasAccepted(in) <=> AcceptedNow(in) \/ AcceptedInId
         /\ AcceptedNow(in) => /\ IssueValid(in) /\ ~AcceptedInId /\ IdValidInstr(in)
                               /\ IdValid(in, IssueAnswer(in))
         /\ HasAccepted(in) => if_id_pipe.valid /\ ~IdWaiting(in, IssueAnswer(in))
         /\ HasAccepted(in) /\ ~KillId /\ ~OutOfId(in) => ~IdReady(in, IssueAnswer(in))
         /\ KillId => ~AcceptedNow(in) /\ ~OutOfId(in)
         /\ KillEx => KillId /\ ExReady(in)
<1> DEFINE iss == IssueAnswer(in)
<1>1. iss.accept = AcceptedNow(in) /\ (AcceptedNow(in) => iss.ready /\ IssueValid(in))
  BY DEF IssueAnswer, AcceptedNow, Accept, IssueReady, RotIssued, IssueReq
<1> HIDE DEF iss
<1>2. AcceptedNow(in) => ~AcceptedInId /\ IdValidInstr(in) /\ ~IdWaiting(in, iss)
  BY <1>1 DEF IssueValid, AcceptedInId, IdWaiting
<1>3. HasAccepted(in) <=> AcceptedNow(in) \/ AcceptedInId
  BY <1>1 DEF HasAccepted, Accepts, AcceptedInId, iss
<1>4. AcceptedInId => if_id_pipe.valid /\ ~IdWaiting(in, iss)
  BY DEF AcceptedInId, IdWaiting, IssueValid, DirectInv, CoreInv, KindsInv
<1>5. HasAccepted(in) => if_id_pipe.valid /\ ~IdWaiting(in, iss)
  BY <1>2, <1>3, <1>4 DEF IdValidInstr
<1>6. HasAccepted(in) /\ ~KillId /\ ~OutOfId(in) => ~IdReady(in, iss)
  BY <1>5 DEF IdReady, OutOfId, IdValid, IdValidInstr, iss
<1>7. KillId => ~AcceptedNow(in) /\ ~OutOfId(in)
  BY <1>2 DEF OutOfId, IdValid, IdValidInstr
<1>8. KillEx => KillId /\ ExReady(in)
  BY DEF KillEx, KillId, KillIf, ExReady
<1> QED
  BY <1>1, <1>2, <1>3, <1>5, <1>6, <1>7, <1>8 DEF iss, IdValid

LEMMA Movement ==
  ASSUME DirectInv, NEW in, LegalCycle(in)
  PROVE  /\ XifInWb' <=> AcceptedInEx /\ ~KillEx /\ ExReady(in)
         /\ XifInWb' => ex_wb_pipe'.xif_id = id_ex_pipe.xif_id
         /\ AcceptedInEx' <=> IF ExReady(in) THEN OutOfId(in) /\ HasAccepted(in)
                                             ELSE AcceptedInEx
         /\ AcceptedInEx' => id_ex_pipe'.xif_id = IF ExReady(in) THEN if_id_pipe.xif_id
                                                                ELSE id_ex_pipe.xif_id
         /\ AcceptedInId' <=> HasAccepted(in) /\ ~KillId /\ ~OutOfId(in)
         /\ AcceptedInId' => if_id_pipe' = if_id_pipe
<1> DEFINE iss == IssueAnswer(in)
<1>1. /\ IdStageStep(in, iss) /\ ExStageStep(in, iss) /\ WbStageStep(in)
  BY DEF LegalCycle, Cycle, CorePipelineStep
<1>2. CoreTypeOK /\ KindsInv /\ CommittedInv
  BY DEF DirectInv, CoreInv
<1>3. /\ XifInWb' <=> AcceptedInEx /\ ~KillEx /\ ExReady(in)
      /\ XifInWb' => ex_wb_pipe'.xif_id = id_ex_pipe.xif_id
  <2>1. ASSUME AcceptedInEx, ~KillEx, ExReady(in)
        PROVE  XifInWb' /\ ex_wb_pipe'.xif_id = id_ex_pipe.xif_id
    <3>1. ~Halt
      BY <2>1 DEF ExReady
    <3>2. ExValid(in) /\ WbReady(in)
      BY <1>2, <2>1, <3>1, KeptInEx DEF AcceptedInEx
    <3>3. ex_wb_pipe' = ToWb
      BY <1>1, <3>2 DEF WbStageStep
    <3>4. ToWb.valid /\ ToWb.xif_en /\ ToWb.xif_id = id_ex_pipe.xif_id
      BY <1>2, <2>1 DEF ToWb, CommitKill, KillRejected, AcceptedInEx, CommittedInv
    <3> QED
      BY <3>3, <3>4 DEF XifInWb
  <2>2. ASSUME XifInWb' PROVE AcceptedInEx /\ ~KillEx /\ ExReady(in)
    <3>1. WbReady(in)
      BY <1>1, <2>2, WbLeaves DEF WbStageStep, XifInWb
    <3>2. ExValid(in) /\ ex_wb_pipe' = ToWb
      BY <1>1, <2>2, <3>1 DEF WbStageStep, XifInWb, EmptyWb
    <3>3. AcceptedInEx /\ ~KillEx /\ ~Halt
      BY <2>2, <3>2 DEF XifInWb, ToWb, CommitKill, KillRejected, AcceptedInEx,
                        ExValid, ExValidInstr
    <3>4. ExReady(in)
      BY <1>2, <3>1, <3>3, KeptInEx DEF AcceptedInEx
    <3> QED
      BY <3>3, <3>4
  <2> QED
    BY <2>1, <2>2
<1>4. /\ AcceptedInEx' <=> IF ExReady(in) THEN OutOfId(in) /\ HasAccepted(in)
                                          ELSE AcceptedInEx
      /\ AcceptedInEx' => id_ex_pipe'.xif_id = IF ExReady(in) THEN if_id_pipe.xif_id
                                                             ELSE id_ex_pipe.xif_id
  <2>1. CASE ~ExReady(in)
    <3>1. /\ id_ex_pipe'.valid = id_ex_pipe.valid
          /\ id_ex_pipe'.xif_en = id_ex_pipe.xif_en
          /\ id_ex_pipe'.accepted = id_ex_pipe.accepted
          /\ id_ex_pipe'.xif_id = id_ex_pipe.xif_id
      BY <1>1, <1>2, <2>1 DEF ExStageStep, CoreTypeOK
    <3> QED
      BY <2>1, <3>1 DEF AcceptedInEx
  <2>2. CASE ExReady(in) /\ IdValid(in, iss)
    <3>1. id_ex_pipe' = ToEx(in, iss)
      BY <1>1, <2>2 DEF ExStageStep
    <3>2. /\ id_ex_pipe'.valid /\ id_ex_pipe'.xif_id = if_id_pipe.xif_id
          /\ id_ex_pipe'.accepted = HasAccepted(in)
          /\ HasAccepted(in) => id_ex_pipe'.xif_en
      BY <3>1 DEF ToEx, HasAccepted
    <3> QED
      BY <2>2, <3>2 DEF AcceptedInEx, OutOfId
  <2>3. CASE ExReady(in) /\ ~IdValid(in, iss)
    BY <1>1, <2>3 DEF ExStageStep, EmptyEx, AcceptedInEx, OutOfId
  <2> QED
    BY <2>1, <2>2, <2>3
<1>5. AcceptedInId' <=> HasAccepted(in) /\ ~KillId /\ ~OutOfId(in)
  BY <1>1 DEF IdStageStep, AcceptedInId, HasAccepted, OutOfId
<1>6. AcceptedInId' => if_id_pipe' = if_id_pipe
  BY <1>1, <1>5, Issuing DEF IdStageStep
<1> QED
  BY <1>3, <1>4, <1>5, <1>6

(* Without a kill no rotation is lost, and they stay in their order.        *)
LEMMA KeepsOrder ==
  ASSUME DirectInv, NEW in, LegalCycle(in), ~KillId
  PROVE  /\ NumPending' = NumPending - One(XifInWb) + One(AcceptedNow(in))
         /\ AcceptedInEx => OldestId' = id_ex_pipe.xif_id
         /\ ~AcceptedInEx /\ HasAccepted(in) => OldestId' = if_id_pipe.xif_id
         /\ HasAccepted(in) => /\ YoungestId' = if_id_pipe.xif_id
                               /\ AcceptedInEx' \/ AcceptedInId'
         /\ AcceptedInEx /\ ~HasAccepted(in) => YoungestId' = id_ex_pipe.xif_id
<1>1. ~KillEx
  BY DEF KillEx, KillId, KillIf
<1>2. OutOfId(in) => ExReady(in)
  BY DEF OutOfId
<1>3. /\ XifInWb' \in BOOLEAN /\ AcceptedInEx' \in BOOLEAN /\ AcceptedInId' \in BOOLEAN
      /\ HasAccepted(in) \in BOOLEAN /\ AcceptedNow(in) \in BOOLEAN
  BY DEF XifInWb, AcceptedInEx, AcceptedInId, HasAccepted, AcceptedNow, Accept, CanTake,
         Accepts, RotIssued
<1>4. One(XifInWb') + One(AcceptedInEx') + One(AcceptedInId')
        = One(AcceptedInEx) + One(HasAccepted(in))
  BY <1>1, <1>2, Movement DEF One
<1>5. One(HasAccepted(in)) = One(AcceptedNow(in)) + One(AcceptedInId)
  BY Issuing DEF One
<1>6. NumPending' = NumPending - One(XifInWb) + One(AcceptedNow(in))
  <2>1. NumPending' = One(XifInWb') + One(AcceptedInEx') + One(AcceptedInId')
    BY DEF NumPending, One
  <2> QED
    BY <1>4, <1>5, <2>1 DEF NumPending, One
<1>7. AcceptedInEx => OldestId' = id_ex_pipe.xif_id
  BY <1>1, Movement DEF OldestId
<1>8. ~AcceptedInEx /\ HasAccepted(in) => OldestId' = if_id_pipe.xif_id
  BY <1>1, <1>2, Movement DEF OldestId
<1>9. HasAccepted(in) => /\ YoungestId' = if_id_pipe.xif_id
                         /\ AcceptedInEx' \/ AcceptedInId'
  BY <1>1, <1>2, Movement DEF YoungestId
<1>10. AcceptedInEx /\ ~HasAccepted(in) => YoungestId' = id_ex_pipe.xif_id
  BY <1>1, <1>2, Movement DEF YoungestId
<1> QED
  BY <1>6, <1>7, <1>8, <1>9, <1>10

-----------------------------------------------------------------------------
(* What the same cycle does to the coprocessor.                             *)

LEMMA CoprocMoves ==
  ASSUME DirectInv, Direct, NEW in, LegalCycle(in)
  PROVE  /\ IInv' /\ capture' = NoEntry
         /\ CurTag' = IF AcceptedNow(in) THEN if_id_pipe.xif_id ELSE NoEntry
         /\ if_id_pipe.xif_id # NoEntry
         /\ killed' = (IF KillSeen(Commit) THEN killed \cup {id_ex_pipe.xif_id} ELSE killed)
                        \ (IF AcceptedNow(in) THEN {if_id_pipe.xif_id} ELSE {})
         /\ committed' = (IF CommitValid /\ ~CommitKill
                          THEN committed \cup {id_ex_pipe.xif_id} ELSE committed)
                           \ (IF AcceptedNow(in) THEN {if_id_pipe.xif_id} ELSE {})
<1> DEFINE req == IssueReq(in)
<1>1. CoprocStep(req, Commit, ResultReady)
  BY DEF LegalCycle, Cycle
<1>2. req \in Requests /\ Commit \in Commits /\ ResultReady \in BOOLEAN
  BY ChannelTypes DEF DirectInv, CoreInv
<1>3. IInv'
  BY <1>1, <1>2, StepInv DEF DirectInv
<1>4. /\ req.id = if_id_pipe.xif_id /\ Commit.id = id_ex_pipe.xif_id
      /\ Commit.valid = CommitValid /\ Commit.kill = CommitKill
  BY DEF IssueReq, Commit
<1>5. UsePrefetch /\ 1 \in Stages /\ Latency = 1
  BY OneStage DEF Direct
<1>6. CurTag' = IF AcceptedNow(in) THEN if_id_pipe.xif_id ELSE NoEntry
  BY <1>1, <1>4, <1>5, PipeStages DEF CurTag, DpValid, DpId, AcceptedNow
<1>7. if_id_pipe.xif_id # NoEntry
  BY SystemAssumption, CoprocAssumption DEF DirectInv, CoreInv, CoreTypeOK
<1>8. FlagsStep(req, Commit) /\ capture' = capture
  BY <1>1, <1>5 DEF CoprocStep, CaptureStep
<1> QED
  BY <1>3, <1>4, <1>6, <1>7, <1>8 DEF FlagsStep, KillSeen, AcceptedNow, DirectInv

(* What the coprocessor holds in order it neither retires nor drains, as    *)
(* long as EX is not killed: what leaves the datapath enters the FIFO, and  *)
(* what is taken out is the result of the rotation in WB.                   *)
LEMMA NothingRetired ==
  ASSUME DirectInv, HeldInOrder, ~KillEx
  PROVE  /\ FifoPush(Commit) <=> CurTag # NoEntry
         /\ FifoPop(ResultReady) <=> XifInWb
<1>1. CurTag # NoEntry => CurTag \notin killed /\ ~KillOf(Commit, CurTag)
  <2> SUFFICES ASSUME CurTag # NoEntry
               PROVE  CurTag \notin killed /\ ~KillOf(Commit, CurTag)
    OBVIOUS
  <2>1. (AcceptedInEx \/ AcceptedInId) /\ CurTag = YoungestId
    BY DEF HeldInOrder
  <2>2. KillOf(Commit, CurTag) => KillRejected /\ CurTag = id_ex_pipe.xif_id
    BY DEF KillOf, KillSeen, Commit, CommitKill
  <2>3. AcceptedInId /\ KillRejected => if_id_pipe.xif_id # id_ex_pipe.xif_id
    BY DEF AcceptedInId, KillRejected, DirectInv, IdsInv, CoreInv, KindsInv
  <2> QED
    BY <2>1, <2>2, <2>3 DEF YoungestId, KillRejected, AcceptedInEx, DirectInv, FlagsInv
<1>2. FifoPush(Commit) <=> CurTag # NoEntry
  <2>1. Commit \in Commits
    BY ChannelTypes DEF DirectInv, CoreInv
  <2>2. ResultPresent <=> CurTag # NoEntry
    BY <2>1, PushOrRetire DEF DirectInv
  <2> QED
    BY <1>1, <2>2 DEF FifoPush, ResultIsKilled
<1>3. Occupancy >= 1 => FifoHead.id \notin killed
  <2> SUFFICES ASSUME Occupancy >= 1 PROVE FifoHead.id \notin killed
    OBVIOUS
  <2>1. FifoHead.id = OldestId
    BY HeadOfFifo DEF HeldInOrder, DirectInv
  <2>2. NumPending # 0
    BY AtMostTwo DEF HeldInOrder, One
  <2> QED
    BY <2>1, <2>2, AtMostTwo DEF OldestId, DirectInv, FlagsInv
<1>4. ~FifoEmpty => Occupancy >= 1
  BY Parameters DEF FifoEmpty, Occupancy, DirectInv, IInv, CoprocTypeOK, Pointers
<1>5. ~FifoDrain
  BY <1>3, <1>4 DEF FifoDrain, HeadKilled
<1>6. FifoPop(ResultReady) <=> XifInWb
  BY <1>5, NoWait DEF FifoPop, ResultTaken, ResultReady
<1> QED
  BY <1>2, <1>6

(* The kill of a rotation in EX reaches the coprocessor: it has not been    *)
(* told to commit.                                                          *)
LEMMA KillIsTold ==
  ASSUME DirectInv, NEW in, LegalCycle(in), AcceptedInEx, KillEx
  PROVE  ~XifInWb /\ CommitValid /\ CommitKill
<1>1. Decision \in {"interrupt", "exception", "flush"}
  BY DEF KillEx
<1>2. ~XifInWb
  BY <1>1, WbLeaves
<1>3. ~commit_valid_q
  <2>1. ~(irq /\ InterruptAllowed) \/ (~XifInWb /\ cnt_q = 0)
    BY DEF InterruptAllowed, LsuInterruptible
  <2> QED
    BY <1>1, <1>2, <2>1, Decisions DEF DirectInv, CoreInv, CommittedInv
<1> QED
  BY <1>2, <1>3 DEF CommitValid, CommitKill, AcceptedInEx

LEMMA HoldStep ==
  ASSUME DirectInv, DirectBuild, NEW in, LegalCycle(in)
  PROVE  HoldInv'
<1> DEFINE req == IssueReq(in)
           push == FifoPush(Commit)
           pop == FifoPop(ResultReady)
<1>1. CoprocStep(req, Commit, ResultReady)
  BY DEF LegalCycle, Cycle
<1>2. /\ req \in Requests /\ Commit \in Commits /\ ResultReady \in BOOLEAN
      /\ IInv /\ IInv' /\ Direct
  BY ChannelTypes, CoprocMoves DEF DirectInv, CoreInv, DirectBuild
<1>3. /\ Occupancy \in 0 .. FifoDepth
      /\ ResultPresent => Occupancy < FifoDepth
      /\ Occupancy' = Occupancy + One(push) - One(pop)
      /\ \A m, n \in 0 .. FifoDepth - 1 :
           n < Occupancy /\ m = n - One(pop) => InFifo(m)' = InFifo(n)
      /\ \A m \in 0 .. FifoDepth - 1 :
           push /\ m = Occupancy - One(pop)
             => InFifo(m)' = [id |-> CurTag, data |-> ResData]
  BY <1>1, <1>2, FifoEntries
<1>4. /\ push => CurTag # NoEntry /\ ResultPresent
      /\ push \in BOOLEAN /\ pop \in BOOLEAN
  BY DEF FifoPush, ResultPresent, FifoPop, FifoDrain, ResultTaken, ResultValid
<1>5. /\ CurTag' = IF AcceptedNow(in) THEN if_id_pipe.xif_id ELSE NoEntry
      /\ CurTag' # NoEntry <=> AcceptedNow(in)
  BY <1>2, CoprocMoves
<1>6. NumPending' = One(XifInWb') + One(AcceptedInEx') + One(AcceptedInId')
  BY DEF NumPending, One
<1> HIDE DEF push, pop
<1>7. ASSUME Occupancy' = 0, CurTag' = NoEntry, NumPending' = 0
      PROVE  HeldInOrder'
  BY <1>7 DEF HeldInOrder, One
<1>8. CASE Draining
  <2>1. ~XifInWb /\ ~AcceptedInEx /\ ~AcceptedInId
    BY <1>8, AtMostTwo DEF Draining
  <2>2. ~AcceptedNow(in) /\ ~HasAccepted(in)
    BY <1>8, <2>1, Issuing DEF Draining
  <2>3. pop /\ ~push
    <3>1. FifoHead.id \in killed /\ CurTag = NoEntry
      BY <1>2, <1>8, HeadOfFifo DEF Draining
    <3>2. ~FifoEmpty
      BY <1>8, Parameters DEF Draining, FifoEmpty, Occupancy, DirectInv, IInv,
                              CoprocTypeOK, Pointers
    <3> QED
      BY <1>4, <3>1, <3>2 DEF pop, FifoPop, FifoDrain, HeadKilled
  <2>4. Occupancy' = 0
    BY <1>3, <1>8, <2>3 DEF Draining, One
  <2>5. NumPending' = 0
    BY <1>6, <2>1, <2>2, Movement DEF One
  <2> QED
    BY <1>5, <1>7, <2>2, <2>4, <2>5 DEF HoldInv
<1>9. CASE HeldInOrder /\ KillId
  <2>1. FastPath
    BY <1>9, Calm DEF KillId, KillIf
  <2>2. ~AcceptedInId /\ ~AcceptedNow(in) /\ ~HasAccepted(in) /\ ~OutOfId(in)
    BY <1>9, <2>1, Issuing DEF DirectInv, RegimeInv, AcceptedInId
  <2>3. NumPending' = 0
    BY <1>6, <1>9, <2>2, Issuing, Movement, WbLeaves, Decisions
       DEF One, AcceptedInEx, InEx, DirectInv, CoreInv, KindsInv, KillId, KillIf, KillEx
  <2>4. CASE ~AcceptedInEx
    <3>1. NumPending = One(XifInWb) /\ CurTag = NoEntry
      BY <1>9, <2>2, <2>4 DEF NumPending, HeldInOrder, One
    <3>2. Occupancy = One(XifInWb) /\ ~push
      BY <1>3, <1>4, <1>9, <3>1 DEF HeldInOrder, One
    <3>3. XifInWb => pop
      BY NoWait DEF pop, FifoPop, ResultTaken, ResultReady
    <3>4. Occupancy' = 0
      <4>1. pop => Occupancy >= 1
        BY <1>1, <1>2, FifoEntries DEF pop
      <4> QED
        BY <1>3, <3>2, <3>3, <4>1 DEF One
    <3> QED
      BY <1>5, <1>7, <2>2, <2>3, <3>4 DEF HoldInv
  <2>5. CASE AcceptedInEx
    <3>1. KillEx /\ Decision \in {"interrupt", "exception", "flush"}
      BY <1>9, <2>5, Decisions DEF AcceptedInEx, InEx, DirectInv, CoreInv, KindsInv,
                                   KillId, KillIf, KillEx
    <3>2. ~XifInWb /\ CommitValid /\ CommitKill
      BY <2>5, <3>1, KillIsTold
    <3>3. NumPending = 1 /\ OldestId = id_ex_pipe.xif_id /\ YoungestId = id_ex_pipe.xif_id
      BY <2>2, <2>5, <3>2 DEF NumPending, OldestId, YoungestId, One
    <3>4. CASE CurTag # NoEntry
      <4>1. CurTag = id_ex_pipe.xif_id /\ Occupancy = 0
        BY <1>3, <1>9, <3>3, <3>4 DEF HeldInOrder, One
      <4>2. ~push
        BY <3>2, <4>1 DEF push, FifoPush, ResultIsKilled, KillOf, KillSeen, Commit
      <4>3. ~pop
        <5>1. pop => Occupancy >= 1
          BY <1>1, <1>2, FifoEntries DEF pop
        <5> QED
          BY <4>1, <5>1
      <4> QED
        BY <1>3, <1>5, <1>7, <2>2, <2>3, <4>1, <4>2, <4>3 DEF HoldInv, One
    <3>5. CASE CurTag = NoEntry
      <4>1. Occupancy = 1 /\ InFifo(0).id = id_ex_pipe.xif_id /\ ~push
        BY <1>3, <1>4, <1>9, <3>3, <3>5 DEF HeldInOrder, One
      <4>2. ~pop
        BY <2>5, <3>2, <4>1, HeadOfFifo DEF pop, FifoPop, ResultTaken, ResultReady,
           FifoDrain, HeadKilled, DirectInv, FlagsInv
      <4>3. Occupancy' = 1
        BY <1>3, <4>1, <4>2 DEF One
      <4>4. InFifo(0)' = InFifo(0)
        BY <1>3, <4>1, <4>2, Parameters DEF One
      <4>5. id_ex_pipe.xif_id \in killed'
        BY <1>2, <2>2, <3>2, CoprocMoves DEF KillSeen, Commit
      <4>6. ~if_id_pipe'.valid /\ ~id_ex_pipe'.valid
        <5>1. IdStageStep(in, IssueAnswer(in)) /\ ExStageStep(in, IssueAnswer(in))
          BY DEF LegalCycle, Cycle, CorePipelineStep
        <5>2. /\ IdReady(in, IssueAnswer(in)) /\ ~IfValid(in)
              /\ ExReady(in) /\ ~IdValid(in, IssueAnswer(in))
          BY <1>9, <3>1 DEF IdReady, IfValid, KillId, ExReady, IdValid, IdValidInstr
        <5> QED
          BY <5>1, <5>2 DEF IdStageStep, ExStageStep, EmptyEx, DirectInv, CoreInv, CoreTypeOK
      <4>7. Draining'
        BY <1>5, <2>2, <2>3, <4>1, <4>3, <4>4, <4>5, <4>6 DEF Draining
      <4> QED
        BY <4>7 DEF HoldInv
    <3> QED
      BY <3>4, <3>5
  <2> QED
    BY <2>4, <2>5
<1>10. CASE HeldInOrder /\ ~KillId
  <2>1. ~KillEx
    BY <1>10 DEF KillEx, KillId, KillIf
  <2>2. (push <=> CurTag # NoEntry) /\ (pop <=> XifInWb)
    BY <1>10, <2>1, NothingRetired DEF push, pop
  <2>3. Occupancy + One(CurTag # NoEntry) = NumPending
    BY <1>10 DEF HeldInOrder
  <2>4. Occupancy' + One(CurTag' # NoEntry) = NumPending'
    <3>1. NumPending' = NumPending - One(XifInWb) + One(AcceptedNow(in))
      BY <1>10, KeepsOrder
    <3>2. Occupancy' = Occupancy + One(CurTag # NoEntry) - One(XifInWb)
      BY <1>3, <1>4, <2>2 DEF One
    <3>3. One(CurTag' # NoEntry) = One(AcceptedNow(in))
      BY <1>5 DEF One
    <3>4. Occupancy \in Int /\ NumPending \in Int
      BY AtMostTwo
    <3> QED
      BY <2>3, <3>1, <3>2, <3>3, <3>4 DEF One
  <2>5. CurTag' # NoEntry => (AcceptedInEx' \/ AcceptedInId') /\ CurTag' = YoungestId'
    BY <1>5, <1>10, KeepsOrder, Issuing
  <2>6. Occupancy' = NumPending - One(XifInWb)
    BY <1>3, <2>2, <2>3, AtMostTwo DEF One
  <2>7. Occupancy' >= 1 => InFifo(0)'.id = OldestId'
    <3> SUFFICES ASSUME Occupancy' >= 1 PROVE InFifo(0)'.id = OldestId'
      OBVIOUS
    <3>1. AcceptedInEx \/ AcceptedInId
      BY <2>6 DEF NumPending, One
    <3>2. OldestId' = IF AcceptedInEx THEN id_ex_pipe.xif_id ELSE if_id_pipe.xif_id
      BY <1>10, <3>1, KeepsOrder, Issuing
    <3>3. CASE XifInWb
      <4>1. NumPending = 2 /\ YoungestId = OldestId'
        BY <3>1, <3>2, <3>3 DEF NumPending, One, YoungestId, DirectInv, RoomInv
      <4>2. CASE CurTag # NoEntry
        <5>1. Occupancy = 1 /\ push /\ pop /\ CurTag = YoungestId
          BY <1>3, <1>10, <2>2, <2>3, <3>3, <4>1, <4>2 DEF One, HeldInOrder
        <5>2. InFifo(0)' = [id |-> CurTag, data |-> ResData]
          BY <1>3, <5>1, Parameters DEF One
        <5> QED
          BY <4>1, <5>1, <5>2
      <4>3. CASE CurTag = NoEntry
        <5>1. Occupancy = 2 /\ pop /\ InFifo(1).id = YoungestId
          BY <1>3, <1>10, <2>2, <2>3, <3>3, <4>1, <4>3 DEF One, HeldInOrder
        <5>2. InFifo(0)' = InFifo(1)
          BY <1>3, <5>1, Parameters DEF One
        <5> QED
          BY <4>1, <5>1, <5>2
      <4> QED
        BY <4>2, <4>3
    <3>4. CASE ~XifInWb
      <4>1. OldestId' = OldestId /\ ~pop
        BY <2>2, <3>1, <3>2, <3>4 DEF OldestId
      <4>2. CASE Occupancy >= 1
        <5>1. InFifo(0)' = InFifo(0) /\ InFifo(0).id = OldestId
          BY <1>3, <1>10, <4>1, <4>2, Parameters DEF One, HeldInOrder
        <5> QED
          BY <4>1, <5>1
      <4>3. CASE Occupancy = 0
        <5>1. push /\ CurTag = YoungestId /\ NumPending = 1
          BY <1>3, <1>10, <2>2, <2>3, <4>1, <4>3 DEF One, HeldInOrder
        <5>2. YoungestId = OldestId
          BY <3>1, <3>4, <5>1 DEF NumPending, One, YoungestId, OldestId
        <5>3. InFifo(0)' = [id |-> CurTag, data |-> ResData]
          BY <1>3, <4>1, <4>3, <5>1, Parameters DEF One
        <5> QED
          BY <4>1, <5>1, <5>2, <5>3
      <4> QED
        BY <1>3, <4>2, <4>3
    <3> QED
      BY <3>3, <3>4
  <2>8. Occupancy' >= 2 => InFifo(1)'.id = YoungestId'
    <3> SUFFICES ASSUME Occupancy' >= 2 PROVE InFifo(1)'.id = YoungestId'
      OBVIOUS
    <3>1. NumPending = 2 /\ ~XifInWb /\ AcceptedInEx /\ AcceptedInId
      BY <2>6, AtMostTwo DEF NumPending, One
    <3>2. YoungestId' = if_id_pipe.xif_id /\ YoungestId = if_id_pipe.xif_id
      BY <1>10, <3>1, KeepsOrder, Issuing DEF YoungestId
    <3>3. CASE CurTag # NoEntry
      <4>1. Occupancy = 1 /\ push /\ ~pop /\ CurTag = YoungestId
        BY <1>3, <1>10, <2>2, <2>3, <3>1, <3>3 DEF One, HeldInOrder
      <4>2. 1 < FifoDepth
        BY <1>3, <1>4, <4>1, Parameters
      <4>3. InFifo(1)' = [id |-> CurTag, data |-> ResData]
        BY <1>3, <4>1, <4>2, Parameters DEF One
      <4> QED
        BY <3>2, <4>1, <4>3
    <3>4. CASE CurTag = NoEntry
      <4>1. Occupancy = 2 /\ ~pop /\ InFifo(1).id = YoungestId
        BY <1>3, <1>10, <2>2, <2>3, <3>1, <3>4 DEF One, HeldInOrder
      <4>2. InFifo(1)' = InFifo(1)
        BY <1>3, <4>1, Parameters DEF One
      <4> QED
        BY <3>2, <4>1, <4>2
    <3> QED
      BY <3>3, <3>4
  <2> QED
    BY <2>4, <2>5, <2>7, <2>8 DEF HoldInv, HeldInOrder, One
<1> QED
  BY <1>8, <1>9, <1>10 DEF DirectInv, HoldInv

LEMMA RoomStep ==
  ASSUME DirectInv, NEW in, LegalCycle(in)
  PROVE  RoomInv'
<1>1. XifInWb' => ExReady(in)
  BY Movement
<1>2. AcceptedInId' => ~OutOfId(in)
  BY Movement
<1> QED
  BY <1>1, <1>2, Movement DEF RoomInv

(* A commit that is outstanding in EX keeps EX from being left. *)
LEMMA CommitStays ==
  ASSUME DirectInv, NEW in, LegalCycle(in)
  PROVE  commit_valid_q' => ~ExReady(in) /\ (CommitValid \/ commit_valid_q)
<1>1. CommitStep(in)
  BY DEF LegalCycle, Cycle, CorePipelineStep
<1>2. ASSUME commit_valid_q' PROVE ~ExReady(in) /\ (CommitValid \/ commit_valid_q)
  <2>1. /\ ~(ExValid(in) /\ WbReady(in)) /\ ~KillEx
        /\ CommitValid \/ commit_valid_q
    BY <1>1, <1>2 DEF CommitStep
  <2>2. ~ExReady(in) \/ ~Halt
    BY <2>1 DEF ExReady
  <2>3. id_ex_pipe.valid /\ id_ex_pipe.xif_en
    BY <2>1 DEF CommitValid, DirectInv, CoreInv, CommittedInv
  <2> QED
    BY <2>1, <2>2, <2>3, KeptInEx DEF DirectInv, CoreInv
<1> QED
  BY <1>2

LEMMA FlagsKept ==
  ASSUME DirectInv, DirectBuild, NEW in, LegalCycle(in)
  PROVE  FlagsInv'
<1> DEFINE d == if_id_pipe.xif_id
           e == id_ex_pipe.xif_id
<1>1. /\ killed' = (IF KillSeen(Commit) THEN killed \cup {e} ELSE killed)
                     \ (IF AcceptedNow(in) THEN {d} ELSE {})
      /\ committed' = (IF CommitValid /\ ~CommitKill THEN committed \cup {e} ELSE committed)
                        \ (IF AcceptedNow(in) THEN {d} ELSE {})
  BY CoprocMoves DEF DirectBuild
<1>2. HasAccepted(in) /\ id_ex_pipe.valid /\ id_ex_pipe.xif_en => d # e
  BY Issuing DEF DirectInv, IdsInv
<1>3. KillSeen(Commit) => id_ex_pipe.valid /\ id_ex_pipe.xif_en /\ CommitKill
  BY DEF KillSeen, Commit, CommitValid
<1>4. HasAccepted(in) <=> AcceptedNow(in) \/ AcceptedInId
  BY Issuing
(* The rotation in EX. *)
<1>5. ASSUME AcceptedInEx, ~KillEx
      PROVE  e \notin killed' /\ (CommitValid \/ commit_valid_q => e \in committed')
  <2>1. ~CommitKill /\ ~KillSeen(Commit)
    BY <1>3, <1>5 DEF CommitKill, KillRejected, AcceptedInEx
  <2>2. AcceptedNow(in) => d # e
    BY <1>2, <1>4, <1>5 DEF AcceptedInEx
  <2>3. e \notin killed /\ (commit_valid_q => e \in committed)
    BY <1>5 DEF DirectInv, FlagsInv
  <2> QED
    BY <1>1, <2>1, <2>2, <2>3
(* The rotation in ID. *)
<1>6. HasAccepted(in) => d \notin killed'
  <2>1. AcceptedNow(in) => d \notin killed'
    BY <1>1
  <2>2. AcceptedInId => d \notin killed
    BY DEF DirectInv, FlagsInv
  <2> QED
    BY <1>1, <1>2, <1>3, <1>4, <2>1, <2>2
<1>7. XifInWb' => ex_wb_pipe'.xif_id \in committed' \ killed'
  <2> SUFFICES ASSUME XifInWb' PROVE e \in committed' \ killed'
    BY Movement
  <2>1. AcceptedInEx /\ ~KillEx /\ ExReady(in)
    BY Movement
  <2>2. CommitValid \/ commit_valid_q
    BY <2>1 DEF CommitValid, AcceptedInEx, ExReady
  <2> QED
    BY <1>5, <2>1, <2>2
<1>8. AcceptedInEx' => /\ id_ex_pipe'.xif_id \notin killed'
                       /\ commit_valid_q' => id_ex_pipe'.xif_id \in committed'
  <2>1. CASE ExReady(in)
    BY <1>6, <2>1, Movement, CommitStays
  <2>2. CASE ~ExReady(in)
    BY <1>5, <2>2, Movement, Issuing, CommitStays
  <2> QED
    BY <2>1, <2>2
<1>9. AcceptedInId' => if_id_pipe'.xif_id \notin killed'
  BY <1>6, Movement
<1> QED
  BY <1>7, <1>8, <1>9 DEF FlagsInv

LEMMA IdsStep ==
  ASSUME DirectInv, DirectBuild, NEW in, LegalCycle(in)
  PROVE  IdsInv'
<1> DEFINE iss == IssueAnswer(in)
           d == if_id_pipe.xif_id
<1>1. IdStageStep(in, iss) /\ ExStageStep(in, iss)
  BY DEF LegalCycle, Cycle, CorePipelineStep
<1>2. CoreTypeOK /\ IdsInv
  BY DEF DirectInv, CoreInv
<1> SUFFICES ASSUME if_id_pipe'.valid, id_ex_pipe'.valid, id_ex_pipe'.xif_en
             PROVE  if_id_pipe'.xif_id # id_ex_pipe'.xif_id
  BY DEF IdsInv
<1>3. ~KillId
  <2>1. KillId => IdReady(in, iss) /\ ~IfValid(in)
    BY DEF IdReady, IfValid, KillId
  <2> QED
    BY <1>1, <1>2, <2>1 DEF IdStageStep, CoreTypeOK
<1>4. CASE ~ExReady(in)
  <2>1. /\ id_ex_pipe'.valid = id_ex_pipe.valid
        /\ id_ex_pipe'.xif_en = id_ex_pipe.xif_en
        /\ id_ex_pipe'.xif_id = id_ex_pipe.xif_id
    BY <1>1, <1>2, <1>4 DEF ExStageStep, CoreTypeOK
  <2>2. if_id_pipe' = if_id_pipe
    BY <1>1, <1>3, <1>4 DEF IdStageStep, IdReady
  <2> QED
    BY <1>2, <2>1, <2>2 DEF IdsInv
<1>5. CASE ExReady(in)
  <2>1. IdValid(in, iss) /\ id_ex_pipe' = ToEx(in, iss)
    BY <1>1, <1>5 DEF ExStageStep, EmptyEx
  <2>2. id_ex_pipe'.xif_id = d /\ (Accepts(in, iss) \/ Rejects(in, iss))
    BY <2>1 DEF ToEx
  <2>3. Offloading(in)
    BY <2>2 DEF Accepts, Rejects, Offloading
  <2>4. IdReady(in, iss)
    BY <1>5, <2>1 DEF IdReady, IdValid, IdValidInstr
  <2>5. if_id_pipe'.xif_id = (d + 1) % NumIds
    BY <1>1, <1>2, <2>3, <2>4 DEF IdStageStep, NextXifId, CoreTypeOK
  <2>6. d \in 0 .. NumIds - 1 /\ NumIds \in Nat /\ NumIds >= 2
    BY <1>2, CoreConstants DEF CoreTypeOK, XifIds, DirectBuild, Direct
  <2>7. (d + 1) % NumIds # d
    <3>1. CASE d + 1 < NumIds
      BY <2>6, <3>1
    <3>2. CASE d + 1 = NumIds
      BY <2>6, <3>2
    <3> QED
      BY <2>6, <3>1, <3>2
  <2> QED
    BY <2>2, <2>5, <2>7
<1> QED
  BY <1>4, <1>5

LEMMA RotStep ==
  ASSUME DirectInv, NEW in, LegalCycle(in)
  PROVE  RotInv'
<1> DEFINE iss == IssueAnswer(in)
<1>1. IdStageStep(in, iss) /\ ExStageStep(in, iss) /\ WbStageStep(in)
  BY DEF LegalCycle, Cycle, CorePipelineStep
<1>2. CoreTypeOK /\ KindsInv /\ RotInv
  BY DEF DirectInv, CoreInv
(* A rotation that ID has finished with was accepted. *)
<1>3. if_id_pipe.insn.kind = "rot" /\ ~IdWaiting(in, iss) => ~Rejects(in, iss)
  BY <1>2 DEF Rejects, RotInv, IdWaiting, IssueAnswer, IssueReady, IssueReq, Accept,
              RotIssued
<1>4. /\ IdValid(in, iss) /\ if_id_pipe.insn.kind = "rot" => Accepts(in, iss)
  <2>1. IdValid(in, iss) /\ if_id_pipe.insn.kind = "rot"
          => Accepts(in, iss) \/ Rejects(in, iss)
    BY <1>2 DEF IdValid, IdWaiting, IssueValid, Accepts, Rejects, Offloaded, CoreTypeOK
  <2> QED
    BY <1>3, <2>1 DEF IdValid
<1>5. xif_answer' = "rejected" => if_id_pipe'.insn.kind # "rot"
  <2> SUFFICES ASSUME xif_answer' = "rejected" PROVE if_id_pipe'.insn.kind # "rot"
    OBVIOUS
  <2>1. Rejects(in, iss) /\ ~KillId /\ ~(IdValid(in, iss) /\ ExReady(in))
    BY <1>1 DEF IdStageStep
  <2>2. if_id_pipe.valid /\ ~IdWaiting(in, iss)
    BY <1>2, <2>1 DEF Rejects, IssueValid, IdValidInstr, IdWaiting, KindsInv
  <2>3. if_id_pipe' = if_id_pipe
    BY <1>1, <2>1, <2>2 DEF IdStageStep, IdReady, IdValid, IdValidInstr
  <2> QED
    BY <1>3, <2>1, <2>2, <2>3
<1>6. /\ InEx("rot")' => id_ex_pipe'.accepted
      /\ id_ex_pipe'.illegal => id_ex_pipe'.insn.kind = "illegal"
  <2>1. CASE ~ExReady(in)
    <3>1. /\ id_ex_pipe'.valid = id_ex_pipe.valid
          /\ id_ex_pipe'.insn = id_ex_pipe.insn
          /\ id_ex_pipe'.accepted = id_ex_pipe.accepted
          /\ id_ex_pipe'.illegal = id_ex_pipe.illegal
      BY <1>1, <1>2, <2>1 DEF ExStageStep, CoreTypeOK
    <3> QED
      BY <1>2, <3>1 DEF RotInv, InEx
  <2>2. CASE ExReady(in) /\ IdValid(in, iss)
    <3>1. id_ex_pipe' = ToEx(in, iss)
      BY <1>1, <2>2 DEF ExStageStep
    <3>2. /\ id_ex_pipe'.insn.kind = if_id_pipe.insn.kind
          /\ id_ex_pipe'.accepted = Accepts(in, iss)
          /\ id_ex_pipe'.illegal =
               (if_id_pipe.insn.kind \in {"rot", "illegal"} /\ ~Accepts(in, iss))
      BY <1>2, <3>1 DEF ToEx, CoreTypeOK, Insns
    <3> QED
      BY <1>4, <2>2, <3>2 DEF InEx
  <2>3. CASE ExReady(in) /\ ~IdValid(in, iss)
    BY <1>1, <2>3 DEF ExStageStep, EmptyEx, InEx
  <2> QED
    BY <2>1, <2>2, <2>3
<1>7. ex_wb_pipe'.illegal => ex_wb_pipe'.insn.kind = "illegal"
  BY <1>1, <1>2 DEF WbStageStep, ToWb, EmptyWb, RotInv
<1> QED
  BY <1>5, <1>6, <1>7 DEF RotInv

LEMMA RegimeStep ==
  ASSUME DirectInv, DirectBuild, NEW in, LegalCycle(in)
  PROVE  RegimeInv'
<1> DEFINE iss == IssueAnswer(in)
<1>1. IdStageStep(in, iss) /\ ControllerStep(in, iss)
  BY DEF LegalCycle, Cycle, CorePipelineStep
<1>2. ASSUME NeverKilled PROVE ~irq'
  BY <1>1, <1>2 DEF ControllerStep, LegalCycle, NeverKilled, DirectInv, RegimeInv
<1>3. ASSUME FastPath PROVE xif_answer' = "none"
  <2>1. xif_answer = "none"
    BY <1>3 DEF DirectInv, RegimeInv
  <2>2. Accepts(in, iss) \/ Rejects(in, iss) => IdValid(in, iss) /\ ~Halt
    BY <2>1 DEF Accepts, Rejects, IdValid, IdWaiting, IssueValid, IdValidInstr, HaltId
  <2>3. Accepts(in, iss) \/ Rejects(in, iss) => IdValid(in, iss) /\ ExReady(in)
    BY <1>3, <2>2, FastEx
  <2> QED
    BY <1>1, <2>3 DEF IdStageStep
<1> QED
  BY <1>2, <1>3 DEF RegimeInv

(* WB accepts what EX sends to the data bus in the same cycle, so that a    *)
(* load waits in EX only behind another in WB.                              *)
LEMMA LoadsStep ==
  ASSUME DirectInv, NEW in, LegalCycle(in)
  PROVE  LoadsInv'
<1> DEFINE iss == IssueAnswer(in)
<1>1. ExStageStep(in, iss) /\ WbStageStep(in) /\ LsuStep(in)
  BY DEF LegalCycle, Cycle, CorePipelineStep
<1>2. CoreTypeOK /\ LoadsInv /\ RotInv /\ ~WbWaiting(in) /\ (in.resp => cnt_q > 0)
      /\ in.resp \in BOOLEAN
  BY WbLeaves DEF DirectInv, CoreInv, LegalCycle, CoreInputs
<1>3. cnt_q' = cnt_q + One(CountUp(in)) - One(in.resp)
  BY <1>1 DEF LsuStep, One
(* What the next state of EX and of WB holds of loads. *)
<1>4. ExReady(in) => ~id_ex_pipe'.sent
  BY <1>1 DEF ExStageStep, ToEx, EmptyEx
<1>5. ~ExReady(in) => /\ id_ex_pipe'.sent = (id_ex_pipe.sent \/ CountUp(in))
                      /\ InEx("load")' = InEx("load")
  BY <1>1, <1>2 DEF ExStageStep, CoreTypeOK, InEx
<1>6. /\ WbReady(in) => (InWb("load")' <=> ExValid(in) /\ LoadInEx)
      /\ ~WbReady(in) => InWb("load")' = InWb("load")
  BY <1>1 DEF WbStageStep, ToWb, EmptyWb, InWb, ExValid, LoadInEx, ExValidInstr
<1>7. LoadInEx => ~KillEx /\ ~Halt /\ InEx("load") /\ ~DivBusy(in)
  BY DEF LoadInEx, ExValidInstr, InEx, DivBusy
<1>8. LoadInEx => (ExValid(in) <=> AddressDone(in))
  BY <1>7 DEF LoadInEx, ExValid
<1>9. LoadInEx => (ExReady(in) <=> WbReady(in) /\ AddressDone(in))
  BY <1>7 DEF ExReady, LsuDone0
<1>10. CountUp(in) => LoadInEx /\ cnt_q < 2 /\ AddressDone(in)
  BY DEF CountUp, TransValid, AddressDone
<1>11. LoadInEx /\ ~CountUp(in) => (AddressDone(in) <=> cnt_q = 2)
  BY <1>2 DEF AddressDone, CoreTypeOK
<1>12. CASE ~InWb("load")
  <2>1. cnt_q = 0 /\ ~id_ex_pipe.sent /\ ~in.resp
    BY <1>2, <1>12 DEF LoadsInv, One
  <2>2. LoadInEx => WbReady(in)
    BY <1>2, <1>7, <2>1 DEF WbReady, LsuReady1, HaltWb, Halt
  <2>3. InWb("load")' <=> CountUp(in)
    BY <1>6, <1>8, <1>10, <1>11, <1>12, <2>1, <2>2
  <2>4. ~id_ex_pipe'.sent
    <3>1. CASE ~ExReady(in)
      BY <1>5, <1>9, <1>10, <2>1, <2>2, <3>1
    <3> QED
      BY <1>4, <3>1
  <2>5. cnt_q' = One(CountUp(in))
    BY <1>3, <2>1 DEF One
  <2>6. ~lsu_valid_q'
    BY <1>1, <1>2, <2>1 DEF WbStageStep, LoadsInv
  <2> QED
    BY <2>3, <2>4, <2>5, <2>6 DEF LoadsInv, One
<1>13. CASE InWb("load")
  <2>1. cnt_q = 1 + One(id_ex_pipe.sent)
    BY <1>2, <1>13 DEF LoadsInv, One
  <2>2. Decision \in {"go", "branch"}
    <3>1. ~(irq /\ InterruptAllowed)
      BY <2>1 DEF InterruptAllowed, LsuInterruptible, One
    <3>2. ~ex_wb_pipe.illegal /\ ~InWb("fence")
      BY <1>2, <1>13 DEF RotInv, InWb
    <3> QED
      BY <3>1, <3>2, Decisions
  <2>3. ~KillEx /\ ~KillWb /\ ~Halt /\ ~HaltWb
    BY <2>2 DEF KillEx, KillWb, Halt, HaltWb
  <2>4. WbReady(in) <=> in.resp
    BY <1>2, <2>1, <2>3 DEF WbReady, LsuReady1, One
  <2>5. LoadInEx <=> InEx("load")
    BY <2>3 DEF LoadInEx, InEx, ExValidInstr
  <2>6. id_ex_pipe.sent => InEx("load") /\ cnt_q = 2 /\ ~CountUp(in)
    BY <1>2, <1>10, <2>1 DEF LoadsInv, One
  <2>7. ~lsu_valid_q'
    BY <1>1, <1>2, <1>13, <2>3 DEF WbStageStep, LoadsInv, WbValid, InWb
  <2>8. CASE in.resp
    <3>1. InWb("load")' <=> InEx("load") /\ AddressDone(in)
      BY <1>6, <1>8, <2>4, <2>5, <2>8
    <3>2. ~id_ex_pipe'.sent
      BY <1>4, <1>5, <1>9, <1>10, <1>11, <2>4, <2>5, <2>6, <2>8
    <3>3. One(InEx("load") /\ AddressDone(in)) = One(CountUp(in)) + One(id_ex_pipe.sent)
      BY <1>10, <1>11, <2>1, <2>5, <2>6 DEF One
    <3>4. cnt_q' = One(CountUp(in)) + One(id_ex_pipe.sent)
      BY <1>3, <2>1, <2>8 DEF One
    <3> QED
      BY <2>7, <3>1, <3>2, <3>3, <3>4 DEF LoadsInv, One
  <2>9. CASE ~in.resp
    <3>1. ~WbReady(in) /\ ~ExReady(in)
      BY <2>3, <2>4, <2>9 DEF ExReady
    <3>2. /\ InWb("load")' /\ InEx("load")' = InEx("load")
          /\ id_ex_pipe'.sent = (id_ex_pipe.sent \/ CountUp(in))
      BY <1>5, <1>6, <1>13, <3>1
    <3>3. cnt_q' = cnt_q + One(CountUp(in))
      BY <1>2, <1>3, <2>9 DEF One, CoreTypeOK
    <3>4. cnt_q' = 1 + One(id_ex_pipe.sent \/ CountUp(in))
      BY <2>1, <2>6, <3>3 DEF One
    <3>5. CountUp(in) => InEx("load")
      BY <1>10, <2>5
    <3> QED
      BY <2>6, <2>7, <3>2, <3>4, <3>5 DEF LoadsInv, One
  <2> QED
    BY <2>8, <2>9
<1> QED
  BY <1>12, <1>13

-----------------------------------------------------------------------------

LEMMA InitDirect == Direct /\ Init => DirectInv
<1> SUFFICES ASSUME Direct, Init PROVE DirectInv
  OBVIOUS
<1>1. CoreInv /\ IInv
  BY InitCore, InitCredits DEF Init
<1>2. capture = NoEntry /\ CurTag = NoEntry /\ Occupancy = 0
  BY OneStage DEF Init, CoprocInit, CurTag, Occupancy
<1>3. ~XifInWb /\ ~AcceptedInEx /\ ~AcceptedInId
  BY DEF Init, CoreInit, XifInWb, AcceptedInEx, AcceptedInId, EmptyEx, EmptyWb
<1>4. HoldInv
  BY <1>2, <1>3 DEF HoldInv, HeldInOrder, NumPending, One
<1>5. RoomInv /\ FlagsInv
  BY <1>3 DEF RoomInv, FlagsInv
<1>6. IdsInv /\ LoadsInv /\ RotInv /\ RegimeInv
  BY DEF Init, CoreInit, EmptyId, EmptyEx, EmptyWb, IdsInv, LoadsInv, RotInv, RegimeInv,
         InEx, InWb, One
<1> QED
  BY <1>1, <1>2, <1>4, <1>5, <1>6 DEF DirectInv

LEMMA StutterDirect == DirectInv /\ UNCHANGED vars => DirectInv'
<1> SUFFICES ASSUME DirectInv, UNCHANGED vars PROVE DirectInv'
  OBVIOUS
<1>1. UNCHANGED coreVars /\ UNCHANGED coprocVars
  BY DEF vars
<1>2. CoreInv' /\ IInv'
  BY StutterCore, StutterCredits DEF DirectInv, vars
<1>3. XifInWb' = XifInWb /\ AcceptedInEx' = AcceptedInEx /\ AcceptedInId' = AcceptedInId
  BY <1>1 DEF coreVars, XifInWb, AcceptedInEx, AcceptedInId
<1>4. /\ Occupancy' = Occupancy /\ CurTag' = CurTag
      /\ InFifo(0)' = InFifo(0) /\ InFifo(1)' = InFifo(1)
  BY <1>1 DEF coprocVars, Occupancy, CurTag, InFifo, PtrAfter, Slot
<1>5. NumPending' = NumPending /\ OldestId' = OldestId /\ YoungestId' = YoungestId
  BY <1>1, <1>3 DEF coreVars, NumPending, OldestId, YoungestId, One
<1>6. HoldInv'
  BY <1>1, <1>3, <1>4, <1>5
     DEF coprocVars, coreVars, DirectInv, HoldInv, HeldInOrder, Draining, One
<1>7. RoomInv' /\ FlagsInv'
  BY <1>1, <1>3 DEF coprocVars, coreVars, DirectInv, RoomInv, FlagsInv
<1>8. IdsInv' /\ LoadsInv' /\ RotInv' /\ RegimeInv'
  BY <1>1 DEF coreVars, DirectInv, IdsInv, LoadsInv, RotInv, RegimeInv, InEx, InWb, One
<1> QED
  BY <1>1, <1>2, <1>6, <1>7, <1>8 DEF coprocVars, DirectInv

LEMMA DirectStep ==
  ASSUME DirectBuild, DirectInv, [Next]_vars
  PROVE  DirectInv'
<1>1. CASE UNCHANGED vars
  BY <1>1, StutterDirect
<1>2. CASE Next
  <2>1. PICK in \in CoreInputs : LegalCycle(in)
    BY <1>2, NextIsCycle DEF LegalCycle
  <2>2. CoreInv'
    BY <2>1, TypesStep, KindsStep, CommittedStep DEF LegalCycle, DirectInv, CoreInv
  <2> QED
    BY <2>1, <2>2, CoprocMoves, HoldStep, RoomStep, FlagsKept, IdsStep, LoadsStep, RotStep,
       RegimeStep DEF DirectInv, DirectBuild
<1> QED
  BY <1>1, <1>2

(* In this build the coprocessor and the pipeline agree in every cycle on   *)
(* the rotations that are under way.                                        *)
THEOREM DirectInvariant == ASSUME DirectBuild PROVE Spec => []DirectInv
<1>1. Init => DirectInv
  BY InitDirect DEF DirectBuild
<1>2. DirectInv /\ [Next]_vars => DirectInv'
  BY DirectStep
<1> QED
  BY <1>1, <1>2, PTL DEF Spec

(* WB never waits for a rotation: its result is at the head of the FIFO,    *)
(* committed, in the cycle in which the rotation reaches WB.                *)
THEOREM NeverStallsWb == ASSUME DirectBuild PROVE Spec => []ZeroWbStall
<1>1. DirectInv => ZeroWbStall
  BY NoWait DEF ZeroWbStall
<1> QED
  BY <1>1, DirectInvariant, PTL

(* No load is put on the data bus twice.                                    *)
THEOREM LoadsOnce == ASSUME DirectBuild PROVE Spec => []OneTransaction
<1>1. ASSUME DirectInv PROVE OneTransaction
  BY <1>1 DEF DirectInv, LoadsInv, OneTransaction, TransValid, One
<1> QED
  BY <1>1, DirectInvariant, PTL

(* The head of the FIFO is the oldest, everything behind it the youngest.   *)
LEMMA PlacesInOrder ==
  ASSUME DirectInv, Direct, HeldInOrder, NEW p \in Held
  PROVE  /\ NumPending >= 1
         /\ IF p = 0 THEN Content(p).id = OldestId
                     ELSE Content(p).id = YoungestId /\ (AcceptedInEx \/ AcceptedInId)
<1>1. Latency = 1 /\ Stages = {1} /\ StagePlace(1) = FifoDepth
      /\ CapturePlace = FifoDepth + 1 /\ FifoDepth \in Nat /\ FifoDepth >= 1
  BY OneStage, Parameters DEF Direct, StagePlace, CapturePlace
<1>2. p \in 0 .. FifoDepth + 1
  BY <1>1, HeldPlaces DEF PlaceByPlace
<1>3. NumPending \in 0 .. 2 /\ Occupancy \in Nat
      /\ Occupancy + One(CurTag # NoEntry) = NumPending
  BY AtMostTwo DEF HeldInOrder
<1>4. CASE p < FifoDepth
  <2>1. p < Occupancy /\ Content(p) = InFifo(p)
    BY <1>1, <1>2, <1>4, HeldPlaces DEF PlaceByPlace, Content
  <2>2. NumPending >= 1 /\ (p = 0 \/ (p = 1 /\ NumPending = 2 /\ Occupancy = 2))
    BY <1>2, <1>3, <2>1 DEF One
  <2>3. NumPending = 2 => AcceptedInEx \/ AcceptedInId
    BY DEF NumPending, One
  <2>4. p = 0 => Occupancy >= 1
    BY <1>3, <2>1
  <2>5. p = 0 => Content(p).id = OldestId
    BY <2>1, <2>4 DEF HeldInOrder
  <2>6. p # 0 => Content(p).id = YoungestId /\ (AcceptedInEx \/ AcceptedInId)
    BY <2>1, <2>2, <2>3 DEF HeldInOrder
  <2> QED
    BY <2>2, <2>5, <2>6
<1>5. CASE p = FifoDepth
  <2>1. StagePlace(p) = 1
    BY <1>1, <1>5 DEF StagePlace
  <2>2. CurTag # NoEntry /\ Content(p).id = CurTag
    BY <1>1, <1>2, <1>5, <2>1, HeldPlaces DEF PlaceByPlace, Content, InStage, CurTag
  <2> QED
    BY <1>1, <1>3, <1>5, <2>2 DEF HeldInOrder, One
<1>6. CASE p = FifoDepth + 1
  BY <1>1, <1>6, HeldPlaces DEF PlaceByPlace, DirectInv
<1> QED
  BY <1>1, <1>2, <1>4, <1>5, <1>6

(* Whatever the coprocessor holds for a rotation that was not killed, the   *)
(* core still has that rotation in its pipeline and will ask for it.        *)
THEOREM NothingOrphaned == ASSUME DirectBuild PROVE Spec => []NoOrphan
<1>1. ASSUME DirectInv PROVE NoOrphan
  <2>2. ASSUME NEW p \in Live
        PROVE  Content(p).id \in {OldestId, YoungestId} /\ NumPending >= 1
    <3>1. p \in Held /\ Content(p).id \notin killed
      BY DEF Live
    <3>2. HeldInOrder
      <4>1. Draining => p = 0 /\ Content(p) = InFifo(0)
        <5>1. /\ Latency = 1 /\ CapturePlace = FifoDepth + 1 /\ FifoDepth \in Nat
              /\ FifoDepth >= 1 /\ StagePlace(FifoDepth) = 1
          BY OneStage, Parameters DEF DirectBuild, Direct, StagePlace, CapturePlace
        <5>2. p \in 0 .. FifoDepth + 1
          BY <3>1, <5>1, HeldPlaces DEF PlaceByPlace
        <5> QED
          BY <1>1, <3>1, <5>1, <5>2, HeldPlaces
             DEF Draining, PlaceByPlace, Content, CurTag, DirectInv
      <4> QED
        BY <1>1, <3>1, <4>1 DEF DirectInv, HoldInv, Draining
    <3> QED
      BY <1>1, <3>1, <3>2, PlacesInOrder DEF DirectBuild
  <2>3. ASSUME NumPending >= 1, NEW id \in {OldestId, YoungestId}
        PROVE  \E j \in DOMAIN Pending : Pending[j].id = id
    <3>1. /\ XifInWb => \E j \in DOMAIN Pending : Pending[j].id = ex_wb_pipe.xif_id
          /\ AcceptedInEx => \E j \in DOMAIN Pending : Pending[j].id = id_ex_pipe.xif_id
          /\ AcceptedInId => \E j \in DOMAIN Pending : Pending[j].id = if_id_pipe.xif_id
      <4> DEFINE R == {Offload(ex_wb_pipe.xif_id, ex_wb_pipe.insn, TRUE),
                       Offload(id_ex_pipe.xif_id, id_ex_pipe.insn, commit_valid_q),
                       Offload(if_id_pipe.xif_id, if_id_pipe.insn, FALSE)}
                 w == IF XifInWb THEN <<Offload(ex_wb_pipe.xif_id, ex_wb_pipe.insn, TRUE)>>
                      ELSE <<>>
                 e == IF AcceptedInEx
                      THEN <<Offload(id_ex_pipe.xif_id, id_ex_pipe.insn, commit_valid_q)>>
                      ELSE <<>>
                 d == IF AcceptedInId
                      THEN <<Offload(if_id_pipe.xif_id, if_id_pipe.insn, FALSE)>> ELSE <<>>
      <4>1. /\ w \in Seq(R) /\ e \in Seq(R) /\ d \in Seq(R)
            /\ Len(w) \in {0, 1} /\ Len(e) \in {0, 1} /\ Len(d) \in {0, 1}
        <5>1. /\ Offload(ex_wb_pipe.xif_id, ex_wb_pipe.insn, TRUE) \in R
              /\ Offload(id_ex_pipe.xif_id, id_ex_pipe.insn, commit_valid_q) \in R
              /\ Offload(if_id_pipe.xif_id, if_id_pipe.insn, FALSE) \in R
          OBVIOUS
        <5> HIDE DEF R
        <5>2. \A r \in R : <<r>> \in Seq(R) /\ Len(<<r>>) = 1
          OBVIOUS
        <5>3. <<>> \in Seq(R) /\ Len(<<>>) = 0
          OBVIOUS
        <5> QED
          BY <5>1, <5>2, <5>3
      <4>2. /\ XifInWb => Len(w) = 1 /\ w[1].id = ex_wb_pipe.xif_id
            /\ AcceptedInEx => Len(e) = 1 /\ e[1].id = id_ex_pipe.xif_id
            /\ AcceptedInId => Len(d) = 1 /\ d[1].id = if_id_pipe.xif_id
        BY DEF Offload
      <4>3. Pending = (w \o e) \o d
        BY DEF Pending, AcceptedInId
      <4> HIDE DEF R, w, e, d
      <4>4. /\ XifInWb => 1 \in DOMAIN Pending /\ Pending[1] = w[1]
            /\ AcceptedInEx => Len(w) + 1 \in DOMAIN Pending /\ Pending[Len(w) + 1] = e[1]
            /\ AcceptedInId => /\ Len(w) + Len(e) + 1 \in DOMAIN Pending
                               /\ Pending[Len(w) + Len(e) + 1] = d[1]
        BY <4>1, <4>2, <4>3
      <4> QED
        BY <4>2, <4>4
    <3>2. XifInWb \/ AcceptedInEx \/ AcceptedInId
      BY <2>3 DEF NumPending, One
    <3> QED
      BY <3>1, <3>2 DEF OldestId, YoungestId
  <2> QED
    BY <2>2, <2>3 DEF NoOrphan
<1> QED
  BY <1>1, DirectInvariant, PTL

-----------------------------------------------------------------------------
(* On the fast path a rotation is accepted in the cycle in which it leaves  *)
(* ID.  The core then learns in time that it writes a register, stalls what *)
(* depends on it, and so hands over operands that are finished.             *)

FastBuild == Direct /\ FastPath

LoadsWrite == InEx("load") => id_ex_pipe.rf_we

WritesInv == DirectInv /\ AlwaysWritesRd /\ LoadsWrite

(* What moves on takes its instruction and its write enable along. *)
LEMMA FastMoves ==
  ASSUME DirectInv, FastBuild, NEW in, LegalCycle(in)
  PROVE  /\ XifInWb' => /\ ex_wb_pipe'.rf_we = id_ex_pipe.rf_we
                        /\ ex_wb_pipe'.insn = id_ex_pipe.insn
         /\ AcceptedInEx' =>
              IF ExReady(in)
              THEN /\ AcceptedNow(in) /\ id_ex_pipe'.rf_we
                   /\ id_ex_pipe'.insn.rs1 = if_id_pipe.insn.rs1
              ELSE /\ id_ex_pipe'.rf_we = id_ex_pipe.rf_we
                   /\ id_ex_pipe'.insn = id_ex_pipe.insn
<1> DEFINE iss == IssueAnswer(in)
<1>1. /\ ExStageStep(in, iss) /\ WbStageStep(in)
  BY DEF LegalCycle, Cycle, CorePipelineStep
<1>2. CoreTypeOK /\ xif_answer = "none"
  BY DEF DirectInv, CoreInv, RegimeInv, FastBuild
<1>3. XifInWb' => /\ ex_wb_pipe'.rf_we = id_ex_pipe.rf_we
                  /\ ex_wb_pipe'.insn = id_ex_pipe.insn
  BY <1>1, WbLeaves DEF WbStageStep, XifInWb, ToWb, EmptyWb
<1>4. ASSUME AcceptedInEx', ExReady(in)
      PROVE  /\ AcceptedNow(in) /\ id_ex_pipe'.rf_we
             /\ id_ex_pipe'.insn.rs1 = if_id_pipe.insn.rs1
  <2>1. OutOfId(in) /\ AcceptedNow(in)
    BY <1>2, <1>4, Movement, Issuing DEF AcceptedInId
  <2>2. id_ex_pipe' = ToEx(in, iss)
    BY <1>1, <2>1 DEF ExStageStep, OutOfId
  <2>3. XifWe(in, iss)
    BY <2>1, Issuing DEF XifWe, IssueAnswer, AcceptedNow
  <2> QED
    BY <1>2, <2>1, <2>2, <2>3 DEF ToEx, CoreTypeOK, Insns
<1>5. ASSUME ~ExReady(in)
      PROVE  /\ id_ex_pipe'.rf_we = id_ex_pipe.rf_we
             /\ id_ex_pipe'.insn = id_ex_pipe.insn
  BY <1>1, <1>2, <1>5 DEF ExStageStep, CoreTypeOK
<1> QED
  BY <1>3, <1>4, <1>5

LEMMA WritesStep ==
  ASSUME WritesInv, FastBuild, NEW in, LegalCycle(in)
  PROVE  AlwaysWritesRd' /\ LoadsWrite'
<1>1. AlwaysWritesRd'
  BY FastMoves, Movement DEF AlwaysWritesRd, WritesInv
<1>2. LoadsWrite'
  <2>1. ExStageStep(in, IssueAnswer(in)) /\ CoreTypeOK
    BY DEF LegalCycle, Cycle, CorePipelineStep, WritesInv, DirectInv, CoreInv
  <2>2. CASE ~ExReady(in)
    <3>1. /\ id_ex_pipe'.valid = id_ex_pipe.valid
          /\ id_ex_pipe'.insn = id_ex_pipe.insn
          /\ id_ex_pipe'.rf_we = id_ex_pipe.rf_we
      BY <2>1, <2>2 DEF ExStageStep, CoreTypeOK
    <3> QED
      BY <3>1 DEF WritesInv, LoadsWrite, InEx
  <2>3. CASE ExReady(in)
    <3>1. /\ ToEx(in, IssueAnswer(in)).insn.kind = if_id_pipe.insn.kind
          /\ if_id_pipe.insn.kind = "load" => ToEx(in, IssueAnswer(in)).rf_we
      BY <2>1 DEF ToEx, RfWe, CoreTypeOK, Insns
    <3>2. id_ex_pipe' \in {ToEx(in, IssueAnswer(in)), EmptyEx}
      BY <2>1, <2>3 DEF ExStageStep
    <3> QED
      BY <3>1, <3>2 DEF EmptyEx, LoadsWrite, InEx
  <2> QED
    BY <2>2, <2>3
<1> QED
  BY <1>1, <1>2

LEMMA WritesInvariant == ASSUME FastBuild PROVE Spec => []WritesInv
<1>1. DirectBuild
  BY DEF FastBuild, DirectBuild
<1>2. Init => AlwaysWritesRd /\ LoadsWrite
  BY DEF Init, CoreInit, EmptyEx, EmptyWb, AlwaysWritesRd, LoadsWrite, AcceptedInEx,
         XifInWb, InEx
<1>3. ASSUME WritesInv, [Next]_vars PROVE AlwaysWritesRd' /\ LoadsWrite'
  <2>1. CASE UNCHANGED vars
    BY <1>3, <2>1 DEF WritesInv, vars, coreVars, AlwaysWritesRd, LoadsWrite, AcceptedInEx,
                      XifInWb, InEx
  <2>2. CASE Next
    BY <1>3, <2>2, NextIsCycle, WritesStep DEF LegalCycle
  <2> QED
    BY <1>3, <2>1, <2>2
<1>4. DirectInv /\ (AlwaysWritesRd /\ LoadsWrite) /\ [Next]_vars
        => (AlwaysWritesRd /\ LoadsWrite)'
  BY <1>3 DEF WritesInv
<1>5. WritesInv <=> DirectInv /\ (AlwaysWritesRd /\ LoadsWrite)
  BY DEF WritesInv
<1> QED
  BY <1>1, <1>2, <1>4, <1>5, DirectInvariant, PTL DEF Spec

(* A rotation that was accepted writes rd. *)
THEOREM RotationsWrite == ASSUME FastBuild PROVE Spec => []AlwaysWritesRd
<1>1. WritesInv => AlwaysWritesRd
  BY DEF WritesInv
<1> QED
  BY <1>1, WritesInvariant, PTL

-----------------------------------------------------------------------------
(* All rotations of this system have the position 0 and the pair 0.  What   *)
(* follows holds if the prefetch compares them with its own, or if there is *)
(* only one pair.                                                           *)

Agreeing == UseValueCheck \/ NumPairs = 1

PhaseInv ==
  /\ m_q = 0
  /\ recover_q => i_q = 0
  /\ ~desync_q /\ ~recover_q => theta_q = i_q

OwnData(insn) == Rotation(OperandsOf(insn, insn.rs1))
OwnEntry(id, insn) == [id |-> id, data |-> OwnData(insn)]

DataInv ==
  /\ XifInWb => InFifo(0) = OwnEntry(ex_wb_pipe.xif_id, ex_wb_pipe.insn)
  /\ AcceptedInEx => IF CurTag # NoEntry
                     THEN ResData = OwnData(id_ex_pipe.insn)
                     ELSE /\ ~XifInWb
                          /\ InFifo(0) = OwnEntry(id_ex_pipe.xif_id, id_ex_pipe.insn)

OwnInv == WritesInv /\ PhaseInv /\ DataInv

(* An instruction is not offered with an operand that is not finished. *)
LEMMA FreshOperand ==
  ASSUME WritesInv, FastBuild, NEW in, LegalCycle(in), IssueValid(in)
  PROVE  Rs1(in) = if_id_pipe.insn.rs1
<1>1. DirectInv /\ CoreTypeOK /\ KindsInv
  BY DEF WritesInv, DirectInv, CoreInv
<1>2. IdValidInstr(in)
  BY DEF IssueValid
<1>3. ~LoadStall(in) /\ ~Halt /\ ~KillEx
  BY <1>2 DEF IdValidInstr, HaltId, KillId, KillIf, KillEx
<1>4. ExReady(in) /\ WbReady(in) /\ ~DivBusy(in)
  BY <1>1, <1>3, FastEx DEF FastBuild, ExReady
<1>5. if_id_pipe.valid
  BY <1>2 DEF IdValidInstr
<1>6. if_id_pipe.insn.dep => ~Unfinished(in)
  BY <1>1, <1>3, <1>4, <1>5
     DEF Unfinished, LoadStall, KindsInv, WritesInv, AlwaysWritesRd, LoadsWrite, InEx,
         AcceptedInEx
<1> QED
  BY <1>6 DEF Rs1

(* It is computed by its own position and pair. *)
LEMMA OwnPhase ==
  ASSUME OwnInv, FastBuild, Agreeing, NEW in, LegalCycle(in), AcceptedNow(in)
  PROVE  DpData(IssueReq(in)) = OwnData(if_id_pipe.insn)
<1>1. IssueReq(in).op = [x |-> if_id_pipe.insn.rs1, m |-> 0, i |-> 0]
  BY FreshOperand, Issuing DEF IssueReq, OperandsOf, OwnInv, WritesInv
<1>2. ~NeedResync(TRUE, IssueReq(in).op) /\ UsePrefetch
  BY DEF AcceptedNow, Accept, CanTake, RotIssued, NeedResync, FastBuild, Direct
<1>3. i_q \in 0 .. NumPairs - 1
  BY DEF OwnInv, WritesInv, DirectInv, IInv, CoprocTypeOK, PrefetchTypeOK, Pairs
<1>4. recover_q \/ (~desync_q /\ ~ValueMismatch(IssueReq(in).op))
  BY <1>2 DEF NeedResync
<1>5. m_q = 0 /\ ThetaSel = 0
  BY <1>1, <1>3, <1>4 DEF OwnInv, PhaseInv, ThetaSel, ValueMismatch, Agreeing
<1> QED
  BY <1>1, <1>2, <1>5 DEF DpData, OwnData, Rotation, OperandsOf

LEMMA PhaseStep ==
  ASSUME PhaseInv, UsePrefetch, NEW in, Cycle(in)
  PROVE  PhaseInv'
<1> DEFINE req == IssueReq(in)
<1>1. PrefetchStep(RotIssued(req), req.op, Accept(req), KillSeen(Commit))
  BY DEF Cycle, CoprocStep
<1>2. req.op.m = 0 /\ req.op.i = 0
  BY DEF IssueReq, OperandsOf
<1> HIDE DEF req
<1> QED
  BY <1>1, <1>2 DEF PrefetchStep, Resync, Advance, PhaseInv

LEMMA DataStep ==
  ASSUME OwnInv, FastBuild, Agreeing, NEW in, LegalCycle(in)
  PROVE  DataInv'
<1> DEFINE req == IssueReq(in)
           push == FifoPush(Commit)
           pop == FifoPop(ResultReady)
<1>1. DirectInv /\ Direct /\ FastPath
  BY DEF OwnInv, WritesInv, FastBuild
<1>2. CoprocStep(req, Commit, ResultReady)
  BY DEF LegalCycle, Cycle
<1>3. /\ req \in Requests /\ Commit \in Commits /\ ResultReady \in BOOLEAN
      /\ IInv /\ IInv'
  BY <1>1, ChannelTypes, CoprocMoves DEF DirectInv, CoreInv
<1>4. /\ Occupancy \in 0 .. FifoDepth /\ FifoDepth >= 1 /\ FifoDepth \in Nat
      /\ \A m, n \in 0 .. FifoDepth - 1 :
           n < Occupancy /\ m = n - One(pop) => InFifo(m)' = InFifo(n)
      /\ \A m \in 0 .. FifoDepth - 1 :
           push /\ m = Occupancy - One(pop)
             => InFifo(m)' = [id |-> CurTag, data |-> ResData]
  BY <1>2, <1>3, FifoEntries, Parameters
<1>5. ~AcceptedInId
  BY <1>1 DEF DirectInv, RegimeInv, AcceptedInId
(* The rotation in EX, with what the coprocessor holds for it. *)
<1>6. ASSUME AcceptedInEx, ~KillEx
      PROVE  InFifo(0)' = OwnEntry(id_ex_pipe.xif_id, id_ex_pipe.insn)
  <2>1. HeldInOrder
    BY <1>1, <1>6, AtMostTwo DEF DirectInv, HoldInv, Draining
  <2>2. (push <=> CurTag # NoEntry) /\ (pop <=> XifInWb)
    BY <1>1, <1>6, <2>1, NothingRetired
  <2>3. Occupancy + One(CurTag # NoEntry) = One(XifInWb) + 1
    BY <1>5, <1>6, <2>1 DEF HeldInOrder, NumPending, One
  <2> HIDE DEF push, pop
  <2>4. CASE CurTag # NoEntry
    <3>1. push /\ 0 = Occupancy - One(pop) /\ ResData = OwnData(id_ex_pipe.insn)
      BY <1>4, <1>6, <2>2, <2>3, <2>4 DEF One, OwnInv, DataInv
    <3>3. CurTag = id_ex_pipe.xif_id
      BY <1>5, <1>6, <2>1, <2>4 DEF HeldInOrder, YoungestId
    <3>2. InFifo(0)' = [id |-> CurTag, data |-> ResData]
      BY <1>4, <3>1
    <3> QED
      BY <3>1, <3>2, <3>3 DEF OwnEntry
  <2>5. CASE CurTag = NoEntry
    <3>1. /\ ~pop /\ Occupancy = 1
          /\ InFifo(0) = OwnEntry(id_ex_pipe.xif_id, id_ex_pipe.insn)
      BY <1>4, <1>6, <2>2, <2>3, <2>5 DEF One, OwnInv, DataInv
    <3>2. InFifo(0)' = InFifo(0)
      BY <1>4, <3>1 DEF One
    <3> QED
      BY <3>1, <3>2
  <2> QED
    BY <2>4, <2>5
<1>7. XifInWb' => InFifo(0)' = OwnEntry(ex_wb_pipe'.xif_id, ex_wb_pipe'.insn)
  BY <1>1, <1>6, Movement, FastMoves
<1>8. ASSUME AcceptedInEx'
      PROVE  IF CurTag' # NoEntry
             THEN ResData' = OwnData(id_ex_pipe'.insn)
             ELSE /\ ~XifInWb'
                  /\ InFifo(0)' = OwnEntry(id_ex_pipe'.xif_id, id_ex_pipe'.insn)
  <2>1. CASE ExReady(in)
    <3>1. AcceptedNow(in) /\ id_ex_pipe'.insn.rs1 = if_id_pipe.insn.rs1
      BY <1>1, <1>8, <2>1, FastMoves
    <3>2. CurTag' # NoEntry
      BY <1>1, <3>1, CoprocMoves
    <3>3. ResData' = DpData(req)
      <4>1. UsePrefetch /\ 1 \in Stages /\ Latency = 1
        BY <1>1, OneStage DEF Direct
      <4> QED
        BY <1>2, <3>1, <4>1, PipeStages DEF ResData, DpValid, AcceptedNow
    <3>4. OwnData(id_ex_pipe'.insn) = OwnData(if_id_pipe.insn)
      BY <3>1 DEF OwnData, OperandsOf
    <3> QED
      BY <3>1, <3>2, <3>3, <3>4, OwnPhase
  <2>2. CASE ~ExReady(in)
    <3>1. AcceptedInEx /\ id_ex_pipe'.insn = id_ex_pipe.insn /\ ~KillEx
      BY <1>1, <1>8, <2>2, Movement, FastMoves, Issuing
    <3>2. ~XifInWb'
      BY <1>1, <2>2, Movement
    <3>3. ~AcceptedNow(in)
      <4>1. ~ExReady(in) => Halt
        BY <1>1, FastEx
      <4> QED
        BY <1>1, <2>2, <4>1, Issuing DEF IdValidInstr, HaltId
    <3>4. CurTag' = NoEntry
      BY <1>1, <3>3, CoprocMoves
    <3> QED
      BY <1>1, <1>6, <1>8, <2>2, <3>1, <3>2, <3>4, Movement
  <2> QED
    BY <2>1, <2>2
<1> QED
  BY <1>7, <1>8 DEF DataInv

(* What WB is handed is the rotation of its own instruction, by the operand *)
(* that its program gave it.                                                *)
THEOREM ResultsAreOwn ==
  ASSUME FastBuild, Agreeing
  PROVE  Spec => []OwnResult
<1>1. DirectBuild
  BY DEF FastBuild, DirectBuild
<1>2. Init => AlwaysWritesRd /\ LoadsWrite /\ PhaseInv /\ DataInv
  BY DEF Init, CoreInit, EmptyEx, EmptyWb, AlwaysWritesRd, LoadsWrite, AcceptedInEx,
         XifInWb, InEx, PhaseInv, DataInv, CoprocInit, PrefetchInit
<1>3. ASSUME OwnInv, [Next]_vars
      PROVE  AlwaysWritesRd' /\ LoadsWrite' /\ PhaseInv' /\ DataInv'
  <2>1. CASE UNCHANGED vars
    <3>1. UNCHANGED coreVars /\ UNCHANGED coprocVars /\ UNCHANGED prefetchVars
      BY <2>1 DEF vars
    <3>2. AlwaysWritesRd' /\ LoadsWrite' /\ PhaseInv'
      BY <1>3, <3>1 DEF OwnInv, WritesInv, PhaseInv, coreVars, prefetchVars,
         AlwaysWritesRd, LoadsWrite, AcceptedInEx, XifInWb, InEx
    <3>3. /\ CurTag' = CurTag /\ ResData' = ResData /\ InFifo(0)' = InFifo(0)
          /\ AcceptedInEx' = AcceptedInEx /\ XifInWb' = XifInWb
          /\ ex_wb_pipe' = ex_wb_pipe /\ id_ex_pipe' = id_ex_pipe
      BY <3>1 DEF coprocVars, coreVars, CurTag, ResData, InFifo, PtrAfter, Slot,
                  AcceptedInEx, XifInWb
    <3>4. DataInv'
      BY <1>3, <3>3 DEF OwnInv, DataInv
    <3> QED
      BY <3>2, <3>4
  <2>2. CASE Next
    <3>1. PICK in \in CoreInputs : LegalCycle(in)
      BY <2>2, NextIsCycle DEF LegalCycle
    <3>2. PhaseInv'
      BY <1>3, <3>1, PhaseStep DEF OwnInv, LegalCycle, FastBuild, Direct
    <3> QED
      BY <1>3, <3>1, <3>2, WritesStep, DataStep DEF OwnInv
  <2> QED
    BY <1>3, <2>1, <2>2
<1>4. DirectInv /\ (AlwaysWritesRd /\ LoadsWrite /\ PhaseInv /\ DataInv) /\ [Next]_vars
        => (AlwaysWritesRd /\ LoadsWrite /\ PhaseInv /\ DataInv)'
  BY <1>3 DEF OwnInv, WritesInv
<1>5. ASSUME DirectInv, DataInv PROVE OwnResult
  BY <1>5, HeadOfFifo DEF OwnResult, DataInv, OwnEntry, OwnData, DirectInv
<1> QED
  BY <1>1, <1>2, <1>4, <1>5, DirectInvariant, PTL DEF Spec

-----------------------------------------------------------------------------
(* The core keeps to the protocol of RopeXifProtocol.  That module speaks   *)
(* of the same coprocessor.                                                 *)

LEMMA SameCoproc ==
  /\ Protocol!CoprocInit <=> CoprocInit
  /\ \A req, com, rdy : Protocol!CoprocStep(req, com, rdy) <=> CoprocStep(req, com, rdy)
<1>1. Protocol!Latency = Latency /\ Protocol!Stages = Stages /\ Protocol!Slots = Slots
  BY DEF Protocol!Latency, Latency, Protocol!Stages, Stages, Protocol!Slots, Slots
<1>2. Protocol!CoprocInit <=> CoprocInit
  BY <1>1 DEF Protocol!CoprocInit, CoprocInit, Protocol!PrefetchInit, PrefetchInit
<1>3. ASSUME NEW req, NEW com, NEW rdy
      PROVE  Protocol!CoprocStep(req, com, rdy) <=> CoprocStep(req, com, rdy)
  <2>1. /\ Protocol!Accept(req) = Accept(req)
        /\ Protocol!RotIssued(req) = RotIssued(req)
        /\ Protocol!KillSeen(com) = KillSeen(com)
        /\ Protocol!DpValid(req) = DpValid(req) /\ Protocol!DpId(req) = DpId(req)
        /\ Protocol!DpData(req) = DpData(req)
    BY DEF Protocol!Accept, Accept, Protocol!CanTake, CanTake, Protocol!HaveCredit,
       HaveCredit, Protocol!NeedResync, NeedResync, Protocol!RotIssued, RotIssued,
       Protocol!ValueMismatch, ValueMismatch, Protocol!KillSeen, KillSeen,
       Protocol!DpValid, DpValid, Protocol!DpId, DpId, Protocol!DpData, DpData,
       Protocol!ThetaSel, ThetaSel, Protocol!Rotation, Rotation
  <2>2. Protocol!FifoStep(com, rdy) <=> FifoStep(com, rdy)
    BY <1>1 DEF Protocol!FifoStep, FifoStep, Protocol!FifoPush, FifoPush, Protocol!FifoPop,
       FifoPop, Protocol!Slot, Slot, Protocol!NextPtr, NextPtr, Protocol!CurTag, CurTag,
       Protocol!ResData, ResData, Protocol!ResultPresent, ResultPresent,
       Protocol!ResultIsKilled, ResultIsKilled, Protocol!KillOf, KillOf,
       Protocol!KillSeen, KillSeen, Protocol!ResultTaken, ResultTaken,
       Protocol!ResultValid, ResultValid, Protocol!FifoDrain, FifoDrain,
       Protocol!HeadKilled, HeadKilled, Protocol!HeadCommitted, HeadCommitted,
       Protocol!FifoHead, FifoHead, Protocol!FifoEmpty, FifoEmpty
  <2>3. Protocol!CreditStep(req, com, rdy) <=> CreditStep(req, com, rdy)
    BY <1>1, <2>1 DEF Protocol!CreditStep, CreditStep, Protocol!WrapCredit, WrapCredit,
       Protocol!One, One, Protocol!RetireKilled, RetireKilled, Protocol!FifoPop,
       FifoPop, Protocol!CurTag, CurTag, Protocol!ResData, ResData,
       Protocol!ResultPresent, ResultPresent, Protocol!ResultIsKilled,
       ResultIsKilled, Protocol!KillOf, KillOf, Protocol!KillSeen, KillSeen,
       Protocol!ResultTaken, ResultTaken, Protocol!ResultValid, ResultValid,
       Protocol!FifoDrain, FifoDrain, Protocol!HeadKilled, HeadKilled,
       Protocol!HeadCommitted, HeadCommitted, Protocol!FifoHead, FifoHead,
       Protocol!FifoEmpty, FifoEmpty, Protocol!Slot, Slot
  <2>4. /\ Protocol!CaptureStep(req) <=> CaptureStep(req)
        /\ Protocol!DatapathStep(req) <=> DatapathStep(req)
        /\ Protocol!TagStep(req) <=> TagStep(req)
        /\ Protocol!FlagsStep(req, com) <=> FlagsStep(req, com)
    BY <1>1, <2>1 DEF Protocol!CaptureStep, CaptureStep, Protocol!Captured, Captured,
       Protocol!DatapathStep, DatapathStep, Protocol!TagStep, TagStep, Protocol!Shift,
       Shift, Protocol!FlagsStep, FlagsStep
  <2>5. Protocol!PrefetchStep(RotIssued(req), req.op, Accept(req), KillSeen(com))
          <=> PrefetchStep(RotIssued(req), req.op, Accept(req), KillSeen(com))
    BY DEF Protocol!PrefetchStep, PrefetchStep, Protocol!NeedResync, NeedResync,
       Protocol!ValueMismatch, ValueMismatch, Protocol!Resync, Resync, Protocol!Advance,
       Advance, Protocol!NextPair, NextPair
  <2> QED
    BY <2>1, <2>2, <2>3, <2>4, <2>5
       DEF Protocol!CoprocStep, CoprocStep, Protocol!prefetchVars, prefetchVars
<1> QED
  BY <1>2, <1>3

(* What the core drives while it offers no rotation, and while it decides   *)
(* nothing, does not matter; RopeXifProtocol has one value for each.        *)
Offered(in) ==
  IF IssueValid(in) /\ if_id_pipe.insn.kind = "rot"
  THEN IssueReq(in)
  ELSE [valid |-> IssueValid(in), rot |-> FALSE, rs_valid |-> IssueValid(in),
        id |-> Protocol!SomeId, op |-> Protocol!SomeOp]

Decided == IF CommitValid THEN Commit
           ELSE [valid |-> FALSE, kill |-> FALSE, id |-> Protocol!SomeId]


LEMMA SameInputs ==
  ASSUME UsePrefetch, NEW in, CoprocStep(IssueReq(in), Commit, ResultReady)
  PROVE  /\ CoprocStep(Offered(in), Decided, ResultReady)
         /\ Accept(Offered(in)) = AcceptedNow(in)
         /\ AcceptedNow(in) => Offered(in) = IssueReq(in)
<1> DEFINE req == IssueReq(in)
           off == Offered(in)
<1>1. /\ RotIssued(off) = RotIssued(req)
      /\ RotIssued(req) => off = req
  BY DEF RotIssued, Offered, IssueReq
<1>2. Accept(off) = AcceptedNow(in) /\ (AcceptedNow(in) => off = req)
  BY <1>1 DEF AcceptedNow, Accept
<1>3. /\ KillSeen(Decided) = KillSeen(Commit)
      /\ (Decided.valid /\ ~Decided.kill) = (Commit.valid /\ ~Commit.kill)
      /\ Commit.valid => Decided = Commit
      /\ \A id : KillOf(Decided, id) = KillOf(Commit, id)
  BY DEF KillSeen, KillOf, Decided, Commit
<1> HIDE DEF req, off
<1>4. CaptureStep(off) /\ DatapathStep(off) /\ TagStep(off)
  BY <1>2 DEF CoprocStep, CaptureStep, DatapathStep, TagStep, DpValid, AcceptedNow, req
<1>5. FlagsStep(off, Decided)
  BY <1>2, <1>3 DEF CoprocStep, FlagsStep, AcceptedNow, req, KillSeen
<1>6. FifoStep(Decided, ResultReady) /\ CreditStep(off, Decided, ResultReady)
  <2>1. /\ FifoPush(Decided) = FifoPush(Commit)
        /\ RetireKilled(Decided) = RetireKilled(Commit)
    BY <1>3 DEF FifoPush, RetireKilled, ResultIsKilled
  <2> QED
    BY <1>2, <2>1 DEF CoprocStep, FifoStep, CreditStep, AcceptedNow, req
<1>7. PrefetchStep(RotIssued(off), off.op, Accept(off), KillSeen(Decided))
  BY <1>1, <1>2, <1>3 DEF CoprocStep, PrefetchStep, NeedResync, AcceptedNow, req
<1> QED
  BY <1>2, <1>4, <1>5, <1>6, <1>7 DEF CoprocStep, off, req

(* When this cycle ends the coprocessor holds at most the rotation in EX.   *)
LEMMA HeldInEx ==
  ASSUME DirectInv, FastBuild,
         NEW p \in Held \ (IF ResultTaken(ResultReady) THEN {0} ELSE {})
  PROVE  \/ AcceptedInEx /\ Content(p).id = id_ex_pipe.xif_id
         \/ ~if_id_pipe.valid /\ ~id_ex_pipe.valid
<1>1. ResultTaken(ResultReady) <=> XifInWb
  BY NoWait DEF ResultTaken, ResultReady
<1>2. ~AcceptedInId
  BY DEF FastBuild, DirectInv, RegimeInv, AcceptedInId
<1>3. CASE HeldInOrder
  <2>1. IF p = 0 THEN Content(p).id = OldestId
                 ELSE Content(p).id = YoungestId /\ (AcceptedInEx \/ AcceptedInId)
    BY <1>3, PlacesInOrder DEF FastBuild
  <2>2. p = 0 => ~XifInWb /\ AcceptedInEx
    BY <1>1, <1>2, <1>3, PlacesInOrder, AtMostTwo DEF FastBuild
  <2> QED
    BY <1>2, <2>1, <2>2 DEF OldestId, YoungestId
<1>4. CASE Draining
  BY <1>4 DEF Draining
<1> QED
  BY <1>3, <1>4 DEF DirectInv, HoldInv

LEMMA SameHeld ==
  Protocol!HeldIds(ResultReady)
    = {Content(p).id : p \in Held \ (IF ResultTaken(ResultReady) THEN {0} ELSE {})}
<1>1. Protocol!Latency = Latency /\ Protocol!Stages = Stages
      /\ Protocol!CapturePlace = CapturePlace
  BY DEF Protocol!Latency, Latency, Protocol!Stages, Stages, Protocol!CapturePlace,
         CapturePlace
<1>2. Protocol!Held = Held
  BY <1>1 DEF Protocol!Held, Held, Protocol!Occupancy, Occupancy, Protocol!StagePlace,
              StagePlace
<1>3. \A p : Protocol!Content(p) = Content(p)
  BY <1>1 DEF Protocol!Content, Content, Protocol!InFifo, InFifo, Protocol!InStage,
              InStage, Protocol!InCapture, InCapture, Protocol!Slot, Slot,
              Protocol!PtrAfter, PtrAfter, Protocol!StagePlace, StagePlace,
              Protocol!Rotation, Rotation
<1>4. Protocol!ResultTaken(ResultReady) = ResultTaken(ResultReady)
  BY DEF Protocol!ResultTaken, ResultTaken, Protocol!ResultValid, ResultValid,
         Protocol!HeadKilled, HeadKilled, Protocol!HeadCommitted, HeadCommitted,
         Protocol!FifoHead, FifoHead, Protocol!FifoEmpty, FifoEmpty, Protocol!Slot, Slot
<1> QED
  BY <1>2, <1>3, <1>4 DEF Protocol!HeldIds

(* A rotation is offered with an id that is not in use. *)
LEMMA OffersFreshId ==
  ASSUME WritesInv, FastBuild, NEW in, LegalCycle(in)
  PROVE  Offered(in) \in Protocol!CoreRequests(Protocol!HeldIds(ResultReady))
<1>1. DirectInv /\ CoreTypeOK
  BY DEF WritesInv, DirectInv, CoreInv
<1>2. IssueValid(in) \in BOOLEAN
  BY DEF IssueValid
<1>3. CASE ~(IssueValid(in) /\ if_id_pipe.insn.kind = "rot")
  BY <1>2, <1>3 DEF Offered, Protocol!CoreRequests, Protocol!NoRotation
<1>4. CASE IssueValid(in) /\ if_id_pipe.insn.kind = "rot"
  <2>1. /\ Offered(in) = IssueReq(in) /\ if_id_pipe.valid
        /\ IssueReq(in) = [valid |-> TRUE, rot |-> TRUE, rs_valid |-> TRUE,
                           id |-> if_id_pipe.xif_id,
                           op |-> [x |-> if_id_pipe.insn.rs1, m |-> 0, i |-> 0]]
    BY <1>4, FreshOperand DEF Offered, IssueReq, OperandsOf, IssueValid, IdValidInstr
  <2>2. [x |-> if_id_pipe.insn.rs1, m |-> 0, i |-> 0] \in Protocol!OfferedOps
    <3>1. if_id_pipe.insn.rs1 \in Values
      BY <1>1 DEF CoreTypeOK, Insns
    <3> QED
      BY <3>1 DEF Protocol!OfferedOps
  <2>3. if_id_pipe.xif_id \in Ids
    BY <1>1, SystemAssumption DEF CoreTypeOK
  <2>4. if_id_pipe.xif_id \notin Protocol!HeldIds(ResultReady)
    BY <1>1, <2>1, SameHeld, HeldInEx DEF DirectInv, IdsInv, AcceptedInEx
  <2> DEFINE held == Protocol!HeldIds(ResultReady)
             op == [x |-> if_id_pipe.insn.rs1, m |-> 0, i |-> 0]
  <2> HIDE DEF held, op
  <2>5. [valid |-> TRUE, rot |-> TRUE, rs_valid |-> TRUE, id |-> if_id_pipe.xif_id, op |-> op]
          \in [valid : {TRUE}, rot : {TRUE}, rs_valid : BOOLEAN,
              id : Ids \ held, op : Protocol!OfferedOps]
    BY <2>2, <2>3, <2>4 DEF held, op
  <2>6. Offered(in) \in Protocol!CoreRequests(held)
    BY <2>1, <2>5 DEF Protocol!CoreRequests, op
  <2> QED
    BY <2>6 DEF held
<1> QED
  BY <1>3, <1>4

LEMMA TwoElements ==
  ASSUME NEW R, NEW w \in R, NEW e \in R, NEW s \in Seq(R),
         Len(s) = 2, s[1] = w, s[2] = e
  PROVE  s = <<w, e>>
<1> DEFINE c == <<w, e>>
<1>1. c \in Seq(R) /\ Len(c) = 2 /\ c[1] = w /\ c[2] = e
  OBVIOUS
<1> HIDE DEF c
<1>2. \A i \in 1 .. Len(s) : s[i] = c[i]
  BY <1>1
<1>3. s = c
  BY <1>1, <1>2, SeqEqual
<1> QED
  BY <1>3 DEF c

LEMMA Joining ==
  ASSUME NEW w, NEW e
  PROVE  /\ <<w>> \o <<e>> = <<w, e>>
         /\ Append(<<w>>, e) = <<w, e>> /\ Append(<<>>, e) = <<e>>
<1> DEFINE R == {w, e}
           a == <<w>>
           b == <<e>>
<1>1. w \in R /\ e \in R
  OBVIOUS
<1> HIDE DEF R
<1>2. /\ a \in Seq(R) /\ Len(a) = 1 /\ a[1] = w
      /\ b \in Seq(R) /\ Len(b) = 1 /\ b[1] = e
  BY <1>1
<1> HIDE DEF a, b
<1>3. a \o b \in Seq(R) /\ Len(a \o b) = 2 /\ (a \o b)[1] = w /\ (a \o b)[2] = e
  <2>1. /\ a \o b \in Seq(R) /\ Len(a \o b) = Len(a) + Len(b)
        /\ \A i \in 1 .. Len(a) + Len(b) :
             (a \o b)[i] = IF i <= Len(a) THEN a[i] ELSE b[i - Len(a)]
    BY <1>2, ConcatProperties
  <2> QED
    BY <1>2, <2>1
<1>4. Append(a, e) = a \o b
  BY <1>1, <1>2, AppendIsConcat DEF b
<1>5. a \o b = <<w, e>>
  BY <1>1, <1>3, TwoElements
<1>6. Append(<<>>, e) = <<e>>
  OBVIOUS
<1> QED
  BY <1>4, <1>5, <1>6 DEF a, b

LEMMA Joined ==
  ASSUME NEW w, NEW e
  PROVE  /\ (<<w>> \o <<e>>) \o <<>> = <<w, e>>
         /\ (<<w>> \o <<>>) \o <<>> = <<w>>
         /\ (<<>> \o <<e>>) \o <<>> = <<e>>
         /\ (<<>> \o <<>>) \o <<>> = <<>>
<1> DEFINE R == {w, e}
           a == <<w>>
           b == <<e>>
<1>1. w \in R /\ e \in R
  OBVIOUS
<1> HIDE DEF R
<1>2. a \in Seq(R) /\ b \in Seq(R) /\ <<>> \in Seq(R)
  BY <1>1
<1> HIDE DEF a, b
<1>3. a \o b \in Seq(R)
  BY <1>2, ConcatProperties
<1>4. /\ (a \o b) \o <<>> = a \o b
      /\ (a \o <<>>) \o <<>> = a
      /\ (<<>> \o b) \o <<>> = b
      /\ (<<>> \o <<>>) \o <<>> = <<>>
  BY <1>2, <1>3, ConcatEmptySeq
<1> QED
  BY <1>4, Joining DEF a, b

(* The rotations in the pipeline, oldest first: on the fast path none waits *)
(* in ID after it was accepted.                                             *)
LEMMA PendingIs ==
  ASSUME DirectInv, FastBuild
  PROVE  LET w == Offload(ex_wb_pipe.xif_id, ex_wb_pipe.insn, TRUE)
             e == Offload(id_ex_pipe.xif_id, id_ex_pipe.insn, commit_valid_q)
         IN  Pending = IF XifInWb
                       THEN IF AcceptedInEx THEN <<w, e>> ELSE <<w>>
                       ELSE IF AcceptedInEx THEN <<e>> ELSE <<>>
<1>1. XifInWb \in BOOLEAN /\ AcceptedInEx \in BOOLEAN /\ xif_answer = "none"
  BY DEF XifInWb, AcceptedInEx, DirectInv, CoreInv, CoreTypeOK, FastBuild, RegimeInv
<1> DEFINE w == Offload(ex_wb_pipe.xif_id, ex_wb_pipe.insn, TRUE)
           e == Offload(id_ex_pipe.xif_id, id_ex_pipe.insn, commit_valid_q)
<1>2. Pending = ((IF XifInWb THEN <<w>> ELSE <<>>) \o (IF AcceptedInEx THEN <<e>> ELSE <<>>))
                  \o <<>>
  BY <1>1 DEF Pending
<1> HIDE DEF w, e
<1>3. Pending = IF XifInWb
                THEN IF AcceptedInEx THEN <<w, e>> ELSE <<w>>
                ELSE IF AcceptedInEx THEN <<e>> ELSE <<>>
  BY <1>1, <1>2, Joined
<1> QED
  BY <1>3 DEF w, e

(* What the core decides is the oldest undecided rotation, or an            *)
(* instruction that was rejected.                                           *)
LEMMA DecidesOldest ==
  ASSUME DirectInv, FastBuild, NEW in, LegalCycle(in)
  PROVE  Decided \in Protocol!CoreCommits(Offered(in), Protocol!HeldIds(ResultReady))
<1>1. CoreTypeOK
  BY DEF DirectInv, CoreInv
<1>2. CASE ~CommitValid
  BY <1>2 DEF Decided, Protocol!CoreCommits
<1>3. CASE CommitValid
  <2>1. /\ id_ex_pipe.valid /\ id_ex_pipe.xif_en /\ ~commit_valid_q
        /\ Decided = [valid |-> TRUE, kill |-> CommitKill, id |-> id_ex_pipe.xif_id]
    BY <1>3 DEF CommitValid, Decided, Commit
  <2>2. CommitKill \in BOOLEAN /\ id_ex_pipe.xif_id \in Ids
    BY <1>1, SystemAssumption DEF CommitKill, CoreTypeOK
  <2>3. CASE id_ex_pipe.accepted
    <3>1. AcceptedInEx
      BY <2>1, <2>3 DEF AcceptedInEx
    <3>2. id_ex_pipe.xif_id \in Protocol!Undecided
      <4> DEFINE w == Offload(ex_wb_pipe.xif_id, ex_wb_pipe.insn, TRUE)
                 e == Offload(id_ex_pipe.xif_id, id_ex_pipe.insn, commit_valid_q)
      <4>1. Pending = IF XifInWb THEN <<w, e>> ELSE <<e>>
        BY <3>1, PendingIs
      <4>2. /\ w.committed = TRUE /\ e.committed = FALSE
            /\ e.id = id_ex_pipe.xif_id
        BY <2>1, <1>1 DEF Offload, CoreTypeOK
      <4> HIDE DEF w, e
      <4>3. CASE XifInWb
        <5>1. DOMAIN Pending = {1, 2} /\ Pending[1] = w /\ Pending[2] = e
          BY <4>1, <4>3
        <5> QED
          BY <2>2, <4>2, <5>1 DEF Protocol!Undecided
      <4>4. CASE ~XifInWb
        <5>1. DOMAIN Pending = {1} /\ Pending[1] = e
          BY <4>1, <4>4
        <5> QED
          BY <2>2, <4>2, <5>1 DEF Protocol!Undecided
      <4> QED
        BY <4>3, <4>4
    <3> QED
      BY <2>1, <2>2, <3>2 DEF Protocol!CoreCommits
  <2>4. CASE ~id_ex_pipe.accepted
    <3>1. CommitKill /\ ~AcceptedInEx
      BY <2>1, <2>4 DEF CommitKill, KillRejected, AcceptedInEx
    <3>2. id_ex_pipe.xif_id \notin Protocol!HeldIds(ResultReady)
      BY <2>1, <3>1, SameHeld, HeldInEx
    <3>3. Offered(in).rot => Offered(in).id # id_ex_pipe.xif_id
      BY <2>1 DEF Offered, IssueReq, IssueValid, IdValidInstr, DirectInv, IdsInv
    <3>4. id_ex_pipe.xif_id \in Protocol!RejectedIds(Offered(in), Protocol!HeldIds(ResultReady))
      BY <2>2, <3>2, <3>3 DEF Protocol!RejectedIds
    <3> QED
      BY <2>1, <3>1, <3>4 DEF Protocol!CoreCommits
  <2> QED
    BY <1>1, <2>3, <2>4
<1> QED
  BY <1>2, <1>3

(* What a decision does to the rotations the core waits for.                *)
Mark(com, a) == [a EXCEPT !.committed = @ \/ (com.valid /\ com.id = a.id)]

LEMMA MarkOther ==
  ASSUME NEW com, NEW id, NEW op, ~(com.valid /\ com.id = id)
  PROVE  LET a == [id |-> id, op |-> op, committed |-> FALSE] IN Mark(com, a) = a
<1> DEFINE a == [id |-> id, op |-> op, committed |-> FALSE]
<1>1. a \in [id : {id}, op : {op}, committed : BOOLEAN] /\ a.committed = FALSE
  OBVIOUS
<1> HIDE DEF a
<1>2. (a.committed \/ (com.valid /\ com.id = a.id)) = FALSE /\ [a EXCEPT !.committed = FALSE] = a
  BY <1>1
<1>3. Mark(com, a) = a
  BY <1>2 DEF Mark
<1> QED
  BY <1>3 DEF a

LEMMA NotedNone ==
  ASSUME NEW com
  PROVE  Protocol!Noted(com, Protocol!Spared(com, <<>>)) = <<>>
<1>1. Protocol!KilledAt(com, <<>>) = {}
  BY DEF Protocol!KilledAt
<1>2. Protocol!Spared(com, <<>>) = <<>>
  BY <1>1 DEF Protocol!Spared
<1> QED
  BY <1>2 DEF Protocol!Noted

LEMMA NotedOne ==
  ASSUME NEW com, NEW a
  PROVE  Protocol!Noted(com, Protocol!Spared(com, <<a>>))
           = IF KillOf(com, a.id) THEN <<>> ELSE <<Mark(com, a)>>
<1>1. Protocol!KilledAt(com, <<a>>) = IF KillOf(com, a.id) THEN {1} ELSE {}
  <2>1. DOMAIN <<a>> = {1} /\ <<a>>[1] = a
    OBVIOUS
  <2>2. Protocol!KillOf(com, a.id) <=> KillOf(com, a.id)
    BY DEF Protocol!KillOf, KillOf, Protocol!KillSeen, KillSeen
  <2> QED
    BY <2>1, <2>2 DEF Protocol!KilledAt
<1>2. CASE KillOf(com, a.id)
  <2>1. Protocol!Spared(com, <<a>>) = Protocol!RemoveAt(<<a>>, 1)
    BY <1>1, <1>2 DEF Protocol!Spared
  <2>2. Protocol!RemoveAt(<<a>>, 1) = <<>>
    BY DEF Protocol!RemoveAt
  <2> QED
    BY <1>2, <2>1, <2>2 DEF Protocol!Noted
<1>3. CASE ~KillOf(com, a.id)
  <2>1. Protocol!Spared(com, <<a>>) = <<a>>
    BY <1>1, <1>3 DEF Protocol!Spared
  <2>2. Protocol!Noted(com, <<a>>) = <<Mark(com, a)>>
    BY DEF Protocol!Noted, Mark
  <2> QED
    BY <1>3, <2>1, <2>2
<1> QED
  BY <1>2, <1>3

LEMMA NotedTwo ==
  ASSUME NEW com, NEW a, NEW b, ~KillOf(com, a.id), ~KillOf(com, b.id)
  PROVE  Protocol!Noted(com, Protocol!Spared(com, <<a, b>>)) = <<Mark(com, a), Mark(com, b)>>
<1>1. Protocol!KilledAt(com, <<a, b>>) = {}
  <2>1. DOMAIN <<a, b>> = {1, 2} /\ <<a, b>>[1] = a /\ <<a, b>>[2] = b
    OBVIOUS
  <2>2. \A id : Protocol!KillOf(com, id) <=> KillOf(com, id)
    BY DEF Protocol!KillOf, KillOf, Protocol!KillSeen, KillSeen
  <2> QED
    BY <2>1, <2>2 DEF Protocol!KilledAt
<1>2. Protocol!Spared(com, <<a, b>>) = <<a, b>>
  BY <1>1 DEF Protocol!Spared
<1> QED
  BY <1>2 DEF Protocol!Noted, Mark

(* The rotations in the pipeline are those of which the core has told the   *)
(* coprocessor: they change as the protocol has it.                         *)
LEMMA PendingStep ==
  ASSUME WritesInv, DirectInv', FastBuild, NEW in, LegalCycle(in)
  PROVE  Protocol!CoreStep(Offered(in), Decided, ResultReady)
<1> DEFINE w   == Offload(ex_wb_pipe.xif_id, ex_wb_pipe.insn, TRUE)
           e   == Offload(id_ex_pipe.xif_id, id_ex_pipe.insn, commit_valid_q)
           w1  == Offload(ex_wb_pipe'.xif_id, ex_wb_pipe'.insn, TRUE)
           e1  == Offload(id_ex_pipe'.xif_id, id_ex_pipe'.insn, commit_valid_q')
           new == Protocol!NewExpected(Offered(in))
           com == Decided
           left == IF Protocol!ResultTaken(ResultReady) /\ Pending # <<>>
                   THEN Tail(Pending) ELSE Pending
           all  == IF Protocol!Accept(Offered(in)) THEN Append(left, new) ELSE left
<1>1. DirectInv /\ CoreTypeOK /\ KindsInv /\ ~AcceptedInId /\ UsePrefetch
  BY DEF WritesInv, DirectInv, CoreInv, FastBuild, RegimeInv, AcceptedInId, Direct
<1>2. Cycle(in) /\ CommitStep(in) /\ CoprocStep(IssueReq(in), Commit, ResultReady)
  BY DEF LegalCycle, Cycle, CorePipelineStep
<1>3. Protocol!ResultTaken(ResultReady) <=> XifInWb
  <2>1. Protocol!ResultTaken(ResultReady) <=> ResultTaken(ResultReady)
    BY DEF Protocol!ResultTaken, ResultTaken, Protocol!ResultValid, ResultValid,
           Protocol!HeadKilled, HeadKilled, Protocol!HeadCommitted, HeadCommitted,
           Protocol!FifoHead, FifoHead, Protocol!FifoEmpty, FifoEmpty, Protocol!Slot, Slot
  <2> QED
    BY <1>1, <2>1, NoWait DEF ResultTaken, ResultReady
<1>4. Protocol!Accept(Offered(in)) <=> AcceptedNow(in)
  <2>1. Protocol!Accept(Offered(in)) = Accept(Offered(in))
    BY DEF Protocol!Accept, Accept, Protocol!CanTake, CanTake, Protocol!HaveCredit,
           HaveCredit, Protocol!NeedResync, NeedResync, Protocol!RotIssued, RotIssued,
           Protocol!ValueMismatch, ValueMismatch
  <2> QED
    BY <1>1, <1>2, <2>1, SameInputs
<1>5. left = IF AcceptedInEx THEN <<e>> ELSE <<>>
  <2>1. Pending = IF XifInWb
                  THEN IF AcceptedInEx THEN <<w, e>> ELSE <<w>>
                  ELSE IF AcceptedInEx THEN <<e>> ELSE <<>>
    BY <1>1, PendingIs
  <2> HIDE DEF w, e
  <2>2. /\ <<w, e>> # <<>> /\ Tail(<<w, e>>) = <<e>>
        /\ <<w>> # <<>> /\ Tail(<<w>>) = <<>>
    OBVIOUS
  <2> QED
    BY <1>3, <2>1, <2>2
<1>6. all = IF AcceptedInEx
            THEN IF AcceptedNow(in) THEN <<e, new>> ELSE <<e>>
            ELSE IF AcceptedNow(in) THEN <<new>> ELSE <<>>
  <2> HIDE DEF left, e, new
  <2>1. Append(<<e>>, new) = <<e, new>> /\ Append(<<>>, new) = <<new>>
    BY Joining
  <2> QED
    BY <1>4, <1>5, <2>1
<1>7. Pending' = IF XifInWb'
                 THEN IF AcceptedInEx' THEN <<w1, e1>> ELSE <<w1>>
                 ELSE IF AcceptedInEx' THEN <<e1>> ELSE <<>>
  <2>1. XifInWb' \in BOOLEAN /\ AcceptedInEx' \in BOOLEAN /\ xif_answer' = "none"
    BY DEF XifInWb, AcceptedInEx, DirectInv, CoreInv, CoreTypeOK, FastBuild, RegimeInv
  <2>2. Pending' = ((IF XifInWb' THEN <<w1>> ELSE <<>>)
                      \o (IF AcceptedInEx' THEN <<e1>> ELSE <<>>)) \o <<>>
    BY <2>1 DEF Pending, Offload, OperandsOf
  <2> HIDE DEF w1, e1
  <2> QED
    BY <2>1, <2>2, Joined
<1>8. /\ com.valid = CommitValid
      /\ \A id : KillOf(com, id) <=> CommitValid /\ CommitKill /\ id = id_ex_pipe.xif_id
      /\ CommitValid => com.id = id_ex_pipe.xif_id
  BY DEF Decided, Commit, KillOf, KillSeen, CommitValid
<1>9. Protocol!CoreStep(Offered(in), Decided, ResultReady)
        <=> Pending' = Protocol!Noted(com, Protocol!Spared(com, all))
  BY DEF Protocol!CoreStep
<1>10. commit_valid_q \in BOOLEAN /\ commit_valid_q' \in BOOLEAN
  BY <1>1 DEF CoreTypeOK, DirectInv, CoreInv
(* The rotation that is accepted goes to EX. *)
<1>11. ASSUME AcceptedNow(in)
       PROVE  /\ ~KillEx /\ ExReady(in) /\ AcceptedInEx'
              /\ Mark(com, new) = new /\ ~KillOf(com, new.id) /\ e1 = new
  <2>1. IssueValid(in) /\ if_id_pipe.valid /\ HasAccepted(in) /\ ~KillId /\ ~KillEx
    BY <1>1, <1>11, Issuing
  <2>2. ~AcceptedInId'
    BY DEF DirectInv, FastBuild, RegimeInv, AcceptedInId
  <2>3. OutOfId(in) /\ ExReady(in) /\ AcceptedInEx'
    BY <1>1, <2>1, <2>2, Movement DEF OutOfId
  <2>4. /\ id_ex_pipe'.xif_id = if_id_pipe.xif_id
        /\ id_ex_pipe'.insn.rs1 = if_id_pipe.insn.rs1
        /\ commit_valid_q' = FALSE
    BY <1>1, <1>10, <2>3, Movement, FastMoves, CommitStays
  <2>5. Offered(in) = IssueReq(in)
    BY <1>1, <1>2, <1>11, SameInputs
  <2>6. new = [id |-> if_id_pipe.xif_id, op |-> OperandsOf(if_id_pipe.insn, if_id_pipe.insn.rs1),
               committed |-> FALSE]
    <3>1. Rs1(in) = if_id_pipe.insn.rs1
      BY <2>1, FreshOperand
    <3>2. /\ IssueReq(in).id = if_id_pipe.xif_id
          /\ IssueReq(in).op = OperandsOf(if_id_pipe.insn, Rs1(in))
      BY DEF IssueReq
    <3> QED
      BY <2>5, <3>1, <3>2 DEF Protocol!NewExpected
  <2>7. CommitValid => id_ex_pipe.xif_id # if_id_pipe.xif_id
    BY <1>1, <2>1 DEF CommitValid, DirectInv, IdsInv
  <2>8. e1 = new
    BY <2>4, <2>6 DEF Offload, OperandsOf
  <2>9. Mark(com, new) = new /\ ~KillOf(com, new.id)
    <3>1. new.id = if_id_pipe.xif_id
      BY <2>6
    <3>2. ~(com.valid /\ com.id = new.id) /\ ~KillOf(com, new.id)
      BY <1>8, <2>7, <3>1
    <3> HIDE DEF com
    <3>3. Mark(com, new) = new
      BY <2>6, <3>1, <3>2, MarkOther
    <3> QED
      BY <3>2, <3>3
  <2> QED
    BY <2>1, <2>3, <2>8, <2>9
(* The one in EX is committed, unless it is killed. *)
<1>12. ASSUME AcceptedInEx, ~KillEx
       PROVE  /\ ~KillOf(com, e.id)
              /\ ExReady(in) => XifInWb' /\ w1 = Mark(com, e)
              /\ ~ExReady(in) => AcceptedInEx' /\ ~XifInWb' /\ e1 = Mark(com, e)
  <2>1. ~CommitKill
    BY <1>12 DEF CommitKill, KillRejected, AcceptedInEx
  <2>2. Mark(com, e) = Offload(id_ex_pipe.xif_id, id_ex_pipe.insn, CommitValid \/ commit_valid_q)
    BY <1>8, <1>10 DEF Mark, Offload
  <2>3. CASE ExReady(in)
    <3>1. CommitValid \/ commit_valid_q
      BY <1>12, <2>3 DEF ExReady, CommitValid, AcceptedInEx
    <3>2. /\ XifInWb' /\ ex_wb_pipe'.xif_id = id_ex_pipe.xif_id
          /\ ex_wb_pipe'.insn = id_ex_pipe.insn
      BY <1>1, <1>12, <2>3, Movement, FastMoves
    <3> QED
      BY <1>8, <1>10, <2>1, <2>2, <2>3, <3>1, <3>2 DEF CommitValid
  <2>4. CASE ~ExReady(in)
    <3>1. /\ AcceptedInEx' /\ ~XifInWb' /\ id_ex_pipe'.xif_id = id_ex_pipe.xif_id
          /\ id_ex_pipe'.insn = id_ex_pipe.insn
      BY <1>1, <1>12, <2>4, Movement, FastMoves
    <3>2. commit_valid_q' = (CommitValid \/ commit_valid_q)
      <4>1. ~(ExValid(in) /\ WbReady(in))
        BY <1>1, <1>12, <2>4, KeptInEx DEF ExValid, ExValidInstr, AcceptedInEx
      <4> QED
        BY <1>2, <1>12, <4>1 DEF CommitStep
    <3> QED
      BY <1>8, <2>1, <2>2, <2>4, <3>1, <3>2
  <2> QED
    BY <2>3, <2>4
<1>13. AcceptedInEx' /\ ExReady(in) => AcceptedNow(in)
  BY <1>1, FastMoves
<1>14. KillEx => ExReady(in) /\ ~AcceptedNow(in)
  BY <1>1, Issuing
<1>15. (XifInWb' => AcceptedInEx /\ ~KillEx /\ ExReady(in))
       /\ (AcceptedInEx' /\ ~ExReady(in) => AcceptedInEx)
  BY <1>1, Movement
<1> HIDE DEF w, e, w1, e1, new, com, left, all
<1>16. CASE AcceptedInEx /\ KillEx
  <2>1. KillOf(com, e.id)
    BY <1>1, <1>8, <1>16, KillIsTold DEF e, Offload
  <2>2. all = <<e>> /\ Pending' = <<>>
    BY <1>6, <1>7, <1>13, <1>14, <1>15, <1>16
  <2> QED
    BY <1>9, <2>1, <2>2, NotedOne
<1>17. CASE AcceptedInEx /\ ~KillEx /\ AcceptedNow(in)
  <2>1. all = <<e, new>> /\ Pending' = <<Mark(com, e), Mark(com, new)>>
    BY <1>6, <1>7, <1>11, <1>12, <1>17
  <2> QED
    BY <1>9, <1>11, <1>12, <1>17, <2>1, NotedTwo
<1>18. CASE AcceptedInEx /\ ~KillEx /\ ~AcceptedNow(in)
  <2>1. all = <<e>> /\ Pending' = <<Mark(com, e)>>
    BY <1>6, <1>7, <1>12, <1>13, <1>18
  <2> QED
    BY <1>9, <1>12, <1>18, <2>1, NotedOne
<1>19. CASE ~AcceptedInEx /\ AcceptedNow(in)
  <2>1. all = <<new>> /\ Pending' = <<Mark(com, new)>>
    BY <1>6, <1>7, <1>11, <1>15, <1>19
  <2> QED
    BY <1>9, <1>11, <1>19, <2>1, NotedOne
<1>20. CASE ~AcceptedInEx /\ ~AcceptedNow(in)
  <2>1. all = <<>> /\ Pending' = <<>>
    BY <1>6, <1>7, <1>13, <1>15, <1>20
  <2> QED
    BY <1>9, <2>1, NotedNone
<1> QED
  BY <1>16, <1>17, <1>18, <1>19, <1>20

LEMMA ProtocolStep ==
  ASSUME WritesInv, DirectInv', FastBuild, NEW in, LegalCycle(in)
  PROVE  Protocol!Next
<1>1. CoprocStep(IssueReq(in), Commit, ResultReady) /\ DirectInv /\ UsePrefetch
  BY DEF LegalCycle, Cycle, WritesInv, FastBuild, Direct
<1>2. ResultReady \in BOOLEAN
  BY DEF ResultReady, XifInWb
<1>3. /\ Offered(in) \in Protocol!CoreRequests(Protocol!HeldIds(ResultReady))
      /\ Decided \in Protocol!CoreCommits(Offered(in), Protocol!HeldIds(ResultReady))
  BY <1>1, OffersFreshId, DecidesOldest
<1>4. Protocol!Cycle(Offered(in), Decided, ResultReady)
  BY <1>1, SameInputs, SameCoproc, PendingStep DEF Protocol!Cycle
<1> QED
  BY <1>2, <1>3, <1>4 DEF Protocol!Next, Protocol!CycleWith

(* The core keeps to the protocol of CORE-V-XIF: it offers an id that is    *)
(* not in use, decides its rotations in their order and once, waits for the *)
(* results of those it did not kill and takes them in the order in which it *)
(* offered them.  Whatever holds of the coprocessor under any such core     *)
(* holds of it here.                                                        *)
THEOREM CoreKeepsProtocol == ASSUME FastBuild PROVE Spec => KeepsProtocol
<1>1. Init => Protocol!Init
  <2>1. Init => Pending = <<>>
    <3>1. (<<>> \o <<>>) \o <<>> = <<>>
      OBVIOUS
    <3> QED
      BY <3>1 DEF Init, CoreInit, EmptyEx, EmptyWb, Pending, XifInWb, AcceptedInEx
  <2> QED
    BY <2>1, SameCoproc DEF Init, Protocol!Init
<1>2. ASSUME WritesInv, DirectInv', [Next]_vars
      PROVE  [Protocol!Next]_(Protocol!vars)
  <2>1. CASE UNCHANGED vars
    BY <2>1 DEF vars, coreVars, coprocVars, prefetchVars, Protocol!vars,
       Protocol!coprocVars, Protocol!prefetchVars, Pending, XifInWb, AcceptedInEx
  <2>2. CASE Next
    BY <1>2, <2>2, NextIsCycle, ProtocolStep DEF LegalCycle
  <2> QED
    BY <1>2, <2>1, <2>2
<1>3. WritesInv => DirectInv
  BY DEF WritesInv
<1> QED
  BY <1>1, <1>2, <1>3, WritesInvariant, PTL DEF Spec, KeepsProtocol, Protocol!Spec
=============================================================================
