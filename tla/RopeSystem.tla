----------------------------- MODULE RopeSystem -----------------------------
(***************************************************************************)
(* rope_cv32e40x_wrapper.sv: the pipeline of CorePipeline and the          *)
(* coprocessor of RopeXif joined by the issue, commit and result channels  *)
(* of CORE-V-XIF, with what surrounds them: instruction memory, data bus   *)
(* and interrupt line.                                                     *)
(*                                                                         *)
(* A rotation is told from another by the word in rs1; the position and    *)
(* the pair index are the same for all, so that the theta prefetch agrees  *)
(* with every instruction and only its kill check is at work.              *)
(***************************************************************************)
EXTENDS RopeXif, CorePipeline, Sequences, FiniteSets

CONSTANTS
  Interrupts,      \* may interrupts come?
  FetchBubbles,    \* may IF have nothing to deliver?
  SlowMemory,      \* may the data bus delay its grant and its response?
  SpacedRotations  \* are rotations kept apart by two other instructions?

ASSUME SystemAssumption ==
  /\ Ids = XifIds
  /\ Words = Values \cup {StaleValue}
  /\ {Interrupts, FetchBubbles, SlowMemory, SpacedRotations} \subseteq BOOLEAN

vars == <<coprocVars, prefetchVars, coreVars>>

Init == CoprocInit /\ CoreInit

-----------------------------------------------------------------------------
(* What surrounds the core.                                                 *)

RotationNear ==
  \/ if_id_pipe.valid /\ if_id_pipe.insn.kind = "rot"
  \/ InEx("rot")

\* Only what writes a register is depended on.
Fetched ==
  {i \in Instructions :
     /\ i.kind = "rot" /\ SpacedRotations => ~RotationNear
     /\ i.dep /\ if_id_pipe.valid =>
          RfWe(if_id_pipe.insn.kind) \/ if_id_pipe.insn.kind = "rot"}
    \cup {b \in {NoFetch} : FetchBubbles}

\* A response needs an outstanding transaction; fast memory grants at once
\* and answers in the next cycle.
BusInputs ==
  {b \in [grant : BOOLEAN, resp : BOOLEAN] :
     IF SlowMemory THEN b.resp => cnt_q > 0
                   ELSE b.grant /\ (b.resp <=> cnt_q > 0)}

\* The inputs of a cycle but for what IF delivers.
Input(newIrq, bus, div) ==
  [fetch |-> NoFetch, irq |-> newIrq, grant |-> bus.grant, resp |-> bus.resp,
   div |-> div, result |-> ResultValid]

-----------------------------------------------------------------------------
(* The channels.                                                            *)

OperandsOf(insn, word) == [x |-> word, m |-> 0, i |-> 0]

IssueReq(in) ==
  [valid |-> IssueValid(in), rot |-> if_id_pipe.insn.kind = "rot",
   rs_valid |-> TRUE, id |-> if_id_pipe.xif_id,
   op |-> OperandsOf(if_id_pipe.insn, Rs1(in))]

IssueAnswer(in) ==
  [ready |-> IssueReady(IssueReq(in)), accept |-> Accept(IssueReq(in))]

Cycle(in) ==
  /\ CorePipelineStep(in, IssueAnswer(in))
  /\ CoprocStep(IssueReq(in), Commit, ResultReady)

\* What IF delivers matters in a cycle in which ID takes it.
Delivered(in) ==
  IF IdReady(in, IssueAnswer(in)) /\ ~KillIf /\ ~Halt THEN Fetched ELSE {NoFetch}

FetchingCycle(in) ==
  \E fetch \in Delivered(in) : Cycle([in EXCEPT !.fetch = fetch])

\* An interrupt that is pending is not raised again.
NewIrq == {b \in BOOLEAN : b => Interrupts /\ ~irq}

Next ==
  \E newIrq \in NewIrq, bus \in BusInputs, div \in {d \in BOOLEAN : d => InEx("div")} :
    FetchingCycle(Input(newIrq, bus, div))

Spec == Init /\ [][Next]_vars

\* A cycle in which the data bus answers and a division ends.
AnsweringCycle ==
  \E newIrq \in NewIrq :
    FetchingCycle(Input(newIrq, [grant |-> TRUE, resp |-> cnt_q > 0],
                        InEx("div")))

\* The clock runs and the data bus does not stop answering; that the fetch
\* side ever delivers anything is not assumed.
FairSpec == Spec /\ WF_vars(AnsweringCycle)

-----------------------------------------------------------------------------
(* The rotations the core has offloaded and still has in its pipeline,      *)
(* oldest first.                                                            *)

Offload(id, insn, decided) ==
  [id |-> id, op |-> OperandsOf(insn, insn.rs1), committed |-> decided]

AcceptedInEx == id_ex_pipe.valid /\ id_ex_pipe.xif_en /\ id_ex_pipe.accepted

Pending ==
  (IF XifInWb
   THEN <<Offload(ex_wb_pipe.xif_id, ex_wb_pipe.insn, TRUE)>> ELSE <<>>)
  \o (IF AcceptedInEx
      THEN <<Offload(id_ex_pipe.xif_id, id_ex_pipe.insn, commit_valid_q)>>
      ELSE <<>>)
  \o (IF xif_answer = "accepted"
      THEN <<Offload(if_id_pipe.xif_id, if_id_pipe.insn, FALSE)>> ELSE <<>>)

\* The coprocessor under this core behaves as it does under any core that
\* follows the protocol.
Protocol == INSTANCE RopeXifProtocol
              WITH outstanding <- Pending,
                   IssuedOps <- [x : Values, m : {0}, i : {0}],
                   SteadyRequests <- FALSE

-----------------------------------------------------------------------------

(* The core keeps to the protocol of CORE-V-XIF, and the two sides agree in *)
(* every cycle on which rotations are under way: every step of the system   *)
(* is one of RopeXifProtocol's.                                             *)
KeepsProtocol == Protocol!Spec

(* What the core is handed in WB is the rotation of the instruction there,  *)
(* by the operands its program gave it.                                     *)
OwnResult ==
  XifInWb /\ ResultValid =>
    FifoHead = [id |-> ex_wb_pipe.xif_id,
                data |-> Rotation(OperandsOf(ex_wb_pipe.insn,
                                             ex_wb_pipe.insn.rs1))]

(* A rotation that was accepted writes its register: the source says        *)
(* "ROPE.ROT always writes rd".                                             *)
AlwaysWritesRd ==
  /\ AcceptedInEx => id_ex_pipe.rf_we
  /\ XifInWb => ex_wb_pipe.rf_we

(* Whatever the coprocessor holds and does not know to be killed belongs to *)
(* a rotation that is still in the core's pipeline.                         *)
NoOrphan ==
  \A p \in Live : \E j \in DOMAIN Pending : Pending[j].id = Content(p).id

(* The prefetch build never makes WB wait ("zero WB stall").                *)
ZeroWbStall == UsePrefetch => (XifInWb => ResultValid)

(* A load is put on the data bus once.                                      *)
OneTransaction == TransValid => ~id_ex_pipe.sent

(* A rotation that was told to commit is not killed any more: it leaves EX  *)
(* for WB and WB with its result.                                           *)
CommitIsFinal ==
  [][/\ AcceptedInEx /\ commit_valid_q =>
          \/ id_ex_pipe' = id_ex_pipe
          \/ ex_wb_pipe'.xif_en /\ ex_wb_pipe'.insn = id_ex_pipe.insn
     /\ XifInWb /\ ~ResultValid => ex_wb_pipe' = ex_wb_pipe]_vars

(* A rotation that waits in WB gets its result and retires.                 *)
RotationRetires == XifInWb ~> ~XifInWb

(* A pending interrupt is taken.                                            *)
InterruptTaken == irq ~> ~irq

=============================================================================
