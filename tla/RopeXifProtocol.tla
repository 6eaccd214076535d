--------------------------- MODULE RopeXifProtocol ---------------------------
(***************************************************************************)
(* The coprocessor of RopeXif driven by any core that follows the XIF      *)
(* protocol: it offers what it likes, commits or kills what it offloaded   *)
(* in issue order, and takes results when it likes.                        *)
(***************************************************************************)
EXTENDS RopeXif, Sequences, SequencesExt

CONSTANTS
  IssuedOps,       \* the operands the core issues
  SteadyRequests   \* after a resync, is the same rotation offered again?

ASSUME ProtocolAssumption ==
  /\ IssuedOps \subseteq Operands /\ IssuedOps # {}
  /\ SteadyRequests \in BOOLEAN

\* What the core still expects a result for, oldest first.
VARIABLE outstanding

vars == <<coprocVars, prefetchVars, outstanding>>

Expected == [id : Ids, op : Operands, committed : BOOLEAN]

Init == CoprocInit /\ outstanding = <<>>

-----------------------------------------------------------------------------
(* The core's inputs.                                                       *)

\* The ids the coprocessor still holds something of when this cycle ends.
\* The counter that gives ids to instructions comes round to an id only after
\* the result of its previous user is taken, in the same cycle at the soonest.
HeldIds(rdy) ==
  {Content(p).id : p \in Held \ (IF ResultTaken(rdy) THEN {0} ELSE {})}

SomeId == CHOOSE id \in Ids : TRUE
SomeOp == CHOOSE op \in IssuedOps : TRUE

\* The operands of the rotation that may be offered now.
OfferedOps ==
  {op \in IssuedOps : SteadyRequests /\ recover_q => op.m = m_q /\ op.i = i_q}

NoRotation(offered) ==
  [valid : {offered}, rot : {FALSE}, rs_valid : {offered},
   id : {SomeId}, op : {SomeOp}]

CoreRequests(held) ==
  NoRotation(FALSE)            \* nothing in ID
    \cup NoRotation(TRUE)      \* an instruction that is not a rotation
    \cup [valid : {TRUE}, rot : {TRUE}, rs_valid : BOOLEAN,
          id : Ids \ held, op : OfferedOps]

\* The oldest instruction the core has not decided yet.  This core decides in
\* EX, one cycle after it offloaded the instruction at the soonest.
Undecided ==
  LET open == {k \in DOMAIN outstanding : ~outstanding[k].committed}
  IN  {id \in Ids : \E k \in open : /\ outstanding[k].id = id
                                     /\ \A j \in open : k <= j}

\* An instruction the coprocessor rejected is killed too, by its own id; it
\* has left ID, so it is not the one that is offered.
RejectedIds(req, held) ==
  Ids \ (held \cup (IF req.rot THEN {req.id} ELSE {}))

CoreCommits(req, held) ==
  [valid : {FALSE}, kill : {FALSE}, id : {SomeId}]
    \cup [valid : {TRUE}, kill : BOOLEAN, id : Undecided]
    \cup [valid : {TRUE}, kill : {TRUE}, id : RejectedIds(req, held)]

NewExpected(req) == [id |-> req.id, op |-> req.op, committed |-> FALSE]

\* A kill takes one instruction out of what the core waits for.
KilledAt(com, q) == {k \in DOMAIN q : KillOf(com, q[k].id)}

Spared(com, q) ==
  IF KilledAt(com, q) = {} THEN q ELSE RemoveAt(q, CHOOSE k \in KilledAt(com, q) : TRUE)

\* A commit is noted.
Noted(com, q) ==
  [k \in DOMAIN q |->
     [q[k] EXCEPT !.committed = @ \/ (com.valid /\ com.id = q[k].id)]]

CoreStep(req, com, rdy) ==
  LET left == IF ResultTaken(rdy) /\ outstanding # <<>>
              THEN Tail(outstanding) ELSE outstanding
      all  == IF Accept(req) THEN Append(left, NewExpected(req)) ELSE left
  IN  outstanding' = Noted(com, Spared(com, all))

Cycle(req, com, rdy) == CoprocStep(req, com, rdy) /\ CoreStep(req, com, rdy)

\* A cycle in which the core takes a result or not, if one is offered.
CycleWith(rdy) ==
  LET held == HeldIds(rdy)
  IN  \E req \in CoreRequests(held) :
        \E com \in CoreCommits(req, held) : Cycle(req, com, rdy)

Next == \E rdy \in BOOLEAN : CycleWith(rdy)

Spec == Init /\ [][Next]_vars

\* The clock runs and the core takes a result offered for ever (its WB stage
\* waits with result_ready high until the result is there).
ReadyCycle == CycleWith(TRUE)

\* The core decides every instruction it offloaded.
DecidingCycle ==
  \E rdy \in BOOLEAN :
    LET held == HeldIds(rdy)
    IN  \E req \in CoreRequests(held) :
          \E com \in CoreCommits(req, held) :
            com.valid /\ com.id \in Undecided /\ Cycle(req, com, rdy)

FairSpec == Spec /\ WF_vars(ReadyCycle)

-----------------------------------------------------------------------------

TypeOK ==
  /\ CoprocTypeOK
  /\ outstanding \in Seq(Expected)

(* What the coprocessor presents is the result of the oldest instruction    *)
(* the core still waits for, that one is committed, and it was rotated by   *)
(* its own operands: nothing is written back for a killed instruction, out  *)
(* of order, twice, or with another instruction's data.                     *)
ResultIsOwn ==
  ResultValid =>
    /\ outstanding # <<>>
    /\ outstanding[1].committed
    /\ FifoHead = [id |-> outstanding[1].id,
                   data |-> Rotation(outstanding[1].op)]

(* No commit is lost: what the core committed carries the committed flag    *)
(* and no stale kill ("must be observable at any time").                    *)
CommitsSeen ==
  \A k \in DOMAIN outstanding :
    /\ outstanding[k].committed <=> outstanding[k].id \in committed
    /\ outstanding[k].id \notin killed

(* A committed instruction gets its result, whatever becomes of the later   *)
(* ones: they need not even be committed.                                   *)
CommittedReturns ==
  \A id \in Ids :
    LET waits == \E k \in DOMAIN outstanding :
                   outstanding[k].id = id /\ outstanding[k].committed
    IN  waits ~> ~waits

(* A coprocessor that is out of credits gets one back, provided that the    *)
(* core decides what it offloaded.                                          *)
CreditsComeBack ==
  WF_vars(DecidingCycle) => (credit = FifoDepth ~> credit < FifoDepth)

-----------------------------------------------------------------------------
(* The coprocessor implements XifOffload: the queue is what it holds, in     *)
(* the order of the places, less what is killed.                            *)

Offload == INSTANCE XifOffload
             WITH queue <- Contents, Capacity <- FifoDepth

OffloadSpec == Offload!Spec

=============================================================================
