---------------------------- MODULE RopeXifProofs ----------------------------
(***************************************************************************)
(* Lemmas about the coprocessor alone, whatever drives it: credits, FIFO   *)
(* pointers and places, for every number of ids, FIFO depth, pipeline      *)
(* depth and set of operands.                                              *)
(***************************************************************************)
EXTENDS RopeXif, FiniteSetTheorems, TLAPS

(* What the assumptions say of the module parameters. *)
LEMMA Parameters ==
  /\ NumPipeRegs \in Nat
  /\ FifoDepth \in Nat /\ FifoDepth >= 1
  /\ UsePrefetch \in BOOLEAN
BY CoprocAssumption, PrefetchAssumption

(* What a pipeline holds. *)
Filled(pipe) == {k \in Stages : pipe[k] # NoEntry}

(* The datapath has at least one stage, and finitely many. *)
LEMMA StagesFinite ==
  /\ Latency \in Nat /\ Latency >= 1
  /\ Stages \subseteq Nat
  /\ IsFiniteSet(Stages)
<1>1. Latency \in Nat /\ Latency >= 1
  BY Parameters DEF Latency
<1>2. IsFiniteSet(1 .. Latency)
  BY <1>1, FS_Interval
<1>3. QED
  BY <1>1, <1>2 DEF Stages

(* A shift moves every stage on by one (tag_pipe_q, rope_datapath). *)
LEMMA ShiftStage ==
  ASSUME NEW pipe, NEW in, NEW n \in Stages
  PROVE  Shift(pipe, in)[n] = IF n = 1 THEN in ELSE pipe[n - 1]
BY DEF Shift

(* The number of filled stages grows by what enters and shrinks by what    *)
(* leaves when a pipeline shifts.                                          *)
LEMMA ShiftCount ==
  ASSUME NEW pipe, NEW in
  PROVE  /\ Cardinality(Filled(pipe)) \in Nat
         /\ Cardinality(Filled(Shift(pipe, in))) \in Nat
         /\ Cardinality(Filled(Shift(pipe, in)))
              = Cardinality(Filled(pipe)) + One(in # NoEntry)
                                          - One(pipe[Latency] # NoEntry)
<1> DEFINE A == Filled(pipe)
           B == Filled(Shift(pipe, in))
           A0 == A \ {Latency}
           B0 == B \ {1}
           f == [k \in A0 |-> k + 1]
<1>1. A \subseteq Stages /\ B \subseteq Stages
  BY DEF Filled
<1>2. IsFiniteSet(A) /\ IsFiniteSet(B) /\ IsFiniteSet(A0) /\ IsFiniteSet(B0)
  BY <1>1, StagesFinite, FS_Subset
<1>3. Cardinality(A) \in Nat /\ Cardinality(B) \in Nat
  BY <1>2, FS_CardinalityType
<1>4. ExistsBijection(A0, B0)
  <2>1. f \in [A0 -> B0]
    <3> SUFFICES ASSUME NEW k \in A0 PROVE k + 1 \in B0
      OBVIOUS
    <3>1. k \in Stages /\ k # Latency /\ pipe[k] # NoEntry
      BY DEF Filled
    <3>2. k + 1 \in Stages /\ k + 1 # 1 /\ k + 1 - 1 = k
      BY <3>1, StagesFinite DEF Stages
    <3>3. Shift(pipe, in)[k + 1] = pipe[k]
      <4> DEFINE n == k + 1
      <4>1. n \in Stages /\ n # 1 /\ n - 1 = k
        BY <3>1, <3>2, StagesFinite
      <4> HIDE DEF n
      <4>2. Shift(pipe, in)[n] = pipe[k]
        BY <4>1, ShiftStage
      <4>3. QED
        BY <4>2 DEF n
    <3>4. QED
      BY <3>1, <3>2, <3>3 DEF Filled
  <2>2. \A k, l \in A0 : f[k] = f[l] => k = l
    <3> SUFFICES ASSUME NEW k \in A0, NEW l \in A0, k + 1 = l + 1
                 PROVE  k = l
      OBVIOUS
    <3>1. k \in Nat /\ l \in Nat
      BY <1>1, StagesFinite
    <3>2. QED
      BY <3>1
  <2>3. \A n \in B0 : \E k \in A0 : f[k] = n
    <3> SUFFICES ASSUME NEW n \in B0 PROVE \E k \in A0 : f[k] = n
      OBVIOUS
    <3>1. n \in Stages /\ n # 1 /\ Shift(pipe, in)[n] # NoEntry
      BY DEF Filled
    <3>2. n - 1 \in Stages /\ n - 1 # Latency /\ (n - 1) + 1 = n
      BY <3>1, StagesFinite DEF Stages
    <3>3. Shift(pipe, in)[n] = pipe[n - 1]
      BY <3>1, ShiftStage
    <3>4. n - 1 \in A0
      BY <3>1, <3>2, <3>3 DEF Filled
    <3>5. QED
      BY <3>2, <3>4
  <2>4. QED
    BY <2>1, <2>2, <2>3, Zenon
       DEF ExistsBijection, Bijection, Injection, Surjection,
           IsInjective
<1>5. Cardinality(A0) = Cardinality(B0)
  BY <1>2, <1>4, FS_Bijection
<1>6. Cardinality(A0) = Cardinality(A) - One(pipe[Latency] # NoEntry)
  <2>1. Latency \in Stages
    BY StagesFinite DEF Stages
  <2>2. Latency \in A <=> pipe[Latency] # NoEntry
    BY <2>1 DEF Filled
  <2>3. QED
    BY <1>2, <1>3, <2>2, FS_RemoveElement DEF One
<1>7. Cardinality(B0) = Cardinality(B) - One(in # NoEntry)
  <2>1. 1 \in Stages
    BY StagesFinite DEF Stages
  <2>2. Shift(pipe, in)[1] = in
    BY <2>1, ShiftStage
  <2>3. 1 \in B <=> in # NoEntry
    BY <2>1, <2>2 DEF Filled
  <2>4. QED
    BY <1>2, <1>3, <2>3, FS_RemoveElement DEF One
<1> DEFINE a == Cardinality(A)  b == Cardinality(B)
           u == One(in # NoEntry)  v == One(pipe[Latency] # NoEntry)
<1>8. u \in Int /\ v \in Int /\ a \in Nat /\ b \in Nat /\ a - v = b - u
  BY <1>3, <1>5, <1>6, <1>7 DEF One
<1> HIDE DEF a, b, u, v
<1>9. b = a + u - v
  BY <1>8
<1>10. QED
  BY <1>3, <1>9 DEF a, b, u, v

-----------------------------------------------------------------------------
(* The inductive invariant.  Credits bound the occupancy only because they  *)
(* count it exactly, and they count it exactly only because every result    *)
(* leaves the datapath together with its tag and the counter never wraps.   *)

IInv ==
  /\ CoprocTypeOK
  /\ TagsAligned
  /\ CreditExact
  /\ credit <= FifoDepth

(* The invariant holds out of reset. *)
LEMMA InitCredits == CoprocInit => IInv
<1> SUFFICES ASSUME CoprocInit PROVE IInv
  OBVIOUS
<1>1. CoprocTypeOK
  <2>1. PrefetchTypeOK
    <3>1. 0 \in Pairs
      BY PrefetchAssumption DEF Pairs
    <3>2. QED
      BY <3>1, PrefetchAssumption
         DEF CoprocInit, PrefetchInit, PrefetchTypeOK
  <2>2. 0 \in Pointers
    BY Parameters DEF Pointers
  <2>3. QED
    BY <2>1, <2>2 DEF CoprocInit, CoprocTypeOK
<1>2. TagsAligned
  BY DEF CoprocInit, TagsAligned
<1>3. NumStaged = 0 /\ NumCaptured = 0 /\ Occupancy = 0
  <2>1. {k \in Stages : tag_pipe[k] # NoEntry} = {}
    BY DEF CoprocInit
  <2>2. NumStaged = 0
    BY <2>1, FS_EmptySet DEF NumStaged
  <2>3. NumCaptured = 0 /\ Occupancy = 0
    BY DEF CoprocInit, NumCaptured, Occupancy
  <2>4. QED
    BY <2>2, <2>3
<1>4. QED
  BY <1>1, <1>2, <1>3, Parameters DEF CoprocInit, IInv, CreditExact
(* A cycle keeps the registers of the theta prefetch in their ranges. *)
LEMMA PrefetchTyped ==
  ASSUME PrefetchTypeOK,
         NEW op \in Operands, NEW issued, NEW accept, NEW kill \in BOOLEAN,
         \/ PrefetchStep(issued, op, accept, kill)
         \/ UNCHANGED prefetchVars
  PROVE  PrefetchTypeOK'
<1>1. op.m \in Positions /\ op.i \in Pairs
  BY DEF Operands
<1>2. NextPair(i_q) \in Pairs
  BY PrefetchAssumption DEF PrefetchTypeOK, Pairs, NextPair
<1>3. CASE UNCHANGED prefetchVars
  BY <1>3 DEF prefetchVars, PrefetchTypeOK
<1>4. CASE NeedResync(issued, op) /\ Resync(op)
  BY <1>1, <1>4 DEF Resync, PrefetchTypeOK
<1>5. CASE desync_q' = (desync_q \/ kill) /\ Advance
  BY <1>2, <1>5 DEF Advance, PrefetchTypeOK
<1>6. CASE /\ desync_q' = (desync_q \/ kill)
           /\ UNCHANGED <<m_q, i_q, theta_q, recover_q>>
  BY <1>6 DEF PrefetchTypeOK
<1>7. QED
  BY <1>3, <1>4, <1>5, <1>6 DEF PrefetchStep

(* The input of the datapath is well-formed. *)
LEMMA DatapathInput ==
  ASSUME CoprocTypeOK, NEW req \in Requests, DpValid(req)
  PROVE  /\ DpId(req) \in Ids /\ DpId(req) # NoEntry
         /\ DpData(req) \in Data /\ DpData(req) # NoEntry
<1>1. NoEntry \notin Ids /\ NoEntry \notin Data
  BY CoprocAssumption
<1>2. req.id \in Ids /\ req.op \in Operands
  BY DEF Requests
<1>3. CASE UsePrefetch
  <2>1. ThetaSel \in Pairs \cup {NoTheta} /\ m_q \in Positions
    BY DEF CoprocTypeOK, PrefetchTypeOK, ThetaSel
  <2>2. req.op.x \in Words
    BY <1>2 DEF Operands
  <2>3. [x |-> req.op.x, m |-> m_q, theta |-> ThetaSel] \in Data
    BY <2>1, <2>2 DEF Data
  <2>4. QED
    BY <1>1, <1>2, <1>3, <2>3 DEF DpId, DpData
<1>4. CASE ~UsePrefetch
  <2>1. capture \in [id : Ids, op : Operands]
    BY <1>4 DEF CoprocTypeOK, DpValid
  <2>2. capture.op.x \in Words /\ capture.op.m \in Positions
        /\ capture.op.i \in Pairs /\ capture.id \in Ids
    BY <2>1 DEF Operands
  <2>3. Rotation(capture.op) \in Data
    BY <2>2 DEF Rotation, Data
  <2>4. QED
    BY <1>1, <1>4, <2>2, <2>3 DEF DpId, DpData
<1>5. QED
  BY <1>3, <1>4

(* A pipeline keeps its type when it shifts. *)
LEMMA ShiftType ==
  ASSUME NEW S, NEW pipe \in [Stages -> S], NEW in \in S
  PROVE  Shift(pipe, in) \in [Stages -> S]
<1>1. ASSUME NEW n \in Stages, n # 1
      PROVE  n - 1 \in Stages
  BY <1>1, StagesFinite DEF Stages
<1>2. \A n \in Stages : (IF n = 1 THEN in ELSE pipe[n - 1]) \in S
  BY <1>1
<1>3. QED
  BY <1>2 DEF Shift

(* One cycle changes the occupancy by one push and one pop. *)
LEMMA OccupancyStep ==
  ASSUME CoprocTypeOK, NEW push \in BOOLEAN, NEW pop \in BOOLEAN,
         push => Occupancy < FifoDepth,
         pop => ~FifoEmpty,
         wr_ptr' = IF push THEN NextPtr(wr_ptr) ELSE wr_ptr,
         rd_ptr' = IF pop THEN NextPtr(rd_ptr) ELSE rd_ptr
  PROVE  /\ Occupancy \in Nat
         /\ Occupancy' = Occupancy + One(push) - One(pop)
         /\ wr_ptr' \in Pointers /\ rd_ptr' \in Pointers
<1>1. wr_ptr \in Pointers /\ rd_ptr \in Pointers
  BY DEF CoprocTypeOK
<1>2. QED
  BY <1>1, Parameters DEF Pointers, Occupancy, NextPtr, One, FifoEmpty
-----------------------------------------------------------------------------

(* In the inductive invariant a result leaves the datapath exactly when its *)
(* tag does, and is then either pushed or retired.                          *)
LEMMA PushOrRetire ==
  ASSUME IInv, NEW com \in Commits
  PROVE  /\ ResultPresent <=> CurTag # NoEntry
         /\ FifoPush(com) \in BOOLEAN /\ RetireKilled(com) \in BOOLEAN
         /\ One(ResultPresent) = One(FifoPush(com)) + One(RetireKilled(com))
<1>1. Latency \in Stages
  BY StagesFinite DEF Stages
<1>2. ResData = NoEntry <=> CurTag = NoEntry
  BY <1>1 DEF IInv, TagsAligned, ResData, CurTag
<1>3. QED
  BY <1>2 DEF ResultPresent, FifoPush, RetireKilled, One

(* What is in the datapath and in the FIFO, as numbers. *)
LEMMA StagedBound ==
  ASSUME IInv
  PROVE  /\ NumStaged \in Nat /\ NumCaptured \in {0, 1} /\ Occupancy \in Nat
         /\ ResultPresent => NumStaged >= 1
         /\ credit \in 0 .. FifoDepth
<1>1. IsFiniteSet(Filled(tag_pipe))
  BY StagesFinite, FS_Subset DEF Filled
<1>2. NumStaged = Cardinality(Filled(tag_pipe)) /\ NumStaged \in Nat
  BY <1>1, FS_CardinalityType DEF NumStaged, Filled
<1>3. ASSUME ResultPresent PROVE NumStaged >= 1
  <2>1. Latency \in Filled(tag_pipe)
    BY <1>3, StagesFinite DEF ResultPresent, CurTag, Filled, Stages
  <2>2. Cardinality(Filled(tag_pipe)) # 0
    BY <2>1, <1>1, FS_EmptySet
  <2>3. QED
    BY <2>2, <1>2
<1>4. Occupancy \in Nat
  BY Parameters DEF IInv, CoprocTypeOK, Pointers, Occupancy
<1>5. QED
  BY <1>2, <1>3, <1>4, Parameters
     DEF IInv, CoprocTypeOK, Pointers, NumCaptured

(* The FIFO has room for what leaves the datapath. *)
LEMMA RoomToPush ==
  ASSUME IInv
  PROVE  ResultPresent => Occupancy < FifoDepth
BY StagedBound, Parameters DEF IInv, CreditExact

(* Every clock cycle preserves the invariant, for any issue request, commit *)
(* and result_ready. *)
LEMMA StepInv ==
  ASSUME IInv,
         NEW req \in Requests, NEW com \in Commits, NEW rdy \in BOOLEAN,
         CoprocStep(req, com, rdy)
  PROVE  IInv'
<1> DEFINE in   == One(DpValid(req))
           acc  == One(Accept(req))
           out  == One(ResultPresent)
           push == One(FifoPush(com))
           kill == One(RetireKilled(com))
           pop  == One(FifoPop(rdy))
<1>1. FifoPop(rdy) => ~FifoEmpty
  BY DEF FifoPop, ResultTaken, ResultValid, FifoDrain
<1>2. FifoPush(com) => Occupancy < FifoDepth
  BY RoomToPush DEF FifoPush
<1>3. /\ Occupancy' = Occupancy + push - pop
      /\ wr_ptr' \in Pointers /\ rd_ptr' \in Pointers
  <2>1. FifoPop(rdy) \in BOOLEAN /\ FifoPush(com) \in BOOLEAN
    BY DEF FifoPop, FifoDrain, ResultTaken, ResultValid, FifoPush,
           ResultPresent
  <2>2. /\ wr_ptr' = IF FifoPush(com) THEN NextPtr(wr_ptr) ELSE wr_ptr
        /\ rd_ptr' = IF FifoPop(rdy) THEN NextPtr(rd_ptr) ELSE rd_ptr
    BY DEF CoprocStep, FifoStep
  <2>3. QED
    BY <1>1, <1>2, <2>1, <2>2, OccupancyStep DEF IInv
<1>4. /\ tag_pipe' \in [Stages -> Ids \cup {NoEntry}]
      /\ NumStaged' = NumStaged + in - out
  <2> DEFINE tag == IF DpValid(req) THEN DpId(req) ELSE NoEntry
  <2>1. tag_pipe' = Shift(tag_pipe, tag)
    BY DEF CoprocStep, TagStep
  <2>2. tag \in Ids \cup {NoEntry} /\ (tag # NoEntry <=> DpValid(req))
    BY DatapathInput DEF IInv
  <2>3. tag_pipe' \in [Stages -> Ids \cup {NoEntry}]
    BY <2>1, <2>2, ShiftType DEF IInv, CoprocTypeOK
  <2>4. /\ NumStaged = Cardinality(Filled(tag_pipe))
        /\ NumStaged' = Cardinality(Filled(Shift(tag_pipe, tag)))
    BY <2>1 DEF NumStaged, Filled
  <2>5. One(tag # NoEntry) = in /\ One(tag_pipe[Latency] # NoEntry) = out
    BY <2>2, PushOrRetire DEF One, CurTag
  <2>6. QED
    BY <2>3, <2>4, <2>5, ShiftCount
<1>5. /\ datapath' \in [Stages -> Data \cup {NoEntry}]
      /\ TagsAligned'
  <2> DEFINE data == IF DpValid(req) THEN DpData(req) ELSE NoEntry
             tag  == IF DpValid(req) THEN DpId(req) ELSE NoEntry
  <2>1. datapath' = Shift(datapath, data) /\ tag_pipe' = Shift(tag_pipe, tag)
    BY DEF CoprocStep, DatapathStep, TagStep
  <2>2. data \in Data \cup {NoEntry} /\ (data = NoEntry <=> tag = NoEntry)
    BY DatapathInput DEF IInv
  <2>3. datapath' \in [Stages -> Data \cup {NoEntry}]
    BY <2>1, <2>2, ShiftType DEF IInv, CoprocTypeOK
  <2>4. ASSUME NEW k \in Stages
        PROVE  datapath'[k] = NoEntry <=> tag_pipe'[k] = NoEntry
    <3>1. k # 1 => k - 1 \in Stages
      BY StagesFinite DEF Stages
    <3>2. /\ datapath'[k] = IF k = 1 THEN data ELSE datapath[k - 1]
          /\ tag_pipe'[k] = IF k = 1 THEN tag ELSE tag_pipe[k - 1]
      BY <2>1, ShiftStage
    <3>3. QED
      BY <2>2, <3>1, <3>2 DEF IInv, TagsAligned
  <2>5. QED
    BY <2>3, <2>4 DEF TagsAligned
<1>6. /\ capture' \in [id : Ids, op : Operands] \cup {NoEntry}
      /\ NumCaptured' + in = NumCaptured + acc
  <2>1. Captured(req) \in [id : Ids, op : Operands] /\ Captured(req) # NoEntry
    BY CoprocAssumption DEF Requests, Captured
  <2>2. CASE UsePrefetch
    BY <2>2 DEF CoprocStep, CaptureStep, NumCaptured, DpValid, IInv,
                CoprocTypeOK, One
  <2>3. CASE ~UsePrefetch
    BY <2>1, <2>3 DEF CoprocStep, CaptureStep, NumCaptured, DpValid, One
  <2>4. QED
    BY <2>2, <2>3
<1>7. /\ credit' = NumCaptured' + NumStaged' + Occupancy'
      /\ credit' \in 0 .. FifoDepth
  <2>1. credit = NumCaptured + NumStaged + Occupancy /\ credit <= FifoDepth
    BY DEF IInv, CreditExact
  <2>2. out = push + kill
    BY PushOrRetire
  <2>3. /\ in \in {0, 1} /\ acc \in {0, 1} /\ out \in {0, 1}
        /\ push \in {0, 1} /\ kill \in {0, 1} /\ pop \in {0, 1}
    BY DEF One
  <2>4. credit' = WrapCredit(credit + acc - pop - kill)
    BY DEF CoprocStep, CreditStep
  <2>5. acc = 1 => credit < FifoDepth
    BY DEF One, Accept, CanTake, HaveCredit
  <2>6. pop = 1 => Occupancy >= 1
    <3>1. pop = 1 => wr_ptr # rd_ptr
      BY <1>1 DEF One, FifoEmpty
    <3>2. wr_ptr \in Pointers /\ rd_ptr \in Pointers
      BY DEF IInv, CoprocTypeOK
    <3>3. wr_ptr # rd_ptr => Occupancy >= 1
      BY <3>2, Parameters DEF Pointers, Occupancy
    <3>4. QED
      BY <3>1, <3>3
  <2>7. out = 1 => NumStaged >= 1
    BY StagedBound DEF One
  <2>8. /\ NumStaged \in Nat /\ NumCaptured \in {0, 1} /\ Occupancy \in Nat
        /\ NumCaptured' \in {0, 1} /\ credit \in 0 .. FifoDepth
    BY StagedBound DEF NumCaptured
  <2> HIDE DEF in, acc, out, push, kill, pop
  <2> DEFINE staged == NumStaged  captured == NumCaptured  held == Occupancy
             captured1 == NumCaptured'
  <2>9. /\ Occupancy' = held + push - pop
        /\ NumStaged' = staged + in - out
        /\ captured1 + in = captured + acc
    BY <1>3, <1>4, <1>6
  <2>10. /\ credit = captured + staged + held
         /\ staged \in Nat /\ captured \in {0, 1} /\ held \in Nat
         /\ captured1 \in {0, 1}
         /\ pop = 1 => held >= 1
         /\ out = 1 => staged >= 1
    BY <2>1, <2>6, <2>7, <2>8
  <2> HIDE DEF staged, captured, held, captured1
  <2>11. credit + acc - pop - kill \in 0 .. FifoDepth
    BY <2>2, <2>3, <2>5, <2>8, <2>10, Parameters
  <2>12. credit + acc - pop - kill
           = captured1 + (staged + in - out) + (held + push - pop)
    BY <2>2, <2>3, <2>9, <2>10
  <2>13. credit' = credit + acc - pop - kill
    BY <2>4, <2>11, Parameters DEF WrapCredit
  <2>14. QED
    BY <2>9, <2>11, <2>12, <2>13 DEF captured1
<1>8. killed' \subseteq Ids /\ committed' \subseteq Ids
  BY DEF CoprocStep, FlagsStep, Commits, IInv, CoprocTypeOK
<1>9. fifo' \in [Slots -> Results \cup {NoEntry}]
  <2>1. fifo \in [Slots -> Results \cup {NoEntry}]
    BY DEF IInv, CoprocTypeOK
  <2>2. CASE ~FifoPush(com)
    BY <2>1, <2>2 DEF CoprocStep, FifoStep
  <2>3. CASE FifoPush(com)
    <3>1. Latency \in Stages
      BY StagesFinite DEF Stages
    <3>2. ResData \in Data /\ CurTag \in Ids
      BY <2>3, <3>1 DEF FifoPush, ResultPresent, ResData, CurTag, IInv,
                        CoprocTypeOK
    <3>3. [id |-> CurTag, data |-> ResData] \in Results
      BY <3>2 DEF Results
    <3>4. QED
      BY <2>1, <2>3, <3>3 DEF CoprocStep, FifoStep
  <2>4. QED
    BY <2>2, <2>3
<1>10. PrefetchTypeOK'
  <2>1. req.op \in Operands /\ KillSeen(com) \in BOOLEAN
    BY DEF Requests, Commits, KillSeen
  <2>2. \/ PrefetchStep(RotIssued(req), req.op, Accept(req), KillSeen(com))
        \/ UNCHANGED prefetchVars
    BY DEF CoprocStep
  <2>3. QED
    BY <2>1, <2>2, PrefetchTyped DEF IInv, CoprocTypeOK
<1>11. CoprocTypeOK'
  <2>1. credit' \in Pointers
    BY <1>7, Parameters DEF Pointers
  <2>2. QED
    BY <1>3, <1>4, <1>5, <1>6, <1>8, <1>9, <1>10, <2>1 DEF CoprocTypeOK
<1>12. QED
  BY <1>5, <1>7, <1>11 DEF IInv, CreditExact

-----------------------------------------------------------------------------

(* So does a step that leaves the registers alone. *)
LEMMA StutterCredits == IInv /\ UNCHANGED <<coprocVars, prefetchVars>> => IInv'
BY DEF coprocVars, prefetchVars, IInv, CoprocTypeOK, PrefetchTypeOK,
       TagsAligned, CreditExact, NumCaptured, NumStaged, Occupancy

-----------------------------------------------------------------------------
(* The places, one by one.                                                  *)

LEMMA PlaceBounds ==
  /\ FifoDepth \in Nat /\ FifoDepth >= 1 /\ CapturePlace \in Nat
  /\ CapturePlace > FifoDepth
  /\ \A k \in Stages : StagePlace(k) \in FifoDepth .. CapturePlace - 1
  /\ \A p \in FifoDepth .. CapturePlace - 1 :
       StagePlace(p) \in Stages /\ StagePlace(StagePlace(p)) = p
BY Parameters, StagesFinite DEF CapturePlace, StagePlace, Stages

(* Which places hold something, as one condition on a place.                *)
PlaceByPlace ==
  /\ Held \subseteq 0 .. CapturePlace
  /\ \A p \in 0 .. CapturePlace :
       p \in Held <=>
         IF p < FifoDepth THEN p < Occupancy
         ELSE IF p < CapturePlace THEN tag_pipe[StagePlace(p)] # NoEntry
         ELSE capture # NoEntry

LEMMA HeldPlaces == PlaceByPlace
<1> DEFINE inFifo == {p \in 0 .. FifoDepth - 1 : p < Occupancy}
           inPipe == {StagePlace(k) : k \in {l \in Stages : tag_pipe[l] # NoEntry}}
           inCapture == IF capture = NoEntry THEN {} ELSE {CapturePlace}
<1>1. Held = inFifo \cup inPipe \cup inCapture
  BY DEF Held
<1>2. inFifo \subseteq 0 .. FifoDepth - 1
  OBVIOUS
<1>3. inPipe \subseteq FifoDepth .. CapturePlace - 1
  BY PlaceBounds
<1>4. \A p \in 0 .. FifoDepth - 1 : p \in inFifo <=> p < Occupancy
  OBVIOUS
<1>5. ASSUME NEW p \in FifoDepth .. CapturePlace - 1
      PROVE  p \in inPipe <=> tag_pipe[StagePlace(p)] # NoEntry
  <2>1. StagePlace(p) \in Stages /\ StagePlace(StagePlace(p)) = p
    BY PlaceBounds
  <2>2. ASSUME tag_pipe[StagePlace(p)] # NoEntry PROVE p \in inPipe
    BY <2>1, <2>2
  <2>3. ASSUME NEW k \in Stages, tag_pipe[k] # NoEntry, p = StagePlace(k)
        PROVE  tag_pipe[StagePlace(p)] # NoEntry
    <3>1. StagePlace(p) = k
      BY <2>3, PlaceBounds, StagesFinite DEF StagePlace, Stages
    <3> QED
      BY <2>3, <3>1
  <2> QED
    BY <2>2, <2>3
<1> HIDE DEF inFifo, inPipe
<1>6. QED
  BY <1>1, <1>2, <1>3, <1>4, <1>5, PlaceBounds DEF PlaceByPlace

LEMMA PlacesAreNumbers == Held \subseteq Nat /\ Live \subseteq Nat
<1>1. Held \subseteq 0 .. CapturePlace
  BY HeldPlaces DEF PlaceByPlace
<1>2. 0 .. CapturePlace \subseteq Nat
  BY PlaceBounds
<1>3. Live \subseteq Held
  BY DEF Live
<1>4. QED
  BY <1>1, <1>2, <1>3

(* The same after a step.                                                   *)
LEMMA HeldPlacesNext == PlaceByPlace'
BY HeldPlaces, PTL

(* The FIFO pointers: a pop moves every entry one place towards the head,   *)
(* and the write pointer is the place behind the last entry.                *)
LEMMA PointerSteps ==
  ASSUME IInv
  PROVE  /\ PtrAfter(Occupancy) = wr_ptr
         /\ \A n \in 0 .. FifoDepth : PtrAfter(n) \in Pointers
         /\ \A n \in 0 .. FifoDepth : Slot(PtrAfter(n)) \in Slots
         /\ \A n \in 1 .. FifoDepth - 1 : Slot(PtrAfter(n)) # Slot(rd_ptr)
         /\ \A n \in 0 .. FifoDepth - 1 :
              n < Occupancy /\ Occupancy < FifoDepth
                => Slot(PtrAfter(n)) # Slot(wr_ptr)
         /\ \A n \in 1 .. FifoDepth :
              IF NextPtr(rd_ptr) + (n - 1) < 2 * FifoDepth
              THEN PtrAfter(n) = NextPtr(rd_ptr) + (n - 1)
              ELSE PtrAfter(n) = NextPtr(rd_ptr) + (n - 1) - 2 * FifoDepth
<1>1. wr_ptr \in Pointers /\ rd_ptr \in Pointers
  BY DEF IInv, CoprocTypeOK
<1>2. Occupancy \in 0 .. FifoDepth
  <2>1. Occupancy \in Nat /\ NumStaged \in Nat /\ NumCaptured \in Nat
        /\ credit \in 0 .. FifoDepth /\ credit = NumCaptured + NumStaged + Occupancy
    BY StagedBound DEF IInv, CreditExact
  <2> QED
    BY <2>1, Parameters
<1>3. QED
  BY <1>1, <1>2, Parameters DEF Pointers, PtrAfter, Slot, Slots, Occupancy, NextPtr

(* What a cycle does to the FIFO, entry by entry.                           *)
LEMMA FifoEntries ==
  ASSUME IInv, IInv', NEW req \in Requests, NEW com \in Commits,
         NEW rdy \in BOOLEAN, CoprocStep(req, com, rdy)
  PROVE  /\ Occupancy \in 0 .. FifoDepth
         /\ ResultPresent => Occupancy < FifoDepth
         /\ Occupancy' = Occupancy + One(FifoPush(com)) - One(FifoPop(rdy))
         /\ FifoPop(rdy) => Occupancy >= 1
         /\ \A m, n \in 0 .. FifoDepth - 1 :
              n < Occupancy /\ m = n - One(FifoPop(rdy))
                => InFifo(m)' = InFifo(n)
         /\ \A m \in 0 .. FifoDepth - 1 :
              FifoPush(com) /\ m = Occupancy - One(FifoPop(rdy))
                => InFifo(m)' = [id |-> CurTag, data |-> ResData]
<1> DEFINE push == FifoPush(com)
           pop  == FifoPop(rdy)
           occ  == Occupancy
           entry == [id |-> CurTag, data |-> ResData]
<1>1. /\ wr_ptr' = IF push THEN NextPtr(wr_ptr) ELSE wr_ptr
      /\ rd_ptr' = IF pop THEN NextPtr(rd_ptr) ELSE rd_ptr
      /\ \A s \in Slots :
           fifo'[s] = IF push /\ s = Slot(wr_ptr) THEN entry
                      ELSE IF pop /\ s = Slot(rd_ptr) THEN NoEntry ELSE fifo[s]
  BY DEF CoprocStep, FifoStep
<1>2. push \in BOOLEAN /\ pop \in BOOLEAN /\ (pop => ~FifoEmpty)
      /\ (push => ResultPresent)
  BY DEF FifoPop, FifoDrain, ResultTaken, ResultValid, FifoPush, ResultPresent
<1>3. /\ occ \in 0 .. FifoDepth
      /\ ResultPresent => occ < FifoDepth
  <2>1. Occupancy \in Nat /\ NumStaged \in Nat /\ NumCaptured \in Nat
        /\ credit \in 0 .. FifoDepth /\ credit = NumCaptured + NumStaged + Occupancy
    BY StagedBound DEF IInv, CreditExact
  <2> QED
    BY <2>1, Parameters, RoomToPush
<1>4. occ' = occ + One(push) - One(pop)
  BY <1>1, <1>2, <1>3, OccupancyStep DEF IInv
<1>5. pop => occ >= 1
  <2>1. wr_ptr \in Pointers /\ rd_ptr \in Pointers
    BY DEF IInv, CoprocTypeOK
  <2> QED
    BY <1>2, <2>1, Parameters DEF Pointers, Occupancy, FifoEmpty
<1>6. \A n \in 0 .. FifoDepth - 1 :
        IF pop THEN PtrAfter(n)' = PtrAfter(n + 1) ELSE PtrAfter(n)' = PtrAfter(n)
  <2>1. CASE pop
    <3> SUFFICES ASSUME NEW n \in 0 .. FifoDepth - 1
                 PROVE  PtrAfter(n)' = PtrAfter(n + 1)
      BY <2>1
    <3>1. n + 1 \in 1 .. FifoDepth /\ (n + 1) - 1 = n
      BY Parameters
    <3>2. IF NextPtr(rd_ptr) + n < 2 * FifoDepth
          THEN PtrAfter(n + 1) = NextPtr(rd_ptr) + n
          ELSE PtrAfter(n + 1) = NextPtr(rd_ptr) + n - 2 * FifoDepth
      BY <3>1, PointerSteps
    <3> QED
      BY <1>1, <2>1, <3>2 DEF PtrAfter
  <2>2. CASE ~pop
    BY <1>1, <2>2 DEF PtrAfter
  <2> QED
    BY <2>1, <2>2
<1>7. ASSUME NEW m \in 0 .. FifoDepth - 1, NEW n \in 0 .. FifoDepth - 1,
             n < occ, m = n - One(pop)
      PROVE  InFifo(m)' = InFifo(n)
  <2>1. (pop => m + 1 = n /\ n \in 1 .. FifoDepth - 1)
        /\ (~pop => m = n)
    BY <1>7, Parameters DEF One
  <2>2. PtrAfter(m)' = PtrAfter(n)
    BY <1>6, <2>1
  <2>3. /\ Slot(PtrAfter(n)) \in Slots
        /\ push => Slot(PtrAfter(n)) # Slot(wr_ptr)
        /\ pop => Slot(PtrAfter(n)) # Slot(rd_ptr)
    BY <1>2, <1>3, <1>7, <2>1, PointerSteps, Parameters
  <2>4. fifo'[Slot(PtrAfter(n))] = fifo[Slot(PtrAfter(n))]
    BY <1>1, <2>3
  <2>5. InFifo(m)' = fifo'[Slot(PtrAfter(m)')]
    BY DEF InFifo, Slot
  <2>6. InFifo(m)' = InFifo(n)
    BY <2>2, <2>4, <2>5 DEF InFifo
  <2> QED
    BY <2>6
<1>8. ASSUME NEW m \in 0 .. FifoDepth - 1, push, m = occ - One(pop)
      PROVE  InFifo(m)' = entry
  <2>1. (pop => m + 1 = occ) /\ (~pop => m = occ)
    BY <1>2, <1>3, <1>5, <1>8, Parameters DEF One
  <2>2. PtrAfter(m)' = wr_ptr
    BY <1>6, <2>1, PointerSteps
  <2>3. Slot(wr_ptr) \in Slots
    BY <1>3, PointerSteps
  <2>4. fifo'[Slot(wr_ptr)] = entry
    BY <1>1, <1>8, <2>3
  <2>5. InFifo(m)' = fifo'[Slot(PtrAfter(m)')]
    BY DEF InFifo, Slot
  <2> QED
    BY <2>2, <2>4, <2>5
<1>9. QED
  BY <1>3, <1>4, <1>5, <1>7, <1>8

(* What a cycle does to the datapath and to its tags, stage by stage.       *)
LEMMA PipeStages ==
  ASSUME NEW req, NEW com, NEW rdy, CoprocStep(req, com, rdy),
         NEW k \in Stages
  PROVE  /\ tag_pipe'[k] = IF k = 1 THEN IF DpValid(req) THEN DpId(req)
                                                         ELSE NoEntry
                                    ELSE tag_pipe[k - 1]
         /\ datapath'[k] = IF k = 1 THEN IF DpValid(req) THEN DpData(req)
                                                         ELSE NoEntry
                                    ELSE datapath[k - 1]
BY ShiftStage DEF CoprocStep, DatapathStep, TagStep

=============================================================================
