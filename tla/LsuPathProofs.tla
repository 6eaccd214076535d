---------------------------- MODULE LsuPathProofs ---------------------------
(***************************************************************************)
(* The invariant of the way of a load or store, for every set of accesses, *)
(* and what the pipeline does to it: nothing that has begun is killed, a   *)
(* request is held until it is granted, and every answer is the right one. *)
(***************************************************************************)
EXTENDS LsuPath, Integers, SequenceTheorems, TLAPS

Bit(b) == IF b THEN 1 ELSE 0

(* The second half is under way only while its access waits in EX. *)
SplitInv == split_q => id_ex_pipe \in Accesses /\ Len(id_ex_pipe.attrs) = 2

(* The unit counts what the filter counts and what a gate has taken. *)
GatesInv ==
  /\ cnt_q = core_cnt_q + Bit(wpt_state # "IDLE") + Bit(mpu_state # "IDLE")
  /\ wpt_state = "IDLE" \/ mpu_state = "IDLE"
  /\ wpt_state = "WAIT" \/ mpu_state = "WAIT" => cnt_q = 2
  /\ wpt_state = "RESP" \/ mpu_state = "RESP" => cnt_q = 1

(* The core has been answered early for bufferable transfers only. *)
FilterInv ==
  /\ core_cnt_q <= bus_cnt_q
  /\ outstanding_q[0] = FALSE
  /\ \A n \in 1 .. 2 : core_cnt_q < n /\ n <= bus_cnt_q => outstanding_q[n] = TRUE

(* What the filter has passed on is on the bus or in the write buffer. *)
BufferInv ==
  /\ granted \in Seq(Transfers)
  /\ bus_cnt_q = Len(granted) + Bit(WbufFull)
  /\ owed = IF WbufFull THEN <<wbuf>> ELSE <<>>

(* The core waits for what the unit counts. *)
WaitInv == waiting \in Seq(Transfers) /\ Len(waiting) = cnt_q

(* Once a fence has seen the unit idle, it stays so. *)
FenceInv == fence_req_q => cnt_q = 0 /\ bus_cnt_q = 0

PathInv == /\ TypeOK /\ Possible /\ SplitInv /\ GatesInv /\ FilterInv
           /\ BufferInv /\ WaitInv /\ FenceInv

-----------------------------------------------------------------------------

(* A queue after a step. *)
After(q, drop, add, t) ==
  (IF drop THEN Tail(q) ELSE q) \o (IF add THEN <<t>> ELSE <<>>)

LEMMA QueueStep ==
  ASSUME NEW S, NEW q \in Seq(S), NEW drop \in BOOLEAN, NEW add \in BOOLEAN, NEW t,
         drop => q # <<>>, add => t \in S
  PROVE  /\ After(q, drop, add, t) \in Seq(S)
         /\ Len(After(q, drop, add, t)) = Len(q) - Bit(drop) + Bit(add)
<1> DEFINE h == IF drop THEN Tail(q) ELSE q
           a == IF add THEN <<t>> ELSE <<>>
<1>1. h \in Seq(S) /\ Len(h) = Len(q) - Bit(drop)
  <2>1. CASE drop
    BY <2>1 DEF Bit
  <2>2. CASE ~drop
    BY <2>2 DEF Bit
  <2>3. QED
    BY <2>1, <2>2
<1>2. a \in Seq(S) /\ Len(a) = Bit(add)
  <2>1. CASE add
    BY <2>1 DEF Bit
  <2>2. CASE ~add
    BY <2>2 DEF Bit
  <2>3. QED
    BY <2>1, <2>2
<1> HIDE DEF h, a
<1>3. h \o a \in Seq(S) /\ Len(h \o a) = Len(h) + Len(a)
  <2>1. h \in Seq(S) /\ a \in Seq(S)
    BY <1>1, <1>2
  <2>2. QED
    BY <2>1, ConcatProperties, Zenon
<1>4. h \o a \in Seq(S) /\ Len(h \o a) = Len(q) - Bit(drop) + Bit(add)
  BY <1>1, <1>2, <1>3
<1>5. QED
  BY <1>4 DEF h, a, After

LEMMA SecondOfTwo ==
  ASSUME NEW S, NEW a \in S, NEW b \in S
  PROVE  Tail(<<a>> \o <<b>>) = <<b>>
<1>1. <<a>> \in Seq(S) /\ <<a>> # <<>> /\ Tail(<<a>>) = <<>>
  OBVIOUS
<1>2. <<a>> \o <<b>> = Append(<<a>>, b)
  BY <1>1
<1>3. Tail(Append(<<a>>, b)) = Append(Tail(<<a>>), b)
  BY <1>1
<1>4. Append(<<>>, b) = <<b>>
  OBVIOUS
<1>5. QED
  BY <1>1, <1>2, <1>3, <1>4

LEMMA PipeKinds ==
  ASSUME TypeOK, id_ex_pipe.kind = "lsu"
  PROVE  /\ id_ex_pipe \in Accesses
         /\ id_ex_pipe.we \in BOOLEAN /\ id_ex_pipe.attrs \in Seq(Attributes)
         /\ Len(id_ex_pipe.attrs) \in {1, 2}
BY LsuAssumption DEF TypeOK, Others

LEMMA AttributesOf == ASSUME NEW t \in Transfers PROVE t.attr \in Attributes
<1>1. PICK a \in Accesses : \E k \in DOMAIN a.attrs : t = TransferOf(a, k)
  BY DEF Transfers
<1>2. PICK k \in DOMAIN a.attrs : t = TransferOf(a, k)
  BY <1>1
<1>3. a.attrs[k] \in Attributes
  BY <1>2, LsuAssumption
<1>4. QED
  BY <1>2, <1>3 DEF TransferOf

(* What is offered is a transfer of the access in EX. *)
LEMMA Offered ==
  ASSUME PathInv, TransValid
  PROVE  /\ Trans \in Transfers /\ cnt_q < 2 /\ id_ex_pipe \in Accesses
         /\ ~KillEx /\ ~HaltEx
<1>1. id_ex_pipe.kind = "lsu" /\ ~KillEx /\ ~HaltEx /\ cnt_q < 2
  BY LsuAssumption DEF TransValid, Valid0, ExValidInstr
<1>2. id_ex_pipe \in Accesses /\ id_ex_pipe.attrs \in Seq(Attributes)
      /\ Len(id_ex_pipe.attrs) \in {1, 2}
  BY <1>1, PipeKinds DEF PathInv
<1>3. PICK k \in {1, 2} : k = (IF split_q THEN 2 ELSE 1) /\ k <= Len(id_ex_pipe.attrs)
  BY <1>2, SMTT(30) DEF PathInv, SplitInv
<1>4. k \in DOMAIN id_ex_pipe.attrs
  BY <1>2, <1>3
<1>5. Trans = TransferOf(id_ex_pipe, k)
  BY <1>3 DEF Trans
<1>6. Trans \in Transfers
  BY <1>2, <1>4, <1>5 DEF Transfers
<1>7. QED
  BY <1>1, <1>2, <1>6

(* Each transfer is taken once, and by one stage. *)
LEMMA TakenOnce ==
  ASSUME PathInv
  PROVE  /\ CountUp => TransValid
         /\ Bit(CountUp) = Bit(WptHit) + Bit(MpuHit) + Bit(FilterAccepts)
         /\ WptHit => wpt_state = "IDLE"
         /\ MpuHit => wpt_state = "IDLE" /\ mpu_state = "IDLE"
         /\ FilterAccepts => bus_cnt_q < 2 /\ wpt_state = "IDLE" /\ mpu_state = "IDLE"
BY LsuAssumption DEF CountUp, WptHit, MpuHit, FilterAccepts, BufferTransValid, FilterTransValid,
   MpuTransValid, Bit

(* The core is answered when it waits, and by one stage. *)
LEMMA AnsweredOnce ==
  ASSUME PathInv
  PROVE  /\ in.rvalid => granted # <<>> /\ Len(granted) >= 1 /\ bus_cnt_q >= 1
         /\ FilterRespValid => core_cnt_q >= 1
         /\ Bit(RespValid) = Bit(FilterRespValid) + Bit(wpt_state = "RESP")
                               + Bit(mpu_state = "RESP")
         /\ RespValid => cnt_q >= 1
<1>1. in.rvalid => granted # <<>> /\ Len(granted) >= 1 /\ bus_cnt_q >= 1
  <2>1. in.rvalid => granted # <<>>
    BY DEF PathInv, Possible
  <2>2. granted # <<>> => Len(granted) >= 1
    BY DEF PathInv, BufferInv
  <2>3. QED
    BY <2>1, <2>2 DEF PathInv, BufferInv, Bit
<1>2. FilterRespValid => core_cnt_q >= 1
  BY <1>1, LsuAssumption DEF PathInv, FilterInv, FilterRespValid, TypeOK
<1>3. core_cnt_q \in 0 .. 2 /\ cnt_q \in 0 .. 2 /\ wpt_state \in GateStates /\ mpu_state \in GateStates
  BY LsuAssumption DEF PathInv, TypeOK
<1>4. QED
  BY <1>1, <1>2, <1>3 DEF PathInv, GatesInv, RespValid, Bit, GateStates

(* What the filter accepts goes to the bus or stays in the write buffer, and *)
(* the buffer gives away what it holds.                                      *)
Sent == BusTransValid /\ in.gnt

LEMMA BufferBalance ==
  ASSUME PathInv, BufferStep
  PROVE  /\ Bit(FilterAccepts) + Bit(WbufFull) = Bit(Sent) + Bit(WbufFull')
         /\ wbuf' \in Transfers \cup {NoTransfer}
         /\ FilterAccepts => Trans \in Transfers
         /\ Sent <=> in.gnt
         /\ Sent => FilterAccepts \/ WbufFull
<1>1. FilterAccepts => BufferTransValid
  BY DEF FilterAccepts
<1>2. BufferTransValid => TransValid
  BY DEF BufferTransValid, FilterTransValid, MpuTransValid
<1>3. BufferTransValid => Trans \in Transfers /\ Trans # NoTransfer
  <2>1. BufferTransValid => Trans \in Transfers
    BY <1>2, Offered
  <2>2. NoTransfer \notin Transfers
    BY AttributesOf DEF NoTransfer, Attributes
  <2>3. QED
    BY <2>1, <2>2
<1>4. in.gnt => BusTransValid
  BY DEF PathInv, Possible
<1>5. wbuf' = IF Bufferable /\ (WbufFull <=> in.gnt) THEN Trans
              ELSE IF in.gnt THEN NoTransfer ELSE wbuf
  BY DEF BufferStep
<1>6. Bufferable => BufferTransValid
  BY DEF Bufferable
<1>7. wbuf \in Transfers \cup {NoTransfer} /\ in.gnt \in BOOLEAN
  BY DEF PathInv, TypeOK
<1>8. wbuf' \in Transfers \cup {NoTransfer}
  BY <1>3, <1>5, <1>6, <1>7
<1>9. WbufFull' <=> ((Bufferable /\ (WbufFull <=> in.gnt)) \/ (WbufFull /\ ~in.gnt))
  BY <1>3, <1>5, <1>6 DEF WbufFull
<1>10. FilterAccepts <=> /\ BufferTransValid
                         /\ IF WbufFull THEN Bufferable /\ in.gnt ELSE Bufferable \/ in.gnt
  BY DEF FilterAccepts, BufferReady
<1>11. BusTransValid <=> WbufFull \/ BufferTransValid
  BY DEF BusTransValid
<1>12. Bit(FilterAccepts) + Bit(WbufFull) = Bit(Sent) + Bit(WbufFull')
  BY <1>4, <1>6, <1>9, <1>10, <1>11 DEF Bit, Sent
<1>13. Sent => FilterAccepts \/ WbufFull
  BY <1>10, <1>11 DEF Sent
<1>14. QED
  BY <1>1, <1>3, <1>4, <1>8, <1>12, <1>13 DEF Sent

-----------------------------------------------------------------------------
(* The step, one conjunct of the invariant at a time.                       *)

Step == (\E next \in Issued : Registers(next)) /\ NextInput /\ clk' = ~clk

LEMMA CountersStep ==
  ASSUME PathInv, Step
  PROVE  /\ cnt_q' = cnt_q + Bit(CountUp) - Bit(RespValid)
         /\ bus_cnt_q' = bus_cnt_q + Bit(FilterAccepts) - Bit(in.rvalid)
         /\ core_cnt_q' = core_cnt_q + Bit(FilterAccepts) - Bit(FilterRespValid)
         /\ {cnt_q', bus_cnt_q', core_cnt_q'} \subseteq 0 .. 2
<1>1. /\ cnt_q' = cnt_q + Bit(CountUp) - Bit(RespValid)
      /\ bus_cnt_q' = bus_cnt_q + Bit(FilterAccepts) - Bit(in.rvalid)
      /\ core_cnt_q' = core_cnt_q + Bit(FilterAccepts) - Bit(FilterRespValid)
  BY DEF Step, Registers, LsuStep, FilterStep, NextCnt, Bit
<1>2. cnt_q \in 0 .. 2 /\ bus_cnt_q \in 0 .. 2 /\ core_cnt_q \in 0 .. 2 /\ core_cnt_q <= bus_cnt_q
  BY LsuAssumption DEF PathInv, TypeOK, FilterInv
<1>3. CountUp => cnt_q < 2
  BY TakenOnce, Offered
<1>4. FilterAccepts => bus_cnt_q < 2
  BY TakenOnce
<1>5. /\ RespValid => cnt_q >= 1
      /\ in.rvalid => bus_cnt_q >= 1
      /\ FilterRespValid => core_cnt_q >= 1
  BY AnsweredOnce
<1>6. QED
  BY <1>1, <1>2, <1>3, <1>4, <1>5 DEF Bit

LEMMA GatesStep == ASSUME PathInv, Step PROVE GatesInv'
<1>1. /\ wpt_state' = GateNext(wpt_state, WptHit)
      /\ mpu_state' = GateNext(mpu_state, MpuHit)
  BY DEF Step, Registers, GateStep
<1>2. /\ cnt_q' = cnt_q + Bit(CountUp) - Bit(RespValid)
      /\ core_cnt_q' = core_cnt_q + Bit(FilterAccepts) - Bit(FilterRespValid)
      /\ NextCnt = cnt_q'
  BY CountersStep DEF Step, Registers, LsuStep
<1>3. /\ Bit(CountUp) = Bit(WptHit) + Bit(MpuHit) + Bit(FilterAccepts)
      /\ WptHit => wpt_state = "IDLE"
      /\ MpuHit => wpt_state = "IDLE" /\ mpu_state = "IDLE"
      /\ FilterAccepts => wpt_state = "IDLE" /\ mpu_state = "IDLE"
      /\ CountUp => cnt_q < 2
  BY TakenOnce, Offered
<1>4. /\ Bit(RespValid) = Bit(FilterRespValid) + Bit(wpt_state = "RESP") + Bit(mpu_state = "RESP")
      /\ FilterRespValid => core_cnt_q >= 1
      /\ RespValid => cnt_q >= 1
  BY AnsweredOnce
<1>5. /\ cnt_q \in 0 .. 2 /\ core_cnt_q \in 0 .. 2
      /\ wpt_state \in {"IDLE", "WAIT", "RESP"} /\ mpu_state \in {"IDLE", "WAIT", "RESP"}
  BY LsuAssumption DEF PathInv, TypeOK, GateStates
<1>6. GatesInv
  BY DEF PathInv
<1>7. CASE wpt_state # "IDLE"
  BY <1>1, <1>2, <1>3, <1>4, <1>5, <1>6, <1>7 DEF GatesInv, GateNext, OneTxnPendN, Bit
<1>8. CASE mpu_state # "IDLE"
  BY <1>1, <1>2, <1>3, <1>4, <1>5, <1>6, <1>8 DEF GatesInv, GateNext, OneTxnPendN, Bit
<1>9. CASE wpt_state = "IDLE" /\ mpu_state = "IDLE"
  BY <1>1, <1>2, <1>3, <1>4, <1>5, <1>6, <1>9 DEF GatesInv, GateNext, OneTxnPendN, Bit
<1>10. QED
  BY <1>7, <1>8, <1>9

LEMMA FilterStepKeeps == ASSUME PathInv, Step PROVE FilterInv' /\ outstanding_q' \in [0 .. Depth -> BOOLEAN]
<1>1. /\ bus_cnt_q' = bus_cnt_q + Bit(FilterAccepts) - Bit(in.rvalid)
      /\ core_cnt_q' = core_cnt_q + Bit(FilterAccepts) - Bit(FilterRespValid)
  BY CountersStep
<1>2. /\ in.rvalid => bus_cnt_q >= 1
      /\ FilterRespValid => core_cnt_q >= 1
  BY AnsweredOnce
<1>3. /\ bus_cnt_q \in 0 .. 2 /\ core_cnt_q \in 0 .. 2 /\ in.rvalid \in BOOLEAN
      /\ outstanding_q \in [0 .. 2 -> BOOLEAN] /\ Depth = 2
  BY LsuAssumption DEF PathInv, TypeOK
<1>4. FilterAccepts => bus_cnt_q < 2
  BY TakenOnce
<1>5. /\ core_cnt_q <= bus_cnt_q /\ outstanding_q[0] = FALSE
      /\ core_cnt_q < 1 /\ 1 <= bus_cnt_q => outstanding_q[1] = TRUE
      /\ core_cnt_q < 2 /\ 2 <= bus_cnt_q => outstanding_q[2] = TRUE
  BY DEF PathInv, FilterInv
<1>6. FilterRespValid <=> IF outstanding_q[bus_cnt_q] THEN outstanding_q[core_cnt_q] ELSE in.rvalid
  BY DEF FilterRespValid
<1>7. CASE FilterAccepts
  <2>1. outstanding_q' = [k \in 0 .. 2 |->
               CASE k = 0 -> FALSE [] k = 1 -> Trans.attr = "buffered"
                 [] OTHER -> outstanding_q[k - 1]]
    BY <1>3, <1>7 DEF Step, Registers, FilterStep, FilterShifts
  <2>2. /\ outstanding_q'[0] = FALSE /\ outstanding_q'[2] = outstanding_q[1]
        /\ outstanding_q'[1] = (Trans.attr = "buffered")
    BY <2>1
  <2>3. outstanding_q' \in [0 .. 2 -> BOOLEAN]
    BY <1>3, <2>1
  <2>4. /\ core_cnt_q' <= bus_cnt_q'
        /\ core_cnt_q' >= 1 \/ bus_cnt_q' < 1
        /\ core_cnt_q' < 2 /\ 2 <= bus_cnt_q' => outstanding_q[1] = TRUE
    BY <1>1, <1>2, <1>3, <1>4, <1>5, <1>6, <1>7 DEF Bit
  <2>5. QED
    BY <1>1, <1>3, <2>2, <2>3, <2>4 DEF FilterInv
<1>8. CASE ~FilterAccepts
  <2>1. outstanding_q' = outstanding_q
    BY <1>8 DEF Step, Registers, FilterStep, FilterShifts
  <2>2. /\ core_cnt_q' <= bus_cnt_q'
        /\ core_cnt_q' < 1 /\ 1 <= bus_cnt_q' => outstanding_q[1] = TRUE
        /\ core_cnt_q' < 2 /\ 2 <= bus_cnt_q' => outstanding_q[2] = TRUE
    BY <1>1, <1>2, <1>3, <1>5, <1>6, <1>8 DEF Bit
  <2>3. QED
    BY <1>3, <1>5, <2>1, <2>2 DEF FilterInv
<1>9. QED
  BY <1>7, <1>8
LEMMA BufferStepKeeps ==
  ASSUME PathInv, Step
  PROVE  BufferInv' /\ wbuf' \in Transfers \cup {NoTransfer}
<1>1. /\ BufferStep
      /\ owed' = LET new == IF FilterAccepts THEN owed \o <<Trans>> ELSE owed
                 IN  IF BusTransValid /\ in.gnt /\ new # <<>> THEN Tail(new) ELSE new
      /\ granted' = (IF in.rvalid THEN Tail(granted) ELSE granted)
                      \o (IF BusTransValid /\ in.gnt THEN <<BusTrans>> ELSE <<>>)
  BY DEF Step, Registers, ObserverStep
<1>2. /\ Bit(FilterAccepts) + Bit(WbufFull) = Bit(Sent) + Bit(WbufFull')
      /\ wbuf' \in Transfers \cup {NoTransfer}
      /\ FilterAccepts => Trans \in Transfers
      /\ Sent => FilterAccepts \/ WbufFull
  BY <1>1, BufferBalance
<1>3. /\ granted \in Seq(Transfers) /\ bus_cnt_q = Len(granted) + Bit(WbufFull)
      /\ owed = IF WbufFull THEN <<wbuf>> ELSE <<>>
      /\ wbuf \in Transfers \cup {NoTransfer}
      /\ in.rvalid \in BOOLEAN /\ in.gnt \in BOOLEAN
  BY DEF PathInv, BufferInv, TypeOK
<1>4. in.rvalid => granted # <<>>
  BY AnsweredOnce
<1>5. Sent => BusTrans \in Transfers
  BY <1>2, <1>3 DEF BusTrans, WbufFull
<1>6. Sent \in BOOLEAN
  BY DEF Sent
<1>7. PICK drop \in BOOLEAN, add \in BOOLEAN : (drop <=> in.rvalid) /\ (add <=> Sent)
  BY <1>3, <1>6
<1>8. /\ granted' \in Seq(Transfers)
      /\ Len(granted') = Len(granted) - Bit(in.rvalid) + Bit(Sent)
  <2>1. granted' = After(granted, drop, add, BusTrans)
    BY <1>1, <1>7 DEF Sent, After
  <2>2. /\ After(granted, drop, add, BusTrans) \in Seq(Transfers)
        /\ Len(After(granted, drop, add, BusTrans)) = Len(granted) - Bit(drop) + Bit(add)
    BY <1>3, <1>4, <1>5, <1>7, QueueStep, SMTT(30)
  <2>3. QED
    BY <1>7, <2>1, <2>2 DEF Bit
<1>9. bus_cnt_q' = Len(granted') + Bit(WbufFull')
  <2>1. bus_cnt_q' = bus_cnt_q + Bit(FilterAccepts) - Bit(in.rvalid)
    BY CountersStep
  <2>2. Len(granted) \in Nat
    BY <1>3
  <2>3. {Bit(FilterAccepts), Bit(WbufFull), Bit(Sent), Bit(WbufFull'), Bit(in.rvalid)} \subseteq 0 .. 1
    BY DEF Bit
  <2>4. QED
    BY <1>2, <1>3, <1>8, <2>1, <2>2, <2>3
<1>10. owed' = IF WbufFull' THEN <<wbuf'>> ELSE <<>>
  <2>1. FilterAccepts => BufferTransValid
    BY DEF FilterAccepts
  <2>2. wbuf' = IF Bufferable /\ (WbufFull <=> in.gnt) THEN Trans
                ELSE IF in.gnt THEN NoTransfer ELSE wbuf
    BY <1>1 DEF BufferStep
  <2>3. FilterAccepts <=> /\ BufferTransValid
                          /\ IF WbufFull THEN Bufferable /\ in.gnt ELSE Bufferable \/ in.gnt
    BY DEF FilterAccepts, BufferReady
  <2>4. Bufferable => BufferTransValid
    BY DEF Bufferable
  <2>5. Sent <=> in.gnt
    BY <1>1, BufferBalance
  <2>6. owed' = LET new == IF FilterAccepts THEN owed \o <<Trans>> ELSE owed
                IN  IF Sent /\ new # <<>> THEN Tail(new) ELSE new
    BY <1>1 DEF Sent
  <2>7. CASE WbufFull
    <3>1. owed = <<wbuf>>
      BY <1>3, <2>7
    <3>2. CASE in.gnt /\ Bufferable
      <4>1. FilterAccepts /\ wbuf' = Trans /\ WbufFull'
        BY <1>2, <2>2, <2>3, <2>4, <2>5, <2>7, <3>2 DEF Bit
      <4>2. owed' = Tail(<<wbuf>> \o <<Trans>>)
        BY <2>5, <2>6, <3>1, <3>2, <4>1
      <4>3. wbuf \in Transfers /\ Trans \in Transfers
        BY <1>2, <1>3, <2>7, <4>1 DEF WbufFull
      <4>4. owed' = <<Trans>>
        BY <4>2, <4>3, SecondOfTwo, Zenon
      <4>5. QED
        BY <4>1, <4>4
    <3>3. CASE in.gnt /\ ~Bufferable
      <4>1. ~FilterAccepts /\ ~WbufFull'
        BY <1>2, <2>3, <2>5, <2>7, <3>3 DEF Bit
      <4>2. owed' = Tail(<<wbuf>>)
        BY <2>5, <2>6, <3>1, <3>3, <4>1
      <4>3. QED
        BY <4>1, <4>2
    <3>4. CASE ~in.gnt
      <4>1. ~FilterAccepts /\ WbufFull' /\ wbuf' = wbuf
        BY <1>2, <2>2, <2>3, <2>5, <2>7, <3>4 DEF Bit
      <4>2. owed' = <<wbuf>>
        BY <2>5, <2>6, <3>1, <3>4, <4>1
      <4>3. QED
        BY <4>1, <4>2
    <3>5. QED
      BY <3>2, <3>3, <3>4
  <2>8. CASE ~WbufFull
    <3>1. owed = <<>>
      BY <1>3, <2>8
    <3>2. CASE in.gnt
      <4>1. FilterAccepts /\ ~WbufFull'
        BY <1>2, <2>5, <2>8, <3>2 DEF Bit
      <4>2. owed' = Tail(<<>> \o <<Trans>>)
        BY <2>5, <2>6, <3>1, <3>2, <4>1
      <4>3. QED
        BY <4>1, <4>2
    <3>3. CASE ~in.gnt /\ Bufferable
      <4>1. FilterAccepts /\ WbufFull' /\ wbuf' = Trans
        BY <1>2, <2>2, <2>3, <2>4, <2>5, <2>8, <3>3 DEF Bit
      <4>2. owed' = <<>> \o <<Trans>>
        BY <2>5, <2>6, <3>1, <3>3, <4>1
      <4>3. QED
        BY <4>1, <4>2
    <3>4. CASE ~in.gnt /\ ~Bufferable
      <4>1. ~FilterAccepts /\ ~WbufFull'
        BY <1>2, <2>3, <2>5, <2>8, <3>4 DEF Bit
      <4>2. owed' = <<>>
        BY <2>5, <2>6, <3>1, <3>4, <4>1
      <4>3. QED
        BY <4>1, <4>2
    <3>5. QED
      BY <3>2, <3>3, <3>4
  <2>9. QED
    BY <2>7, <2>8
<1>11. QED
  BY <1>2, <1>8, <1>9, <1>10 DEF BufferInv

LEMMA WaitStepKeeps == ASSUME PathInv, Step PROVE WaitInv'
<1>1. waiting' = (IF RespValid /\ waiting # <<>> THEN Tail(waiting) ELSE waiting)
                   \o (IF CountUp THEN <<Trans>> ELSE <<>>)
  BY DEF Step, Registers, ObserverStep
<1>2. waiting \in Seq(Transfers) /\ Len(waiting) = cnt_q
  BY DEF PathInv, WaitInv
<1>3. RespValid => cnt_q >= 1
  BY AnsweredOnce
<1>4. RespValid => waiting # <<>>
  BY <1>2, <1>3
<1>5. CountUp => Trans \in Transfers
  BY TakenOnce, Offered
<1>6. RespValid \in BOOLEAN /\ CountUp \in BOOLEAN
  BY DEF RespValid, CountUp, FilterRespValid, PathInv, TypeOK
<1>7. PICK drop \in BOOLEAN, add \in BOOLEAN : (drop <=> RespValid) /\ (add <=> CountUp)
  BY <1>6
<1>8. /\ waiting' \in Seq(Transfers)
      /\ Len(waiting') = Len(waiting) - Bit(RespValid) + Bit(CountUp)
  <2>1. waiting' = After(waiting, drop, add, Trans)
    BY <1>1, <1>4, <1>7 DEF After
  <2>2. /\ After(waiting, drop, add, Trans) \in Seq(Transfers)
        /\ Len(After(waiting, drop, add, Trans)) = Len(waiting) - Bit(drop) + Bit(add)
    BY <1>2, <1>4, <1>5, <1>7, QueueStep
  <2>3. QED
    BY <1>7, <2>1, <2>2 DEF Bit
<1>9. cnt_q' = cnt_q + Bit(CountUp) - Bit(RespValid) /\ cnt_q \in 0 .. 2
  BY CountersStep, LsuAssumption DEF PathInv, TypeOK
<1>10. QED
  BY <1>2, <1>8, <1>9 DEF WaitInv, Bit

LEMMA FenceStepKeeps == ASSUME PathInv, Step PROVE FenceInv'
<1> SUFFICES ASSUME fence_req_q' PROVE cnt_q' = 0 /\ bus_cnt_q' = 0
  BY DEF FenceInv
<1>1. Decision = "drain" /\ (fence_req_q \/ ~Busy)
  BY DEF Step, Registers, ControllerStep
<1>2. cnt_q = 0 /\ bus_cnt_q = 0
  <2>1. fence_req_q => cnt_q = 0 /\ bus_cnt_q = 0
    BY DEF PathInv, FenceInv
  <2>2. ~Busy => cnt_q = 0 /\ bus_cnt_q = 0
    BY DEF Busy, PathInv, TypeOK
  <2>3. QED
    BY <1>1, <2>1, <2>2
<1>3. ~TransValid
  BY <1>1 DEF TransValid, Valid0, ExValidInstr, HaltEx
<1>4. ~CountUp
  BY <1>3, TakenOnce
<1>5. ~FilterAccepts
  BY <1>3 DEF FilterAccepts, BufferTransValid, FilterTransValid, MpuTransValid
<1>6. ~RespValid /\ ~in.rvalid
  BY <1>2, AnsweredOnce
<1>7. QED
  BY <1>2, <1>4, <1>5, <1>6, CountersStep DEF Bit

LEMMA SplitStepKeeps == ASSUME PathInv, Step PROVE SplitInv' /\ split_q' \in BOOLEAN
<1>1. split_q' = (Valid0 /\ IF CtrlUpdate THEN Split0 ELSE split_q)
  BY DEF Step, Registers, LsuStep
<1>2. PICK next \in Issued : id_ex_pipe' = IF ExReady THEN next ELSE id_ex_pipe
  BY DEF Step, Registers, ExStep
<1>3. split_q' \in BOOLEAN
  BY <1>1
<1>4. ASSUME split_q' PROVE id_ex_pipe' \in Accesses /\ Len(id_ex_pipe'.attrs) = 2
  <2>1. Valid0 /\ IF CtrlUpdate THEN Split0 ELSE split_q
    BY <1>1, <1>4
  <2>2. ~KillEx /\ id_ex_pipe.kind = "lsu"
    BY <2>1 DEF Valid0, ExValidInstr
  <2>3. ~ExReady
    BY <2>1, <2>2 DEF ExReady, CtrlUpdate
  <2>4. id_ex_pipe \in Accesses
    BY <2>2, PipeKinds DEF PathInv
  <2>5. Len(id_ex_pipe.attrs) = 2
    BY <2>1 DEF Split0, PathInv, SplitInv
  <2>6. QED
    BY <1>2, <2>3, <2>4, <2>5
<1>5. QED
  BY <1>3, <1>4 DEF SplitInv

LEMMA TypeStep == ASSUME PathInv, Step PROVE TypeOK'
<1>1. in' \in [gnt : BOOLEAN, rvalid : BOOLEAN, async : {"none", "interrupt", "debug"}]
  BY DEF Step, NextInput
<1>2. id_ex_pipe' \in Accesses \cup Others
  <2>1. Issued \subseteq Accesses \cup Others
    BY DEF Issued, Others, Bubble
  <2>2. QED
    BY <2>1 DEF Step, Registers, ExStep, PathInv, TypeOK
<1>3. ex_wb_pipe' \in {"none", "trap", "fence", "csr", "lsu"}
  <2>1. id_ex_pipe.kind \in {"none", "trap", "fence", "csr", "lsu"}
    BY LsuAssumption DEF PathInv, TypeOK, Others
  <2>2. QED
    BY <2>1 DEF Step, Registers, WbStep, PathInv, TypeOK
<1>4. /\ split_q' \in BOOLEAN /\ trans_valid_q' \in BOOLEAN /\ lsu_we_q' \in BOOLEAN
      /\ lsu_valid_q' \in BOOLEAN /\ fence_req_q' \in BOOLEAN /\ begun' \in BOOLEAN
  <2>1. lsu_we_q' \in BOOLEAN
    <3>1. CtrlUpdate => id_ex_pipe.we \in BOOLEAN
      BY PipeKinds DEF CtrlUpdate, Valid0, PathInv
    <3>2. lsu_we_q \in BOOLEAN /\ lsu_we_q' = IF CtrlUpdate THEN id_ex_pipe.we ELSE lsu_we_q
      BY DEF Step, Registers, LsuStep, PathInv, TypeOK
    <3>3. QED
      BY <3>1, <3>2
  <2>2. trans_valid_q' \in BOOLEAN
    BY DEF Step, Registers, LsuStep
  <2>3. lsu_valid_q' \in BOOLEAN
    BY DEF Step, Registers, WbStep
  <2>4. fence_req_q' \in BOOLEAN
    BY DEF Step, Registers, ControllerStep
  <2>5. begun' \in BOOLEAN
    BY DEF Step, Registers, ObserverStep
  <2>6. QED
    BY <2>1, <2>2, <2>3, <2>4, <2>5, SplitStepKeeps
<1>5. rdata_q' \in Transfers \cup {NoTransfer}
  <2>1. in.rvalid => Head(granted) \in Transfers
    BY AnsweredOnce DEF PathInv, BufferInv
  <2>2. QED
    BY <2>1 DEF Step, Registers, LsuStep, PathInv, TypeOK
<1>6. lsu_status_q' \in Statuses
  <2>1. WbStatus \in Statuses
    BY DEF WbStatus, RespStatus, Statuses, PathInv, TypeOK
  <2>2. QED
    BY <2>1 DEF Step, Registers, WbStep, Statuses
<1>7. wpt_state' \in GateStates /\ mpu_state' \in GateStates
  <2>1. /\ wpt_state' = GateNext(wpt_state, WptHit) /\ mpu_state' = GateNext(mpu_state, MpuHit)
        /\ wpt_state \in GateStates /\ mpu_state \in GateStates
    BY DEF Step, Registers, GateStep, PathInv, TypeOK
  <2>2. QED
    BY <2>1 DEF GateNext, GateStates
<1>8. {cnt_q', bus_cnt_q', core_cnt_q'} \subseteq 0 .. Depth
  BY CountersStep, LsuAssumption
<1>9. /\ ctrl_fsm_cs' \in {"FUNCTIONAL", "DEBUG_TAKEN"}
      /\ debug_cause_q' \in {"HALTREQ", "TRIGGER"}
  BY DEF Step, Registers, ControllerStep, PathInv, TypeOK
<1>10. clk' \in BOOLEAN
  BY DEF Step
<1>11. QED
  BY <1>1, <1>2, <1>3, <1>4, <1>5, <1>6, <1>7, <1>8, <1>9, <1>10, FilterStepKeeps, BufferStepKeeps
     DEF TypeOK

LEMMA PathInvStep == ASSUME PathInv, Step PROVE PathInv'
<1>1. Possible'
  BY DEF Step, NextInput
<1>2. QED
  BY <1>1, TypeStep, GatesStep, FilterStepKeeps, BufferStepKeeps, WaitStepKeeps, FenceStepKeeps,
     SplitStepKeeps DEF PathInv
LEMMA PathInvStart == Init => PathInv
<1> SUFFICES ASSUME Init PROVE PathInv
  OBVIOUS
<1>1. TypeOK
  BY LsuAssumption DEF Init, TypeOK, Others, Bubble, Statuses, GateStates
<1>2. Possible
  BY DEF Init, Possible
<1>3. SplitInv /\ GatesInv /\ FilterInv /\ FenceInv
  BY LsuAssumption DEF Init, SplitInv, GatesInv, FilterInv, FenceInv, Bit
<1>4. BufferInv /\ WaitInv
  BY DEF Init, BufferInv, WaitInv, WbufFull, Bit
<1>5. QED
  BY <1>1, <1>2, <1>3, <1>4 DEF PathInv

LEMMA PathInvStutter == ASSUME PathInv, UNCHANGED vars PROVE PathInv'
<1>1. TypeOK'
  BY DEF PathInv, TypeOK, vars, lsuVars, pathVars, ctrlVars
<1>2. Possible'
  BY DEF PathInv, Possible, vars, lsuVars, pathVars, ctrlVars, BusTransValid, WbufFull,
         BufferTransValid, FilterTransValid, MpuTransValid, MpuHit, WptHit, TransValid, Trans,
         Valid0, ExValidInstr, KillEx, HaltEx, Decision, WbStatus, RespStatus, RespValid,
         FilterRespValid, Interruptible
<1>3. SplitInv' /\ GatesInv' /\ FilterInv' /\ BufferInv' /\ WaitInv' /\ FenceInv'
  BY DEF PathInv, SplitInv, GatesInv, FilterInv, BufferInv, WaitInv, FenceInv, WbufFull, Bit,
         vars, lsuVars, pathVars, ctrlVars
<1>4. QED
  BY <1>1, <1>2, <1>3 DEF PathInv

(* The counters, the gates, the filter and the write buffer agree in every  *)
(* cycle, whatever the accesses, the grants, the responses and the          *)
(* interrupts are.                                                          *)
THEOREM PathInvariant == Spec => []PathInv
<1>1. PathInv /\ [Next]_vars => PathInv'
  BY PathInvStep, PathInvStutter DEF Next, Step
<1>2. QED
  BY <1>1, PathInvStart, PTL DEF Spec

(* No counter of the path overflows or underflows and every register holds  *)
(* what it is meant for.                                                    *)
THEOREM PathTypes == Spec => []TypeOK
<1>1. PathInv => TypeOK
  BY DEF PathInv
<1>2. QED
  BY <1>1, PathInvariant, PTL

(* A fence retires only when nothing before it is left anywhere on the way. *)
THEOREM FencesDrain == Spec => []FenceDrains
<1>1. PathInv => FenceDrains
  <2> SUFFICES ASSUME PathInv, Decision = "flush"
               PROVE  waiting = <<>> /\ owed = <<>> /\ granted = <<>>
    BY DEF FenceDrains
  <2>1. fence_req_q
    BY DEF Decision
  <2>2. cnt_q = 0 /\ bus_cnt_q = 0
    BY <2>1 DEF PathInv, FenceInv
  <2>3. waiting = <<>>
    BY <2>2 DEF PathInv, WaitInv
  <2>4. granted \in Seq(Transfers) /\ Len(granted) = 0 /\ ~WbufFull
    BY <2>2 DEF PathInv, BufferInv, Bit
  <2>5. granted = <<>> /\ owed = <<>>
    BY <2>4 DEF PathInv, BufferInv
  <2>6. QED
    BY <2>3, <2>5
<1>2. QED
  BY <1>1, PathInvariant, PTL
-----------------------------------------------------------------------------
(* DataPort is implemented.  Besides the counters this needs the order: the *)
(* transfers on the bus and in the write buffer, oldest first, are the end  *)
(* of what the core waits for, the shift register says which of them are    *)
(* bufferable, and what a gate holds is the newest.                         *)

BusAt(j) == IF j <= Len(granted) THEN granted[j] ELSE wbuf

OrderInv ==
  /\ \A j \in 1 .. 2 : j <= core_cnt_q => waiting[j] = BusAt(bus_cnt_q - core_cnt_q + j)
  /\ \A j \in 1 .. 2 : j <= bus_cnt_q =>
       /\ outstanding_q[bus_cnt_q + 1 - j] = (BusAt(j).attr = "buffered")
       /\ Port!Passes(BusAt(j))
  /\ wpt_state # "IDLE" => waiting[cnt_q].attr = "watch"
  /\ mpu_state # "IDLE" => waiting[cnt_q].attr = "fault"

LEMMA QueueOrder ==
  ASSUME NEW S, NEW q \in Seq(S), NEW drop \in BOOLEAN, NEW add \in BOOLEAN, NEW t,
         drop => q # <<>>, add => t \in S
  PROVE  /\ \A j \in Nat : 1 <= j /\ j <= Len(q) - Bit(drop) =>
              After(q, drop, add, t)[j] = q[j + Bit(drop)]
         /\ add => After(q, drop, add, t)[Len(q) - Bit(drop) + 1] = t
<1> DEFINE h == IF drop THEN Tail(q) ELSE q
           a == IF add THEN <<t>> ELSE <<>>
<1>1. /\ h \in Seq(S) /\ Len(h) = Len(q) - Bit(drop)
      /\ \A j \in Nat : 1 <= j /\ j <= Len(h) => h[j] = q[j + Bit(drop)]
  <2>1. CASE drop
    BY <2>1 DEF Bit
  <2>2. CASE ~drop
    BY <2>2 DEF Bit
  <2>3. QED
    BY <2>1, <2>2
<1>2. a \in Seq(S) /\ Len(a) = Bit(add) /\ (add => a[1] = t)
  <2>1. CASE add
    BY <2>1 DEF Bit
  <2>2. CASE ~add
    BY <2>2 DEF Bit
  <2>3. QED
    BY <2>1, <2>2
<1> HIDE DEF h, a
<1>3. /\ \A j \in Nat : 1 <= j /\ j <= Len(h) => (h \o a)[j] = h[j]
      /\ Len(a) = 1 => (h \o a)[Len(h) + 1] = a[1]
  BY <1>1, <1>2
<1>4. /\ \A j \in Nat : 1 <= j /\ j <= Len(q) - Bit(drop) => (h \o a)[j] = q[j + Bit(drop)]
      /\ add => (h \o a)[Len(q) - Bit(drop) + 1] = t
  BY <1>1, <1>2, <1>3 DEF Bit
<1>5. QED
  BY <1>4 DEF h, a, After

(* The bus side moves up by one with every response. *)
LEMMA BusShift ==
  ASSUME PathInv, Step
  PROVE  /\ \A j \in Nat : 1 <= j /\ j <= bus_cnt_q - Bit(in.rvalid) =>
              BusAt(j)' = BusAt(j + Bit(in.rvalid))
         /\ FilterAccepts => BusAt(bus_cnt_q)' = Trans
<1>1. /\ BufferStep
      /\ granted' = (IF in.rvalid THEN Tail(granted) ELSE granted)
                      \o (IF BusTransValid /\ in.gnt THEN <<BusTrans>> ELSE <<>>)
      /\ wbuf' = IF Bufferable /\ (WbufFull <=> in.gnt) THEN Trans
                 ELSE IF in.gnt THEN NoTransfer ELSE wbuf
  BY DEF Step, Registers, ObserverStep, BufferStep
<1>2. /\ Bit(FilterAccepts) + Bit(WbufFull) = Bit(Sent) + Bit(WbufFull')
      /\ FilterAccepts => Trans \in Transfers
      /\ Sent => FilterAccepts \/ WbufFull
      /\ Sent <=> in.gnt
  BY <1>1, BufferBalance
<1>3. /\ granted \in Seq(Transfers) /\ bus_cnt_q = Len(granted) + Bit(WbufFull)
      /\ wbuf \in Transfers \cup {NoTransfer} /\ Len(granted) \in Nat
      /\ in.rvalid \in BOOLEAN /\ in.gnt \in BOOLEAN
  BY DEF PathInv, BufferInv, TypeOK
<1>4. in.rvalid => granted # <<>> /\ Len(granted) >= 1
  BY AnsweredOnce
<1>5. Sent => BusTrans \in Transfers
  BY <1>2, <1>3 DEF BusTrans, WbufFull
<1>6. PICK drop \in BOOLEAN, add \in BOOLEAN : (drop <=> in.rvalid) /\ (add <=> Sent)
  BY <1>3 DEF Sent
<1>7. granted' = After(granted, drop, add, BusTrans)
  BY <1>1, <1>6 DEF Sent, After
<1>8. /\ \A j \in Nat : 1 <= j /\ j <= Len(granted) - Bit(drop) =>
           granted'[j] = granted[j + Bit(drop)]
      /\ Sent => granted'[Len(granted) - Bit(drop) + 1] = BusTrans
      /\ Len(granted') = Len(granted) - Bit(drop) + Bit(add)
  <2>1. drop => granted # <<>>
    BY <1>4, <1>6
  <2>2. add => BusTrans \in Transfers
    BY <1>5, <1>6
  <2>3. Len(After(granted, drop, add, BusTrans)) = Len(granted) - Bit(drop) + Bit(add)
    BY <1>3, <1>6, <2>1, <2>2, QueueStep
  <2>4. /\ \A j \in Nat : 1 <= j /\ j <= Len(granted) - Bit(drop) =>
              After(granted, drop, add, BusTrans)[j] = granted[j + Bit(drop)]
        /\ add => After(granted, drop, add, BusTrans)[Len(granted) - Bit(drop) + 1] = BusTrans
    BY <1>3, <1>6, <2>1, <2>2, QueueOrder
  <2>5. QED
    BY <1>6, <1>7, <2>3, <2>4
<1>9. Bit(drop) = Bit(in.rvalid) /\ Bit(drop) \in 0 .. 1 /\ (drop => Len(granted) >= 1)
  BY <1>4, <1>6 DEF Bit
<1>10. Len(granted') = Len(granted) - Bit(drop) + (IF Sent THEN 1 ELSE 0)
  BY <1>6, <1>8 DEF Bit
<1>11. ASSUME NEW j \in Nat, 1 <= j, j <= bus_cnt_q - Bit(drop)
       PROVE  BusAt(j)' = BusAt(j + Bit(drop))
  <2>1. CASE j <= Len(granted) - Bit(drop)
    BY <1>3, <1>8, <1>9, <1>10, <1>11, <2>1 DEF BusAt
  <2>2. CASE ~(j <= Len(granted) - Bit(drop))
    <3>1. WbufFull /\ j = Len(granted) - Bit(drop) + 1
      BY <1>3, <1>9, <1>11, <2>2 DEF Bit
    <3>2. BusAt(j + Bit(drop)) = wbuf
      BY <1>3, <1>9, <3>1 DEF BusAt
    <3>3. CASE Sent
      BY <1>8, <1>10, <1>9, <1>3, <3>1, <3>2, <3>3 DEF BusAt, BusTrans
    <3>4. CASE ~Sent
      <4>1. wbuf' = wbuf
        BY <1>1, <1>2, <3>1, <3>4
      <4>2. ~(j <= Len(granted'))
        BY <1>3, <1>9, <1>10, <3>1, <3>4
      <4>3. QED
        BY <3>2, <4>1, <4>2 DEF BusAt
    <3>5. QED
      BY <3>3, <3>4
  <2>3. QED
    BY <2>1, <2>2
<1>12. ASSUME FilterAccepts PROVE BusAt(bus_cnt_q)' = Trans
  <2>1. bus_cnt_q' = Len(granted) + Bit(WbufFull) - Bit(drop) + 1
    <3>1. bus_cnt_q' = bus_cnt_q + Bit(FilterAccepts) - Bit(in.rvalid)
      BY CountersStep
    <3>2. Bit(FilterAccepts) = 1 /\ Bit(WbufFull) \in 0 .. 1
      BY <1>12 DEF Bit
    <3>3. QED
      BY <1>3, <1>9, <3>1, <3>2
  <2>2. CASE WbufFull'
    <3>1. wbuf' = Trans
      BY <1>1, <1>2, <1>12, <2>2 DEF Bit, FilterAccepts, BufferReady, WbufFull
    <3>2. bus_cnt_q' = Len(granted') + 1
      BY <1>2, <1>3, <1>9, <1>10, <1>12, <2>1, <2>2 DEF Bit
    <3>3. Len(granted') \in Int
      BY <1>3, <1>9, <1>10
    <3>4. QED
      BY <3>1, <3>2, <3>3 DEF BusAt
  <2>3. CASE ~WbufFull'
    <3>1. Sent /\ ~WbufFull
      BY <1>2, <1>12, <2>3 DEF Bit
    <3>2. granted'[bus_cnt_q'] = Trans /\ Len(granted') = bus_cnt_q' /\ bus_cnt_q' \in Int
      BY <1>3, <1>8, <1>9, <1>10, <2>1, <3>1 DEF Bit, BusTrans
    <3>3. QED
      BY <3>2 DEF BusAt
  <2>4. QED
    BY <2>2, <2>3
<1>13. QED
  BY <1>9, <1>11, <1>12

(* The core side likewise. *)
LEMMA CoreShift ==
  ASSUME PathInv, Step
  PROVE  /\ \A j \in Nat : 1 <= j /\ j <= cnt_q - Bit(RespValid) =>
              waiting'[j] = waiting[j + Bit(RespValid)]
         /\ CountUp => waiting'[cnt_q'] = Trans
<1>1. waiting' = (IF RespValid /\ waiting # <<>> THEN Tail(waiting) ELSE waiting)
                   \o (IF CountUp THEN <<Trans>> ELSE <<>>)
  BY DEF Step, Registers, ObserverStep
<1>2. waiting \in Seq(Transfers) /\ Len(waiting) = cnt_q /\ cnt_q \in 0 .. 2
  BY LsuAssumption DEF PathInv, WaitInv, TypeOK
<1>3. RespValid => waiting # <<>>
  BY <1>2, AnsweredOnce
<1>4. CountUp => Trans \in Transfers
  BY TakenOnce, Offered
<1>5. PICK drop \in BOOLEAN, add \in BOOLEAN : (drop <=> RespValid) /\ (add <=> CountUp)
  BY DEF RespValid, CountUp, FilterRespValid, PathInv, TypeOK
<1>6. waiting' = After(waiting, drop, add, Trans)
  BY <1>1, <1>3, <1>5 DEF After
<1>7. /\ \A j \in Nat : 1 <= j /\ j <= Len(waiting) - Bit(drop) =>
           After(waiting, drop, add, Trans)[j] = waiting[j + Bit(drop)]
      /\ add => After(waiting, drop, add, Trans)[Len(waiting) - Bit(drop) + 1] = Trans
  BY <1>2, <1>3, <1>4, <1>5, QueueOrder
<1>8. Bit(drop) = Bit(RespValid)
  BY <1>5 DEF Bit
<1>9. CountUp => cnt_q' = cnt_q - Bit(drop) + 1
  BY <1>2, <1>8, CountersStep DEF Bit
<1>10. QED
  BY <1>2, <1>5, <1>6, <1>7, <1>8, <1>9
LEMMA OrderStep == ASSUME PathInv, OrderInv, Step PROVE OrderInv'
<1>1. /\ cnt_q' = cnt_q + Bit(CountUp) - Bit(RespValid)
      /\ bus_cnt_q' = bus_cnt_q + Bit(FilterAccepts) - Bit(in.rvalid)
      /\ core_cnt_q' = core_cnt_q + Bit(FilterAccepts) - Bit(FilterRespValid)
  BY CountersStep
<1>0. cnt_q' \in 0 .. 2 /\ bus_cnt_q' \in 0 .. 2 /\ core_cnt_q' \in 0 .. 2
  BY CountersStep
<1>00. PICK bus \in 0 .. 2, core \in 0 .. 2 : bus = bus_cnt_q' /\ core = core_cnt_q'
  BY <1>0
<1>2. /\ cnt_q \in 0 .. 2 /\ bus_cnt_q \in 0 .. 2 /\ core_cnt_q \in 0 .. 2
      /\ core_cnt_q <= bus_cnt_q
      /\ in.rvalid => bus_cnt_q >= 1
      /\ FilterRespValid => core_cnt_q >= 1
  BY LsuAssumption, AnsweredOnce DEF PathInv, TypeOK, FilterInv
<1>3. /\ Bit(CountUp) \in 0 .. 1 /\ Bit(RespValid) \in 0 .. 1 /\ Bit(FilterAccepts) \in 0 .. 1
      /\ Bit(FilterRespValid) \in 0 .. 1 /\ Bit(in.rvalid) \in 0 .. 1
      /\ FilterAccepts <=> Bit(FilterAccepts) = 1
      /\ in.rvalid <=> Bit(in.rvalid) = 1
      /\ FilterRespValid <=> Bit(FilterRespValid) = 1
  BY DEF Bit
<1>4. /\ wpt_state \in {"IDLE", "WAIT", "RESP"} /\ mpu_state \in {"IDLE", "WAIT", "RESP"}
      /\ cnt_q = core_cnt_q + Bit(wpt_state # "IDLE") + Bit(mpu_state # "IDLE")
      /\ wpt_state = "WAIT" \/ mpu_state = "WAIT" => cnt_q = 2
      /\ wpt_state = "RESP" \/ mpu_state = "RESP" => cnt_q = 1
      /\ Bit(RespValid) = Bit(FilterRespValid) + Bit(wpt_state = "RESP") + Bit(mpu_state = "RESP")
      /\ Bit(CountUp) = Bit(WptHit) + Bit(MpuHit) + Bit(FilterAccepts)
      /\ WptHit => wpt_state = "IDLE"
      /\ MpuHit => wpt_state = "IDLE" /\ mpu_state = "IDLE"
      /\ FilterAccepts => wpt_state = "IDLE" /\ mpu_state = "IDLE"
      /\ CountUp => cnt_q < 2
  BY AnsweredOnce, TakenOnce, Offered DEF PathInv, GatesInv, TypeOK, GateStates
\* An answer of the filter is the only one while it has transfers to answer.
<1>5. core_cnt_q >= 1 => Bit(RespValid) = Bit(FilterRespValid)
  BY <1>2, <1>4 DEF Bit
<1>6. FilterAccepts => cnt_q' = core_cnt_q' /\ CountUp
  BY <1>1, <1>2, <1>4 DEF Bit, GatesInv
<1>7. /\ \A j \in Nat : 1 <= j /\ j <= cnt_q - Bit(RespValid) =>
           waiting'[j] = waiting[j + Bit(RespValid)]
      /\ CountUp => waiting'[cnt_q'] = Trans
  BY CoreShift
<1>8. /\ \A j \in Nat : 1 <= j /\ j <= bus_cnt_q - Bit(in.rvalid) =>
           BusAt(j)' = BusAt(j + Bit(in.rvalid))
      /\ FilterAccepts => BusAt(bus_cnt_q)' = Trans
  BY BusShift
<1>9. \A j \in 1 .. 2 : j <= core_cnt_q' =>
         waiting'[j] = BusAt(bus_cnt_q - core_cnt_q + j)'
  <2> SUFFICES ASSUME NEW j \in 1 .. 2, j <= core_cnt_q'
               PROVE  waiting'[j] = BusAt(bus_cnt_q - core_cnt_q + j)'
    OBVIOUS
  <2>1. CASE j <= core_cnt_q - Bit(FilterRespValid)
    <3>1. waiting'[j] = waiting[j + Bit(FilterRespValid)]
      BY <1>2, <1>3, <1>4, <1>5, <1>7, <2>1 DEF Bit
    <3>2. waiting[j + Bit(FilterRespValid)]
             = BusAt(bus_cnt_q - core_cnt_q + j + Bit(FilterRespValid))
      BY <1>2, <1>3, <2>1 DEF OrderInv
    <3>3. PICK n \in Nat : n = bus_cnt_q - core_cnt_q + j + Bit(FilterRespValid) - Bit(in.rvalid)
      BY <1>2, <1>3
    <3>4. n = bus_cnt_q' - core_cnt_q' + j
      BY <1>1, <1>2, <1>3, <3>3
    <3>5. CASE n >= 1
      <4>1. BusAt(n)' = BusAt(n + Bit(in.rvalid))
        BY <1>2, <1>3, <1>8, <2>1, <3>3, <3>5
      <4>2. n + Bit(in.rvalid) = bus_cnt_q - core_cnt_q + j + Bit(FilterRespValid)
        BY <1>2, <1>3, <3>3
      <4>3. BusAt(n)' = BusAt(bus_cnt_q - core_cnt_q + j)'
        BY <3>4
      <4>4. QED
        BY <3>1, <3>2, <4>1, <4>2, <4>3
    <3>6. n >= 1
      <4>1. core <= bus
        BY <1>00, FilterStepKeeps DEF FilterInv
      <4>2. n = bus - core + j
        BY <1>00, <3>4
      <4>3. QED
        BY <4>1, <4>2
    <3>7. QED
      BY <3>5, <3>6
  <2>2. CASE ~(j <= core_cnt_q - Bit(FilterRespValid))
    <3>1. FilterAccepts /\ j = core_cnt_q'
      BY <1>1, <1>2, <1>3, <2>2
    <3>2. waiting'[j] = Trans
      BY <1>6, <1>7, <3>1
    <3>3. bus_cnt_q' - core_cnt_q' + j = bus_cnt_q'
      <4>1. j = core
        BY <1>00, <3>1
      <4>2. bus - core + j = bus
        BY <4>1
      <4>3. QED
        BY <1>00, <4>2
    <3>4. BusAt(bus_cnt_q - core_cnt_q + j)' = BusAt(bus_cnt_q)'
      BY <3>3
    <3>5. QED
      BY <1>8, <3>1, <3>2, <3>4
  <2>3. QED
    BY <2>1, <2>2
<1>10. FilterAccepts => Port!Passes(Trans)
  BY <1>4 DEF FilterAccepts, BufferTransValid, FilterTransValid, MpuTransValid, WptHit, MpuHit,
     Port!Passes
<1>11. ASSUME NEW j \in 1 .. 2, j <= bus_cnt_q'
       PROVE  /\ outstanding_q'[bus_cnt_q' + 1 - j] = (BusAt(j)'.attr = "buffered")
              /\ Port!Passes(BusAt(j)')
  <2>1. CASE j <= bus_cnt_q - Bit(in.rvalid)
    <3>1. PICK n \in 1 .. 2 : n = j + Bit(in.rvalid)
      BY <1>2, <1>3, <2>1
    <3>2. BusAt(j)' = BusAt(n)
      BY <1>8, <2>1, <3>1
    <3>3. /\ outstanding_q[bus_cnt_q + 1 - n] = (BusAt(n).attr = "buffered")
          /\ Port!Passes(BusAt(n))
      BY <1>2, <1>3, <2>1, <3>1 DEF OrderInv
    <3>4. outstanding_q'[bus_cnt_q' + 1 - j] = outstanding_q[bus_cnt_q + 1 - n]
      <4>1. CASE FilterAccepts
        <5>1. outstanding_q' = [k \in 0 .. Depth |->
                 CASE k = 0 -> FALSE [] k = 1 -> Trans.attr = "buffered"
                   [] OTHER -> outstanding_q[k - 1]]
          BY <4>1 DEF Step, Registers, FilterStep, FilterShifts
        <5>2. /\ bus_cnt_q' + 1 - j = 2 /\ bus_cnt_q + 1 - n = 1
          <6>1. /\ bus = bus_cnt_q + Bit(FilterAccepts) - Bit(in.rvalid)
                /\ j <= bus_cnt_q - Bit(in.rvalid) /\ n = j + Bit(in.rvalid)
                /\ Bit(FilterAccepts) = 1 /\ Bit(in.rvalid) \in 0 .. 1
            BY <1>00, <1>1, <1>3, <2>1, <3>1, <4>1
          <6>2. bus + 1 - j = 2 /\ bus_cnt_q + 1 - n = 1
            BY <1>2, <6>1
          <6>3. QED
            BY <1>00, <6>2
        <5>3. outstanding_q'[2] = outstanding_q[1]
          BY <5>1, LsuAssumption
        <5>4. QED
          BY <5>2, <5>3
      <4>2. CASE ~FilterAccepts
        <5>1. outstanding_q' = outstanding_q
          BY <4>2 DEF Step, Registers, FilterStep, FilterShifts
        <5>2. bus_cnt_q' + 1 - j = bus_cnt_q + 1 - n
          BY <1>1, <1>2, <1>3, <3>1, <4>2
        <5>3. QED
          BY <5>1, <5>2
      <4>3. QED
        BY <4>1, <4>2
    <3>5. QED
      BY <3>2, <3>3, <3>4
  <2>2. CASE ~(j <= bus_cnt_q - Bit(in.rvalid))
    <3>1. FilterAccepts /\ j = bus_cnt_q'
      BY <1>1, <1>2, <1>3, <1>11, <2>2
    <3>2. BusAt(j)' = Trans
      BY <1>8, <3>1
    <3>3. outstanding_q' = [k \in 0 .. Depth |->
             CASE k = 0 -> FALSE [] k = 1 -> Trans.attr = "buffered"
               [] OTHER -> outstanding_q[k - 1]]
      BY <3>1 DEF Step, Registers, FilterStep, FilterShifts
    <3>4. bus_cnt_q' + 1 - j = 1
      <4>1. j = bus
        BY <1>00, <3>1
      <4>2. bus + 1 - j = 1
        BY <4>1
      <4>3. QED
        BY <1>00, <4>2
    <3>5. outstanding_q'[1] = (Trans.attr = "buffered")
      BY <3>3, LsuAssumption
    <3>6. QED
      BY <1>10, <3>1, <3>2, <3>4, <3>5
  <2>3. QED
    BY <2>1, <2>2
\* What a gate holds is the newest: nothing is handed over while it waits.
<1>12. /\ wpt_state' # "IDLE" => waiting'[cnt_q'].attr = "watch"
       /\ mpu_state' # "IDLE" => waiting'[cnt_q'].attr = "fault"
  <2>1. /\ wpt_state' = GateNext(wpt_state, WptHit)
        /\ mpu_state' = GateNext(mpu_state, MpuHit)
    BY DEF Step, Registers, GateStep
  <2>2. /\ WptHit => CountUp /\ Trans.attr = "watch"
        /\ MpuHit => CountUp /\ Trans.attr = "fault"
    BY DEF CountUp, WptHit, MpuHit
  <2>3. ASSUME wpt_state = "WAIT" \/ mpu_state = "WAIT"
        PROVE  waiting'[cnt_q'] = waiting[cnt_q]
    <3>1. cnt_q = 2 /\ cnt_q' = 2 - Bit(RespValid)
      BY <1>1, <1>2, <1>3, <1>4, <2>3 DEF Bit
    <3>2. waiting'[2 - Bit(RespValid)] = waiting[2]
      BY <1>3, <1>7, <3>1
    <3>3. QED
      BY <3>1, <3>2
  <2>4. ASSUME wpt_state' # "IDLE" PROVE waiting'[cnt_q'].attr = "watch"
    <3>1. WptHit \/ wpt_state = "WAIT"
      BY <1>4, <2>1, <2>4 DEF GateNext
    <3>2. CASE WptHit
      BY <1>7, <2>2, <3>2
    <3>3. CASE wpt_state = "WAIT"
      BY <2>3, <3>3 DEF OrderInv
    <3>4. QED
      BY <3>1, <3>2, <3>3
  <2>5. ASSUME mpu_state' # "IDLE" PROVE waiting'[cnt_q'].attr = "fault"
    <3>1. MpuHit \/ mpu_state = "WAIT"
      BY <1>4, <2>1, <2>5 DEF GateNext
    <3>2. CASE MpuHit
      BY <1>7, <2>2, <3>2
    <3>3. CASE mpu_state = "WAIT"
      BY <2>3, <3>3 DEF OrderInv
    <3>4. QED
      BY <3>1, <3>2, <3>3
  <2>6. QED
    BY <2>4, <2>5
<1>13. QED
  BY <1>9, <1>11, <1>12 DEF OrderInv
LEMMA OrderStart == Init => OrderInv
BY DEF Init, OrderInv

LEMMA OrderStutter == ASSUME OrderInv, UNCHANGED vars PROVE OrderInv'
BY DEF OrderInv, BusAt, vars, lsuVars, pathVars, ctrlVars

(* Of what is taken from EX, the filter passes on what DataPort says may    *)
(* pass.                                                                    *)
LEMMA OnlyPassing ==
  ASSUME PathInv
  PROVE  Port!Passing(IF CountUp THEN <<Trans>> ELSE <<>>)
           = IF FilterAccepts THEN <<Trans>> ELSE <<>>
<1>1. FilterAccepts => CountUp /\ Port!Passes(Trans)
  BY TakenOnce DEF CountUp, FilterAccepts, BufferTransValid, FilterTransValid, MpuTransValid,
     WptHit, MpuHit, Port!Passes
<1>2. CountUp /\ ~FilterAccepts => ~Port!Passes(Trans)
  BY DEF CountUp, WptHit, MpuHit, Port!Passes
<1>3. <<Trans>> # <<>> /\ Head(<<Trans>>) = Trans
  OBVIOUS
<1>4. QED
  BY <1>1, <1>2, <1>3 DEF Port!Passing

(* An answer is for the oldest transfer, and in time.                       *)
LEMMA OldestAnswered ==
  ASSUME PathInv, OrderInv, RespValid
  PROVE  /\ waiting # <<>>
         /\ \/ ~Port!Passes(Head(waiting))
            \/ Head(waiting).attr = "buffered"
            \/ in.rvalid /\ Head(granted) = Head(waiting)
<1>1. waiting \in Seq(Transfers) /\ Len(waiting) = cnt_q /\ cnt_q >= 1
  BY AnsweredOnce DEF PathInv, WaitInv
<1>2. waiting # <<>> /\ Head(waiting) = waiting[1]
  BY <1>1
<1>3. /\ bus_cnt_q \in 0 .. 2 /\ core_cnt_q \in 0 .. 2 /\ core_cnt_q <= bus_cnt_q
      /\ outstanding_q \in [0 .. 2 -> BOOLEAN]
  BY LsuAssumption DEF PathInv, TypeOK, FilterInv
<1>4. CASE wpt_state = "RESP" \/ mpu_state = "RESP"
  <2>1. cnt_q = 1
    BY <1>4 DEF PathInv, GatesInv
  <2>2. waiting[1].attr \in {"watch", "fault"}
    BY <1>4, <2>1 DEF OrderInv
  <2>3. QED
    BY <1>2, <2>2 DEF Port!Passes
<1>5. CASE FilterRespValid
  <2>1. core_cnt_q >= 1
    BY <1>5, AnsweredOnce
  <2>2. PICK j \in 1 .. 2 : j = bus_cnt_q - core_cnt_q + 1
    BY <1>3, <2>1
  <2>3. waiting[1] = BusAt(j)
    BY <2>1, <2>2 DEF OrderInv
  <2>4. outstanding_q[core_cnt_q] = (BusAt(j).attr = "buffered")
    <3>1. j <= bus_cnt_q /\ bus_cnt_q + 1 - j = core_cnt_q
      BY <1>3, <2>1, <2>2
    <3>2. QED
      BY <3>1 DEF OrderInv
  <2>5. CASE outstanding_q[bus_cnt_q]
    BY <1>2, <1>5, <2>3, <2>4, <2>5 DEF FilterRespValid
  <2>6. CASE ~outstanding_q[bus_cnt_q]
    <3>1. in.rvalid
      BY <1>5, <2>6 DEF FilterRespValid
    <3>2. core_cnt_q = bus_cnt_q
      BY <1>3, <2>1, <2>6 DEF PathInv, FilterInv
    <3>3. j = 1
      BY <1>3, <2>2, <3>2
    <3>4. granted # <<>> /\ Len(granted) >= 1 /\ granted \in Seq(Transfers)
      BY <3>1, AnsweredOnce DEF PathInv, BufferInv
    <3>5. BusAt(1) = granted[1] /\ Head(granted) = granted[1]
      BY <3>4 DEF BusAt
    <3>6. QED
      BY <1>2, <2>3, <3>1, <3>3, <3>5
  <2>7. QED
    BY <2>5, <2>6
<1>6. QED
  BY <1>2, <1>4, <1>5 DEF RespValid

(* What the bus is owed in a cycle.                                         *)
Due == owed \o (IF FilterAccepts THEN <<Trans>> ELSE <<>>)

(* The bus is sent the oldest transfer it is owed.                          *)
LEMMA OldestSent ==
  ASSUME PathInv, Sent, FilterAccepts => Trans \in Transfers, FilterAccepts \/ WbufFull
  PROVE  Due # <<>> /\ Head(Due) = BusTrans
<1>1. owed = (IF WbufFull THEN <<wbuf>> ELSE <<>>) /\ wbuf \in Transfers \cup {NoTransfer}
  BY DEF PathInv, BufferInv, TypeOK
<1>2. CASE WbufFull
  <2>1. wbuf \in Transfers /\ owed = <<wbuf>> /\ BusTrans = wbuf
    BY <1>1, <1>2 DEF WbufFull, BusTrans
  <2>2. CASE FilterAccepts
    <3>1. Due = <<wbuf>> \o <<Trans>>
      BY <2>1, <2>2 DEF Due
    <3>2. QED
      BY <2>1, <2>2, <3>1
  <2>3. CASE ~FilterAccepts
    <3>1. Due = <<wbuf>> \o <<>>
      BY <2>1, <2>3 DEF Due
    <3>2. QED
      BY <2>1, <3>1
  <2>4. QED
    BY <2>2, <2>3
<1>3. CASE ~WbufFull
  <2>1. Due = <<>> \o <<Trans>> /\ BusTrans = Trans /\ Trans \in Transfers
    BY <1>1, <1>3 DEF BusTrans, Due
  <2>2. <<>> \o <<Trans>> # <<>> /\ Head(<<>> \o <<Trans>>) = Trans
    BY <2>1
  <2>3. QED
    BY <2>1, <2>2
<1>4. QED
  BY <1>2, <1>3

LEMMA PortStepped == ASSUME PathInv, OrderInv, Step PROVE Port!PortNext
<1> DEFINE accepted == IF CountUp THEN <<Trans>> ELSE <<>>
<1>1. PICK answered \in BOOLEAN, sent \in BOOLEAN, done \in BOOLEAN :
        (answered <=> RespValid) /\ (sent <=> Sent) /\ (done <=> in.rvalid)
  BY DEF RespValid, FilterRespValid, Sent, PathInv, TypeOK
<1>2. /\ BufferStep
      /\ waiting' = (IF RespValid /\ waiting # <<>> THEN Tail(waiting) ELSE waiting) \o accepted
      /\ owed' = LET new == IF FilterAccepts THEN owed \o <<Trans>> ELSE owed
                 IN  IF Sent /\ new # <<>> THEN Tail(new) ELSE new
      /\ granted' = (IF in.rvalid THEN Tail(granted) ELSE granted)
                      \o (IF Sent THEN <<BusTrans>> ELSE <<>>)
  BY DEF Step, Registers, ObserverStep, Sent
<1>3. /\ FilterAccepts => Trans \in Transfers
      /\ Sent => FilterAccepts \/ WbufFull
  BY <1>2, BufferBalance
<1>4. Sent => Due # <<>> /\ Head(Due) = BusTrans
  BY <1>3, OldestSent
<1>5. owed \in Seq(Transfers)
  BY DEF PathInv, BufferInv, TypeOK, WbufFull
<1>6. Due = (IF FilterAccepts THEN owed \o <<Trans>> ELSE owed)
  BY <1>5 DEF Due
<1>7. RespValid => waiting # <<>> /\ Port!MayAnswer(Head(waiting), done)
  BY <1>1, OldestAnswered DEF Port!MayAnswer
<1>8. Port!Passing(accepted) = IF FilterAccepts THEN <<Trans>> ELSE <<>>
  BY OnlyPassing
<1>9. in.rvalid => granted # <<>>
  BY AnsweredOnce
<1>10. accepted \in {<<>>} \cup {<<t>> : t \in Transfers}
  BY TakenOnce, Offered
<1> HIDE DEF accepted
<1>11. Port!PortStep(accepted, answered, sent, done)
  <2>1. waiting' = Port!Drop(waiting, answered) \o accepted
    BY <1>1, <1>2, <1>7 DEF Port!Drop
  <2>2. owed' = Port!Drop(Due, sent)
    BY <1>1, <1>2, <1>4, <1>6 DEF Port!Drop
  <2>3. granted' = Port!Drop(granted, done) \o (IF sent THEN <<Head(Due)>> ELSE <<>>)
    BY <1>1, <1>2, <1>4 DEF Port!Drop
  <2>4. QED
    BY <1>1, <1>4, <1>7, <1>8, <1>9, <2>1, <2>2, <2>3 DEF Port!PortStep, Due
<1>12. QED
  BY <1>10, <1>11 DEF Port!PortNext

(* Whatever the accesses, grants, responses and interrupts are, the core is *)
(* answered once for every transfer and in order, the bus sees each that is *)
(* not blocked once and in order, and only stores are answered before the   *)
(* bus has.                                                                 *)
THEOREM PathIsPort == Spec => ImplementsDataPort
<1>1. Init => Port!PortInit
  BY DEF Init, Port!PortInit
<1>2. PathInv /\ OrderInv /\ [Next]_vars => OrderInv'
  BY OrderStep, OrderStutter DEF Next, Step
<1>3. PathInv /\ OrderInv /\ [Next]_vars => [Port!PortNext]_(Port!portVars)
  <2>1. ASSUME PathInv, OrderInv, Next PROVE Port!PortNext
    BY <2>1, PortStepped DEF Next, Step
  <2>2. UNCHANGED vars => UNCHANGED Port!portVars
    BY DEF vars, Port!portVars
  <2>3. QED
    BY <2>1, <2>2
<1>4. QED
  BY <1>1, <1>2, <1>3, OrderStart, PathInvariant, PTL DEF Spec, ImplementsDataPort, Port!PortSpec

-----------------------------------------------------------------------------

Blocked == wpt_state = "RESP" \/ mpu_state = "RESP"

(* WB holds the access whose transfer is the oldest one waited for. *)
WbInv ==
  /\ cnt_q > 0 => ex_wb_pipe = "lsu"
  /\ ex_wb_pipe = "lsu" => cnt_q > 0 \/ lsu_valid_q

(* Debug is entered with nothing under way; only what a trigger stopped may *)
(* be in WB then, answered.                                                 *)
DebugInv ==
  /\ lsu_valid_q => /\ ctrl_fsm_cs = "DEBUG_TAKEN" /\ debug_cause_q = "TRIGGER"
                    /\ ex_wb_pipe = "lsu"
  /\ ctrl_fsm_cs = "DEBUG_TAKEN" => cnt_q = 0

(* An access that is offered or has begun stays in EX, and nothing in WB    *)
(* halts or kills it.  It may have begun in EX for two reasons: its first   *)
(* half has gone to WB, or WB is not ready for the transfer it has begun.   *)
EngagedInv ==
  /\ begun \/ trans_valid_q =>
       /\ id_ex_pipe \in Accesses
       /\ ex_wb_pipe \in {"lsu", "none"}
       /\ ~Blocked
       /\ ctrl_fsm_cs = "FUNCTIONAL"
  /\ begun => cnt_q > 0 \/ trans_valid_q
  /\ begun /\ ~split_q => cnt_q = 2 /\ wpt_state = "IDLE" /\ mpu_state = "IDLE"
  /\ cnt_q = 2 => trans_valid_q

(* The transfers waited for are those of WB and EX, and the data of a first *)
(* half is kept for the second.                                             *)
HalvesInv ==
  /\ cnt_q > 0 => lsu_we_q = waiting[1].access.we
  /\ cnt_q = 2 => waiting[2] = Trans
  /\ split_q /\ cnt_q > 0 => waiting[1] = TransferOf(id_ex_pipe, 1)
  /\ split_q /\ cnt_q = 0 /\ ~id_ex_pipe.we => rdata_q = TransferOf(id_ex_pipe, 1)
  /\ cnt_q > 0 /\ waiting[1].part = 2 /\ Port!Passes(waiting[1]) /\ ~waiting[1].access.we
       => rdata_q = TransferOf(waiting[1].access, 1)

PipeInv == WbInv /\ DebugInv /\ EngagedInv /\ HalvesInv

CycleInv == PathInv /\ OrderInv /\ PipeInv

-----------------------------------------------------------------------------
(* One cycle.                                                               *)

(* The controller lets an access go on that is offered or has begun. *)
LEMMA EngagedGoes ==
  CycleInv /\ (begun \/ trans_valid_q \/ TransValid) =>
    /\ Decision = "go" /\ ~KillEx /\ ~HaltEx /\ ~KillWb /\ ~HaltWb
    /\ Valid0 /\ id_ex_pipe \in Accesses /\ id_ex_pipe.kind = "lsu"
<1> SUFFICES ASSUME CycleInv, begun \/ trans_valid_q \/ TransValid
             PROVE  /\ Decision = "go" /\ ~HaltEx
                    /\ id_ex_pipe \in Accesses /\ id_ex_pipe.kind = "lsu"
  BY DEF KillEx, KillWb, HaltWb, Valid0, ExValidInstr
<1>1. CASE TransValid
  <2>1. id_ex_pipe \in Accesses /\ ~KillEx /\ ~HaltEx /\ id_ex_pipe.kind = "lsu"
    BY <1>1, Offered DEF CycleInv, TransValid, Valid0
  <2>2. Decision \in {"debug", "interrupt", "halt", "exception", "flush", "drain", "go"}
    BY DEF Decision
  <2>3. QED
    BY <2>1, <2>2 DEF KillEx, HaltEx
<1>2. CASE begun \/ trans_valid_q
  <2>1. /\ id_ex_pipe \in Accesses /\ ex_wb_pipe \in {"lsu", "none"}
        /\ wpt_state # "RESP" /\ mpu_state # "RESP" /\ ctrl_fsm_cs # "DEBUG_TAKEN"
        /\ cnt_q > 0 \/ trans_valid_q
    BY <1>2 DEF CycleInv, PipeInv, EngagedInv, Blocked
  <2>2. id_ex_pipe.kind = "lsu"
    BY <2>1, LsuAssumption
  <2>3. in.async = "none"
    BY <2>1 DEF CycleInv, PathInv, Possible, Interruptible
  <2>4. WbStatus = "ok"
    BY <2>1 DEF WbStatus, RespStatus, CycleInv, PipeInv, DebugInv
  <2>5. Decision = "go"
    BY <2>1, <2>3, <2>4 DEF Decision
  <2>6. ~HaltEx
    BY <2>1, <2>5 DEF HaltEx
  <2>7. QED
    BY <2>1, <2>2, <2>5, <2>6
<1>3. QED
  BY <1>1, <1>2

(* WB is not killed while an answer is awaited. *)
LEMMA NoKillWaiting ==
  ASSUME CycleInv, KillWb
  PROVE  cnt_q = 0 /\ ex_wb_pipe # "lsu"
<1>1. CASE Decision = "interrupt"
  <2>1. in.async # "none" /\ ctrl_fsm_cs # "DEBUG_TAKEN"
    BY <1>1 DEF Decision
  <2>2. cnt_q = 0
    BY <2>1 DEF CycleInv, PathInv, Possible, Interruptible
  <2>3. QED
    BY <2>1, <2>2 DEF CycleInv, PipeInv, WbInv, DebugInv
<1>2. CASE Decision = "debug" /\ debug_cause_q = "HALTREQ"
  <2>1. ctrl_fsm_cs = "DEBUG_TAKEN"
    BY <1>2 DEF Decision
  <2>2. QED
    BY <1>2, <2>1 DEF CycleInv, PipeInv, WbInv, DebugInv
<1>3. QED
  BY <1>1, <1>2 DEF KillWb
(* How such an access leaves EX: when its transfer has been taken and WB is *)
(* ready for it.                                                            *)
LEMMA Leaving ==
  ASSUME CycleInv, begun \/ trans_valid_q \/ TransValid
  PROVE  /\ WbReady <=> cnt_q = 0 \/ RespValid
         /\ ExValid <=> cnt_q = 2 \/ CountUp
         /\ CtrlUpdate <=> ExValid /\ WbReady
         /\ ExReady <=> CtrlUpdate /\ ~Split0
         /\ cnt_q < 2 => TransValid
<1>1. /\ ~KillEx /\ ~HaltEx /\ ~KillWb /\ ~HaltWb
      /\ Valid0 /\ id_ex_pipe.kind = "lsu"
  BY EngagedGoes
<1>2. cnt_q \in 0 .. 2 /\ Depth = 2
  BY LsuAssumption DEF CycleInv, PathInv, TypeOK
<1>3. CountUp => cnt_q < 2
  BY TakenOnce, Offered DEF CycleInv
<1>4. AddressDone <=> cnt_q = 2 \/ CountUp
  BY <1>2, <1>3 DEF AddressDone
<1>5. WbReady <=> cnt_q = 0 \/ RespValid
  BY <1>1 DEF WbReady
<1>6. ExValid <=> AddressDone
  BY <1>1 DEF ExValid, Valid0
<1>7. Done0 <=> AddressDone /\ WbReady
  BY <1>1 DEF Done0
<1>8. CtrlUpdate <=> Done0
  BY <1>1 DEF CtrlUpdate
<1>9. ExReady <=> Done0 /\ ~Split0
  BY <1>1 DEF ExReady
<1>10. cnt_q < 2 => TransValid
  BY <1>1, <1>2 DEF TransValid
<1>11. QED
  BY <1>4, <1>5, <1>6, <1>7, <1>8, <1>9, <1>10

(* The counts of a cycle as numbers. *)
LEMMA Counts ==
  ASSUME CycleInv, Step
  PROVE  /\ cnt_q' = cnt_q + Bit(CountUp) - Bit(RespValid)
         /\ cnt_q \in 0 .. 2 /\ cnt_q' \in 0 .. 2
         /\ CountUp => cnt_q < 2 /\ TransValid
         /\ RespValid => cnt_q > 0
         /\ CountUp <=> Bit(CountUp) = 1
         /\ RespValid <=> Bit(RespValid) = 1
         /\ Bit(CountUp) \in 0 .. 1 /\ Bit(RespValid) \in 0 .. 1
<1>1. cnt_q' = cnt_q + Bit(CountUp) - Bit(RespValid) /\ cnt_q' \in 0 .. 2
  BY CountersStep DEF CycleInv
<1>2. cnt_q \in 0 .. 2
  BY LsuAssumption DEF CycleInv, PathInv, TypeOK
<1>3. CountUp => cnt_q < 2 /\ TransValid
  BY TakenOnce, Offered DEF CycleInv
<1>4. RespValid => cnt_q > 0
  BY <1>2, AnsweredOnce DEF CycleInv
<1>5. QED
  BY <1>1, <1>2, <1>3, <1>4 DEF Bit

LEMMA WbStepKeeps == ASSUME CycleInv, Step PROVE WbInv'
<1>1. ex_wb_pipe' = IF ~WbReady THEN ex_wb_pipe
                    ELSE IF ExValid THEN id_ex_pipe.kind ELSE "none"
  BY DEF Step, Registers, WbStep
<1>2. lsu_valid_q' = (~(WbValid \/ KillWb) /\ LsuValidWb)
  BY DEF Step, Registers, WbStep
<1>3. /\ cnt_q' = cnt_q + Bit(CountUp) - Bit(RespValid)
      /\ cnt_q \in 0 .. 2 /\ cnt_q' \in 0 .. 2
      /\ CountUp => cnt_q < 2 /\ TransValid
      /\ RespValid => cnt_q > 0
      /\ CountUp <=> Bit(CountUp) = 1
      /\ RespValid <=> Bit(RespValid) = 1
      /\ Bit(CountUp) \in 0 .. 1 /\ Bit(RespValid) \in 0 .. 1
  BY Counts
<1>4. ASSUME cnt_q' > 0 PROVE ex_wb_pipe' = "lsu"
  <2>1. CASE TransValid \/ cnt_q = 2
    <3>1. begun \/ trans_valid_q \/ TransValid
      BY <2>1 DEF CycleInv, PipeInv, EngagedInv
    <3>2. /\ WbReady <=> cnt_q = 0 \/ RespValid
          /\ ExValid <=> cnt_q = 2 \/ CountUp
          /\ id_ex_pipe.kind = "lsu"
      BY <3>1, Leaving, EngagedGoes
    <3>3. CASE WbReady
      <4>1. ExValid
        BY <1>3, <1>4, <3>2, <3>3
      <4>2. QED
        BY <1>1, <3>2, <3>3, <4>1
    <3>4. CASE ~WbReady
      BY <1>1, <1>3, <3>2, <3>4 DEF CycleInv, PipeInv, WbInv
    <3>5. QED
      BY <3>3, <3>4
  <2>2. CASE ~TransValid /\ cnt_q # 2
    <3>1. cnt_q > 0 /\ ~RespValid
      BY <1>3, <1>4, <2>2
    <3>2. ~KillWb
      BY <3>1, NoKillWaiting
    <3>3. ~WbReady
      BY <1>3, <3>1, <3>2 DEF WbReady
    <3>4. QED
      BY <1>1, <3>1, <3>3 DEF CycleInv, PipeInv, WbInv
  <2>3. QED
    BY <2>1, <2>2
<1>5. ASSUME ex_wb_pipe' = "lsu", cnt_q' = 0 PROVE lsu_valid_q'
  <2>1. CASE WbReady
    <3>1. ExValid /\ id_ex_pipe.kind = "lsu"
      BY <1>1, <1>5, <2>1
    <3>2. /\ ~KillEx /\ AddressDone
      BY <3>1 DEF ExValid, ExValidInstr
    <3>3. ~KillWb
      BY <3>2 DEF KillEx, KillWb
    <3>4. cnt_q = 0 \/ RespValid
      BY <2>1, <3>3 DEF WbReady
    <3>5. cnt_q = 2 \/ CountUp
      BY <1>3, <3>2, LsuAssumption DEF AddressDone
    <3>6. QED
      BY <1>3, <1>5, <3>4, <3>5
  <2>2. CASE ~WbReady
    <3>1. ex_wb_pipe = "lsu" /\ ~KillWb
      BY <1>1, <1>5, <2>2 DEF WbReady
    <3>2. ~lsu_valid_q
      <4>1. ASSUME lsu_valid_q PROVE WbReady
        <5>1. ctrl_fsm_cs = "DEBUG_TAKEN" /\ cnt_q = 0
          BY <4>1 DEF CycleInv, PipeInv, DebugInv
        <5>2. Decision = "debug"
          BY <5>1 DEF Decision
        <5>3. QED
          BY <5>1, <5>2 DEF WbReady, HaltWb
      <4>2. QED
        BY <2>2, <4>1
    <3>3. cnt_q > 0
      BY <3>1, <3>2 DEF CycleInv, PipeInv, WbInv
    <3>4. RespValid
      BY <1>3, <1>5, <3>3
    <3>5. HaltWb
      BY <2>2, <3>4 DEF WbReady
    <3>6. LsuValidWb /\ ~WbValid
      BY <3>1, <3>4, <3>5 DEF LsuValidWb, WbValid
    <3>7. QED
      BY <1>2, <3>1, <3>6
  <2>3. QED
    BY <2>1, <2>2
<1>6. QED
  BY <1>3, <1>4, <1>5 DEF WbInv

LEMMA DebugStepKeeps == ASSUME CycleInv, Step PROVE DebugInv'
<1>1. /\ ctrl_fsm_cs' = IF Decision = "halt" THEN "DEBUG_TAKEN" ELSE "FUNCTIONAL"
      /\ debug_cause_q' = IF Decision # "halt" THEN debug_cause_q
                          ELSE IF in.async = "debug" THEN "HALTREQ" ELSE "TRIGGER"
      /\ lsu_valid_q' = (~(WbValid \/ KillWb) /\ LsuValidWb)
      /\ ex_wb_pipe' = IF ~WbReady THEN ex_wb_pipe
                       ELSE IF ExValid THEN id_ex_pipe.kind ELSE "none"
  BY DEF Step, Registers, ControllerStep, WbStep
<1>2. /\ cnt_q' = cnt_q + Bit(CountUp) - Bit(RespValid)
      /\ cnt_q \in 0 .. 2 /\ cnt_q' \in 0 .. 2
      /\ CountUp => cnt_q < 2 /\ TransValid
      /\ RespValid => cnt_q > 0
      /\ CountUp <=> Bit(CountUp) = 1
      /\ RespValid <=> Bit(RespValid) = 1
      /\ Bit(CountUp) \in 0 .. 1 /\ Bit(RespValid) \in 0 .. 1
  BY Counts
<1>3. in.async # "none" => cnt_q = 0
  BY DEF CycleInv, PathInv, Possible, Interruptible
<1>4. ASSUME lsu_valid_q'
      PROVE  /\ ctrl_fsm_cs' = "DEBUG_TAKEN" /\ debug_cause_q' = "TRIGGER"
             /\ ex_wb_pipe' = "lsu"
  <2>1. ~WbValid /\ ~KillWb /\ LsuValidWb
    BY <1>1, <1>4
  <2>2. ~lsu_valid_q
    <3>1. ASSUME lsu_valid_q PROVE WbValid
      <4>1. ctrl_fsm_cs = "DEBUG_TAKEN" /\ ex_wb_pipe = "lsu"
        BY <3>1 DEF CycleInv, PipeInv, DebugInv
      <4>2. Decision = "debug"
        BY <4>1 DEF Decision
      <4>3. QED
        BY <2>1, <4>1, <4>2 DEF WbValid, HaltWb
    <3>2. QED
      BY <2>1, <3>1
  <2>3. RespValid /\ ex_wb_pipe = "lsu"
    BY <2>1, <2>2 DEF LsuValidWb
  <2>4. HaltWb
    BY <2>1, <2>3 DEF WbValid, LsuValidWb
  <2>5. Decision # "drain"
    BY <2>3 DEF Decision
  <2>6. Decision = "halt" /\ in.async # "debug"
    BY <1>2, <1>3, <2>3, <2>4, <2>5 DEF HaltWb
  <2>7. ~WbReady
    BY <2>1, <2>4 DEF WbReady
  <2>8. QED
    BY <1>1, <2>3, <2>6, <2>7
<1>5. ASSUME ctrl_fsm_cs' = "DEBUG_TAKEN" PROVE cnt_q' = 0
  <2>1. Decision = "halt"
    BY <1>1, <1>5
  <2>2. ~CountUp
    BY <1>2, <2>1 DEF TransValid, Valid0, ExValidInstr, HaltEx
  <2>3. CASE in.async # "none"
    BY <1>2, <1>3, <2>2, <2>3
  <2>4. CASE in.async = "none"
    <3>1. ctrl_fsm_cs # "DEBUG_TAKEN" /\ WbStatus = "watch"
      BY <2>1, <2>4 DEF Decision
    <3>2. wpt_state = "RESP"
      BY <3>1 DEF WbStatus, RespStatus, CycleInv, PipeInv, DebugInv
    <3>3. cnt_q = 1 /\ RespValid
      BY <3>2 DEF CycleInv, PathInv, GatesInv, RespValid
    <3>4. Bit(CountUp) = 0 /\ Bit(RespValid) = 1
      BY <2>2, <3>3 DEF Bit
    <3>5. cnt_q' = cnt_q + Bit(CountUp) - Bit(RespValid)
      BY <1>2
    <3>6. QED
      BY <3>3, <3>4, <3>5
  <2>5. QED
    BY <2>3, <2>4
<1>6. QED
  BY <1>4, <1>5 DEF DebugInv

(* A gate answers next only after an access has left EX. *)
LEMMA BlockedNext ==
  ASSUME CycleInv, Step, Blocked'
  PROVE  /\ begun \/ trans_valid_q \/ TransValid
         /\ CtrlUpdate
         /\ cnt_q = 2 \/ WptHit \/ MpuHit
         /\ cnt_q = 2 => wpt_state # "IDLE" \/ mpu_state # "IDLE"
<1>1. /\ wpt_state' = GateNext(wpt_state, WptHit)
      /\ mpu_state' = GateNext(mpu_state, MpuHit)
      /\ cnt_q' = NextCnt
  BY DEF Step, Registers, GateStep, LsuStep
<1>2. /\ cnt_q' = cnt_q + Bit(CountUp) - Bit(RespValid)
      /\ cnt_q \in 0 .. 2 /\ cnt_q' \in 0 .. 2
      /\ CountUp => cnt_q < 2 /\ TransValid
      /\ RespValid => cnt_q > 0
      /\ CountUp <=> Bit(CountUp) = 1
      /\ RespValid <=> Bit(RespValid) = 1
      /\ Bit(CountUp) \in 0 .. 1 /\ Bit(RespValid) \in 0 .. 1
  BY Counts
<1>3. /\ wpt_state \in {"IDLE", "WAIT", "RESP"} /\ mpu_state \in {"IDLE", "WAIT", "RESP"}
      /\ wpt_state = "WAIT" \/ mpu_state = "WAIT" => cnt_q = 2
  BY DEF CycleInv, PathInv, TypeOK, GatesInv, GateStates
<1>4. wpt_state' = "RESP" \/ mpu_state' = "RESP"
  BY DEF Blocked
<1>5. /\ cnt_q' = 1
      /\ \/ WptHit \/ MpuHit
         \/ wpt_state = "WAIT" \/ mpu_state = "WAIT"
  BY <1>1, <1>3, <1>4 DEF GateNext, OneTxnPendN
<1>6. WptHit \/ MpuHit => CountUp /\ cnt_q < 2 /\ TransValid
  BY <1>2 DEF CountUp
<1>7. begun \/ trans_valid_q \/ TransValid
  BY <1>3, <1>5, <1>6 DEF CycleInv, PipeInv, EngagedInv
<1>8. /\ CtrlUpdate <=> ExValid /\ WbReady
      /\ ExValid <=> cnt_q = 2 \/ CountUp
      /\ WbReady <=> cnt_q = 0 \/ RespValid
  BY <1>7, Leaving
<1>9. cnt_q = 2 \/ WptHit \/ MpuHit
  BY <1>3, <1>5
<1>10. cnt_q = 2 => wpt_state # "IDLE" \/ mpu_state # "IDLE"
  BY <1>5, <1>6
<1>11. CtrlUpdate
  BY <1>2, <1>5, <1>6, <1>8, <1>9
<1>12. QED
  BY <1>7, <1>9, <1>10, <1>11

LEMMA EngagedStepKeeps == ASSUME CycleInv, Step PROVE EngagedInv'
<1>1. /\ begun' = (~ExReady /\ (begun \/ FilterAccepts))
      /\ trans_valid_q' = (~CtrlUpdate /\ (TransValid \/ trans_valid_q))
      /\ split_q' = (Valid0 /\ IF CtrlUpdate THEN Split0 ELSE split_q)
      /\ ctrl_fsm_cs' = IF Decision = "halt" THEN "DEBUG_TAKEN" ELSE "FUNCTIONAL"
      /\ ex_wb_pipe' = IF ~WbReady THEN ex_wb_pipe
                       ELSE IF ExValid THEN id_ex_pipe.kind ELSE "none"
      /\ wpt_state' = GateNext(wpt_state, WptHit)
      /\ mpu_state' = GateNext(mpu_state, MpuHit)
  BY DEF Step, Registers, ObserverStep, LsuStep, ControllerStep, WbStep, GateStep
<1>2. PICK next \in Issued : id_ex_pipe' = IF ExReady THEN next ELSE id_ex_pipe
  BY DEF Step, Registers, ExStep
<1>3. /\ cnt_q' = cnt_q + Bit(CountUp) - Bit(RespValid)
      /\ cnt_q \in 0 .. 2 /\ cnt_q' \in 0 .. 2
      /\ CountUp => cnt_q < 2 /\ TransValid
      /\ RespValid => cnt_q > 0
      /\ CountUp <=> Bit(CountUp) = 1
      /\ RespValid <=> Bit(RespValid) = 1
      /\ Bit(CountUp) \in 0 .. 1 /\ Bit(RespValid) \in 0 .. 1
  BY Counts
<1>4. /\ FilterAccepts => CountUp /\ TransValid /\ wpt_state = "IDLE" /\ mpu_state = "IDLE"
                          /\ ~WptHit /\ ~MpuHit
      /\ Bit(CountUp) = Bit(WptHit) + Bit(MpuHit) + Bit(FilterAccepts)
  BY <1>3, TakenOnce DEF CycleInv, CountUp, FilterAccepts, BufferTransValid, FilterTransValid,
     MpuTransValid
<1>5. /\ begun /\ ~split_q => cnt_q = 2 /\ wpt_state = "IDLE" /\ mpu_state = "IDLE"
      /\ begun => cnt_q > 0 \/ trans_valid_q
      /\ cnt_q = 2 => trans_valid_q
  BY DEF CycleInv, PipeInv, EngagedInv
<1> DEFINE Engaged == begun \/ trans_valid_q \/ TransValid
<1>6. ASSUME Engaged
      PROVE  /\ Decision = "go" /\ ~KillWb /\ Valid0
             /\ id_ex_pipe \in Accesses /\ id_ex_pipe.kind = "lsu"
             /\ WbReady <=> cnt_q = 0 \/ RespValid
             /\ ExValid <=> cnt_q = 2 \/ CountUp
             /\ CtrlUpdate <=> ExValid /\ WbReady
             /\ ExReady <=> CtrlUpdate /\ ~Split0
             /\ cnt_q < 2 => TransValid
  BY <1>6, EngagedGoes, Leaving
<1>7. begun' \/ trans_valid_q' => Engaged /\ ~ExReady
  <2>1. trans_valid_q' => Engaged /\ ~CtrlUpdate
    BY <1>1
  <2>2. begun' => Engaged /\ ~ExReady
    BY <1>1, <1>4
  <2>3. QED
    BY <1>6, <2>1, <2>2
<1> HIDE DEF Engaged
<1>8. ASSUME begun' \/ trans_valid_q'
      PROVE  /\ id_ex_pipe' \in Accesses
             /\ ex_wb_pipe' \in {"lsu", "none"}
             /\ ctrl_fsm_cs' = "FUNCTIONAL"
  <2>1. Engaged /\ ~ExReady
    BY <1>7, <1>8
  <2>2. id_ex_pipe' \in Accesses /\ ctrl_fsm_cs' = "FUNCTIONAL"
    BY <1>1, <1>2, <1>6, <2>1
  <2>3. ~WbReady => ex_wb_pipe = "lsu"
    BY <1>3, <1>6, <2>1 DEF CycleInv, PipeInv, WbInv
  <2>4. QED
    BY <1>1, <1>6, <2>1, <2>2, <2>3
<1>9. ASSUME begun' \/ trans_valid_q', Blocked' PROVE FALSE
  <2>1. /\ CtrlUpdate
        /\ cnt_q = 2 \/ WptHit \/ MpuHit
        /\ cnt_q = 2 => wpt_state # "IDLE" \/ mpu_state # "IDLE"
    BY <1>9, BlockedNext
  <2>2. begun' /\ Engaged /\ ~ExReady
    BY <1>1, <1>7, <1>9, <2>1
  <2>3. Split0
    BY <1>6, <2>1, <2>2
  <2>4. ~split_q
    BY <2>3 DEF Split0
  <2>5. begun \/ FilterAccepts
    BY <1>1, <2>2
  <2>6. ~begun
    BY <1>3, <1>5, <2>1, <2>4 DEF CountUp
  <2>7. FilterAccepts
    BY <2>5, <2>6
  <2>8. QED
    BY <1>3, <1>4, <2>1, <2>7
<1>10. ASSUME begun', ~split_q'
       PROVE  cnt_q' = 2 /\ wpt_state' = "IDLE" /\ mpu_state' = "IDLE"
  <2>1. Engaged /\ ~ExReady /\ Valid0
    BY <1>6, <1>7, <1>10
  <2>2. ~CtrlUpdate /\ ~split_q
    BY <1>1, <1>6, <1>10, <2>1
  <2>3. CASE begun
    <3>1. cnt_q = 2 /\ wpt_state = "IDLE" /\ mpu_state = "IDLE"
      BY <1>5, <2>2, <2>3
    <3>2. ~CountUp /\ ~RespValid
      BY <1>3, <1>6, <2>1, <2>2, <3>1
    <3>3. ~WptHit /\ ~MpuHit
      BY <3>2 DEF CountUp
    <3>4. QED
      BY <1>1, <1>3, <3>1, <3>2, <3>3 DEF GateNext
  <2>4. CASE FilterAccepts
    <3>1. CountUp /\ wpt_state = "IDLE" /\ mpu_state = "IDLE" /\ ~WptHit /\ ~MpuHit
      BY <1>4, <2>4
    <3>2. cnt_q = 1 /\ ~RespValid
      BY <1>3, <1>6, <2>1, <2>2, <3>1
    <3>3. cnt_q' = 2
      <4>1. Bit(CountUp) = 1 /\ Bit(RespValid) = 0
        BY <3>1, <3>2 DEF Bit
      <4>2. cnt_q' = cnt_q + Bit(CountUp) - Bit(RespValid)
        BY <1>3
      <4>3. QED
        BY <3>2, <4>1, <4>2
    <3>4. wpt_state' = "IDLE" /\ mpu_state' = "IDLE"
      BY <1>1, <3>1 DEF GateNext
    <3>5. QED
      BY <3>3, <3>4
  <2>5. QED
    BY <1>1, <1>10, <2>3, <2>4
<1>11. ASSUME begun', cnt_q' = 0 PROVE trans_valid_q'
  <2>1. Engaged
    BY <1>7, <1>11
  <2>2. ~CountUp /\ cnt_q < 2 /\ cnt_q # 2
    BY <1>3, <1>11
  <2>3. TransValid /\ ~CtrlUpdate
    BY <1>6, <2>1, <2>2
  <2>4. QED
    BY <1>1, <2>3
<1>12. ASSUME cnt_q' = 2 PROVE trans_valid_q'
  <2>1. ~RespValid /\ (cnt_q = 2 \/ CountUp) /\ cnt_q > 0
    BY <1>3, <1>12
  <2>2. TransValid \/ trans_valid_q
    BY <1>3, <1>5, <2>1
  <2>3. Engaged
    BY <2>2 DEF Engaged
  <2>4. ~CtrlUpdate
    BY <1>3, <1>6, <2>1, <2>3
  <2>5. QED
    BY <1>1, <2>2, <2>4
<1>13. QED
  <2>1. begun' /\ ~split_q' => cnt_q' = 2 /\ wpt_state' = "IDLE" /\ mpu_state' = "IDLE"
    BY <1>10
  <2>2. begun' => cnt_q' > 0 \/ trans_valid_q'
    BY <1>3, <1>11
  <2>3. QED
    BY <1>8, <1>9, <1>12, <2>1, <2>2 DEF EngagedInv

LEMMA LoadsUnbuffered ==
  ASSUME NEW t \in Transfers, ~t.access.we
  PROVE  t.attr # "buffered"
<1>1. PICK a \in Accesses : \E k \in DOMAIN a.attrs : t = TransferOf(a, k)
  BY DEF Transfers
<1>2. PICK k \in DOMAIN a.attrs : t = TransferOf(a, k)
  BY <1>1
<1>3. ~a.we => a.attrs[k] # "buffered"
  BY <1>2, LsuAssumption
<1>4. QED
  BY <1>2, <1>3 DEF TransferOf

(* The status of an answer is that of the oldest transfer. *)
LEMMA StatusIsOwn ==
  ASSUME PathInv, OrderInv, RespValid
  PROVE  /\ Head(waiting) = waiting[1] /\ waiting[1] \in Transfers
         /\ RespStatus = IF Port!Passes(waiting[1]) THEN "ok" ELSE waiting[1].attr
<1>1. waiting \in Seq(Transfers) /\ Len(waiting) = cnt_q /\ cnt_q >= 1
  BY AnsweredOnce DEF PathInv, WaitInv
<1>2. Head(waiting) = waiting[1] /\ waiting[1] \in Transfers
  BY <1>1
<1>3. CASE wpt_state = "RESP" \/ mpu_state = "RESP"
  <2>1. cnt_q = 1 /\ (wpt_state = "IDLE" \/ mpu_state = "IDLE")
    BY <1>3 DEF PathInv, GatesInv
  <2>2. /\ wpt_state = "RESP" => waiting[1].attr = "watch"
        /\ wpt_state # "RESP" => waiting[1].attr = "fault"
    BY <1>3, <2>1 DEF OrderInv
  <2>3. QED
    BY <1>2, <1>3, <2>2 DEF RespStatus, Port!Passes
<1>4. CASE ~(wpt_state = "RESP" \/ mpu_state = "RESP")
  <2>1. FilterRespValid /\ RespStatus = "ok"
    BY <1>4 DEF RespValid, RespStatus
  <2>2. core_cnt_q >= 1 /\ core_cnt_q \in 0 .. 2 /\ bus_cnt_q \in 0 .. 2 /\ core_cnt_q <= bus_cnt_q
    BY <2>1, AnsweredOnce, LsuAssumption DEF PathInv, TypeOK, FilterInv
  <2>3. PICK j \in 1 .. 2 : j = bus_cnt_q - core_cnt_q + 1
    BY <2>2
  <2>4. waiting[1] = BusAt(j)
    BY <2>2, <2>3 DEF OrderInv
  <2>5. j <= bus_cnt_q
    BY <2>2, <2>3
  <2>6. Port!Passes(BusAt(j))
    BY <2>5 DEF OrderInv
  <2>7. QED
    BY <1>2, <2>1, <2>4, <2>6
<1>5. QED
  BY <1>3, <1>4

(* A blocked transfer is not answered while the next one goes on. *)
LEMMA PassedWhenGoing ==
  ASSUME CycleInv, RespValid, begun \/ trans_valid_q \/ TransValid
  PROVE  Port!Passes(waiting[1])
<1>1. Decision = "go"
  BY EngagedGoes
<1>2. cnt_q > 0
  <2>1. PathInv /\ cnt_q \in 0 .. 2
    BY LsuAssumption DEF CycleInv, PathInv, TypeOK
  <2>2. cnt_q >= 1
    BY <2>1, AnsweredOnce
  <2>3. QED
    BY <2>1, <2>2
<1>3. ex_wb_pipe = "lsu" /\ ~lsu_valid_q
  BY <1>2 DEF CycleInv, PipeInv, WbInv, DebugInv
<1>4. WbStatus = RespStatus
  BY <1>3 DEF WbStatus
<1>5. RespStatus # "watch" /\ RespStatus # "fault"
  BY <1>1, <1>3, <1>4 DEF Decision
<1>6. QED
  BY <1>5, StatusIsOwn DEF Port!Passes, CycleInv

(* When the second half may go, the data of the first is there or comes. *)
LEMMA FirstHalfKept ==
  ASSUME CycleInv, Step, split_q, begun \/ trans_valid_q \/ TransValid,
         ~id_ex_pipe.we, cnt_q = 0 \/ RespValid
  PROVE  rdata_q' = TransferOf(id_ex_pipe, 1)
<1>1. rdata_q' = IF ~RespValid \/ lsu_we_q THEN rdata_q
                 ELSE IF (split_q \/ Split0) /\ in.rvalid THEN Head(granted)
                 ELSE NoTransfer
  BY DEF Step, Registers, LsuStep
<1>2. RespValid => cnt_q > 0
  BY Counts
<1>3. CASE cnt_q = 0
  <2>1. ~RespValid
    BY <1>2, <1>3
  <2>2. rdata_q = TransferOf(id_ex_pipe, 1)
    BY <1>3 DEF CycleInv, PipeInv, HalvesInv
  <2>3. QED
    BY <1>1, <2>1, <2>2
<1>4. CASE RespValid
  <2>1. waiting[1] = TransferOf(id_ex_pipe, 1) /\ lsu_we_q = waiting[1].access.we
    BY <1>2, <1>4 DEF CycleInv, PipeInv, HalvesInv
  <2>2. ~lsu_we_q /\ ~waiting[1].access.we
    BY <2>1 DEF TransferOf
  <2>3. /\ Head(waiting) = waiting[1] /\ waiting[1] \in Transfers
        /\ Port!Passes(waiting[1])
    BY <1>4, StatusIsOwn, PassedWhenGoing DEF CycleInv
  <2>4. waiting[1].attr # "buffered"
    BY <2>2, <2>3, LoadsUnbuffered
  <2>5. in.rvalid /\ Head(granted) = waiting[1]
    BY <1>4, <2>3, <2>4, OldestAnswered DEF CycleInv
  <2>6. QED
    BY <1>1, <1>4, <2>1, <2>2, <2>5
<1>5. QED
  BY <1>3, <1>4

(* The oldest transfer after a cycle is the one before, or that of EX. *)
LEMMA OldestNext ==
  ASSUME CycleInv, Step, cnt_q' > 0
  PROVE  /\ cnt_q = 0 \/ RespValid =>
              /\ begun \/ trans_valid_q \/ TransValid
              /\ waiting'[1] = Trans
              /\ CtrlUpdate
         /\ cnt_q # 0 /\ ~RespValid => waiting'[1] = waiting[1] /\ ~CtrlUpdate
<1>1. /\ cnt_q' = cnt_q + Bit(CountUp) - Bit(RespValid)
      /\ cnt_q \in 0 .. 2 /\ cnt_q' \in 0 .. 2
      /\ CountUp => cnt_q < 2 /\ TransValid
      /\ RespValid => cnt_q > 0
      /\ CountUp <=> Bit(CountUp) = 1
      /\ RespValid <=> Bit(RespValid) = 1
      /\ Bit(CountUp) \in 0 .. 1 /\ Bit(RespValid) \in 0 .. 1
  BY Counts
<1>2. /\ \A j \in Nat : 1 <= j /\ j <= cnt_q - Bit(RespValid) =>
           waiting'[j] = waiting[j + Bit(RespValid)]
      /\ CountUp => waiting'[cnt_q'] = Trans
  BY CoreShift DEF CycleInv
<1>3. cnt_q = 2 => trans_valid_q /\ waiting[2] = Trans
  BY DEF CycleInv, PipeInv, EngagedInv, HalvesInv
<1>4. ASSUME cnt_q = 0 \/ RespValid
      PROVE  /\ begun \/ trans_valid_q \/ TransValid
             /\ waiting'[1] = Trans
             /\ CtrlUpdate
  <2>1. CountUp \/ cnt_q = 2
    BY <1>1, <1>4
  <2>2. begun \/ trans_valid_q \/ TransValid
    BY <1>1, <1>3, <2>1
  <2>3. CtrlUpdate
    BY <1>4, <2>1, <2>2, Leaving
  <2>4. CASE CountUp
    <3>1. cnt_q = 0 => ~RespValid
      BY <1>1
    <3>2. cnt_q = Bit(RespValid) /\ Bit(CountUp) = 1
      BY <1>1, <1>4, <2>4, <3>1 DEF Bit
    <3>3. cnt_q' = cnt_q + Bit(CountUp) - Bit(RespValid) /\ cnt_q \in 0 .. 2
      BY <1>1
    <3>4. cnt_q' = 1
      BY <3>2, <3>3
    <3>5. QED
      BY <1>2, <2>2, <2>3, <2>4, <3>4
  <2>5. CASE cnt_q = 2
    <3>1. Bit(RespValid) = 1
      BY <1>4, <2>5 DEF Bit
    <3>2. waiting'[1] = waiting[2]
      BY <1>2, <2>5, <3>1
    <3>3. QED
      BY <1>3, <2>2, <2>3, <2>5, <3>2
  <2>6. QED
    BY <2>1, <2>4, <2>5
<1>5. ASSUME cnt_q # 0, ~RespValid PROVE waiting'[1] = waiting[1] /\ ~CtrlUpdate
  <2>1. Bit(RespValid) = 0
    BY <1>5 DEF Bit
  <2>2. waiting'[1] = waiting[1]
    BY <1>1, <1>2, <1>5, <2>1
  <2>3. ~KillWb
    BY <1>5, NoKillWaiting
  <2>4. ~WbReady
    BY <1>5, <2>3 DEF WbReady
  <2>5. QED
    BY <2>2, <2>4 DEF CtrlUpdate, Done0
<1>6. QED
  BY <1>4, <1>5

LEMMA HalvesStepKeeps == ASSUME CycleInv, Step PROVE HalvesInv'
<1>1. /\ cnt_q' = cnt_q + Bit(CountUp) - Bit(RespValid)
      /\ cnt_q \in 0 .. 2 /\ cnt_q' \in 0 .. 2
      /\ CountUp => cnt_q < 2 /\ TransValid
      /\ RespValid => cnt_q > 0
      /\ CountUp <=> Bit(CountUp) = 1
      /\ RespValid <=> Bit(RespValid) = 1
      /\ Bit(CountUp) \in 0 .. 1 /\ Bit(RespValid) \in 0 .. 1
  BY Counts
<1>2. /\ split_q' = (Valid0 /\ IF CtrlUpdate THEN Split0 ELSE split_q)
      /\ lsu_we_q' = IF CtrlUpdate THEN id_ex_pipe.we ELSE lsu_we_q
      /\ ~RespValid => rdata_q' = rdata_q
  BY DEF Step, Registers, LsuStep
<1>3. PICK next \in Issued : id_ex_pipe' = IF ExReady THEN next ELSE id_ex_pipe
  BY DEF Step, Registers, ExStep
<1> DEFINE Engaged == begun \/ trans_valid_q \/ TransValid
           moved == cnt_q = 0 \/ RespValid
<1>4. Valid0 => Engaged
  <2>1. Valid0 => TransValid \/ cnt_q = 2
    BY <1>1, LsuAssumption DEF TransValid
  <2>2. cnt_q = 2 => trans_valid_q
    BY DEF CycleInv, PipeInv, EngagedInv
  <2>3. QED
    BY <2>1, <2>2
<1>5. ASSUME Engaged
      PROVE  /\ Valid0
             /\ WbReady <=> cnt_q = 0 \/ RespValid
             /\ ExValid <=> cnt_q = 2 \/ CountUp
             /\ CtrlUpdate <=> ExValid /\ WbReady
             /\ ExReady <=> CtrlUpdate /\ ~Split0
  BY <1>5, EngagedGoes, Leaving
<1>6. ASSUME cnt_q' > 0, moved PROVE Engaged /\ CtrlUpdate /\ waiting'[1] = Trans
  BY <1>6, OldestNext
<1>7. ASSUME cnt_q' > 0, ~moved PROVE ~CtrlUpdate /\ waiting'[1] = waiting[1] /\ cnt_q > 0
  BY <1>1, <1>7, OldestNext
<1>8. ASSUME Engaged, ~moved
      PROVE  id_ex_pipe' = id_ex_pipe /\ split_q' = split_q
  <2>1. ~CtrlUpdate /\ ~ExReady /\ Valid0
    BY <1>5, <1>8
  <2>2. split_q \in BOOLEAN
    BY DEF CycleInv, PathInv, TypeOK
  <2>3. QED
    BY <1>2, <1>3, <2>1, <2>2
<1>9. ASSUME Engaged, split_q, ~id_ex_pipe.we, moved
      PROVE  rdata_q' = TransferOf(id_ex_pipe, 1)
  BY <1>9, FirstHalfKept
<1>10. Trans.access = id_ex_pipe /\ Trans.part = (IF split_q THEN 2 ELSE 1)
  BY DEF Trans, TransferOf
<1>11. /\ cnt_q > 0 => lsu_we_q = waiting[1].access.we
       /\ cnt_q = 2 => waiting[2] = Trans
       /\ split_q /\ cnt_q > 0 => waiting[1] = TransferOf(id_ex_pipe, 1)
       /\ cnt_q > 0 /\ waiting[1].part = 2 /\ Port!Passes(waiting[1]) /\ ~waiting[1].access.we
            => rdata_q = TransferOf(waiting[1].access, 1)
       /\ cnt_q = 2 => trans_valid_q
  BY DEF CycleInv, PipeInv, HalvesInv, EngagedInv
<1> HIDE DEF Engaged, moved
<1>12. cnt_q' > 0 => lsu_we_q' = waiting'[1].access.we
  <2>1. CASE moved
    BY <1>2, <1>6, <1>10, <2>1
  <2>2. CASE ~moved
    BY <1>2, <1>7, <1>11, <2>2
  <2>3. QED
    BY <2>1, <2>2
<1>13. ASSUME cnt_q' = 2 PROVE waiting'[2] = Trans'
  <2>1. ~RespValid /\ cnt_q > 0 /\ (cnt_q = 2 \/ CountUp)
    BY <1>1, <1>13
  <2>2. ~moved
    BY <2>1 DEF moved
  <2>3. Engaged
    BY <1>1, <1>11, <2>1 DEF Engaged
  <2>4. Trans' = Trans
    BY <1>8, <2>2, <2>3 DEF Trans
  <2>5. waiting'[2] = Trans
    <3>1. CASE CountUp
      BY <1>13, <3>1, CoreShift DEF CycleInv
    <3>2. CASE cnt_q = 2
      <4>1. Bit(RespValid) = 0
        BY <2>1 DEF Bit
      <4>2. waiting'[2] = waiting[2 + Bit(RespValid)]
        <5>1. 2 \in Nat /\ 1 <= 2 /\ 2 <= cnt_q - Bit(RespValid)
          BY <3>2, <4>1
        <5>2. QED
          BY <5>1, CoreShift DEF CycleInv
      <4>3. waiting'[2] = waiting[2]
        BY <4>1, <4>2
      <4>4. QED
        BY <1>11, <3>2, <4>3
    <3>3. QED
      BY <2>1, <3>1, <3>2
  <2>6. QED
    BY <2>4, <2>5
<1>14. ASSUME split_q', cnt_q' > 0 PROVE waiting'[1] = TransferOf(id_ex_pipe', 1)
  <2>1. Valid0 /\ Engaged
    BY <1>2, <1>4, <1>14
  <2>2. CASE moved
    <3>1. CtrlUpdate /\ waiting'[1] = Trans /\ Split0
      BY <1>2, <1>6, <1>14, <2>2
    <3>2. ~ExReady /\ ~split_q
      BY <1>5, <2>1, <3>1 DEF Split0
    <3>3. QED
      BY <1>3, <3>1, <3>2 DEF Trans
  <2>3. CASE ~moved
    BY <1>7, <1>8, <1>11, <1>14, <2>1, <2>3
  <2>4. QED
    BY <2>2, <2>3
<1>15. ASSUME split_q', cnt_q' = 0, ~id_ex_pipe'.we
       PROVE  rdata_q' = TransferOf(id_ex_pipe', 1)
  <2>1. Valid0 /\ Engaged
    BY <1>2, <1>4, <1>15
  <2>2. ~CountUp /\ cnt_q # 2
    BY <1>1, <1>15
  <2>3. ~ExValid
    BY <1>5, <2>1, <2>2
  <2>4. ~CtrlUpdate /\ ~ExReady
    BY <1>5, <2>1, <2>3
  <2>5. split_q /\ id_ex_pipe' = id_ex_pipe
    BY <1>2, <1>3, <1>15, <2>4
  <2>6. moved
    BY <1>1, <1>15 DEF moved
  <2>7. QED
    BY <1>9, <1>15, <2>1, <2>5, <2>6
<1>16. ASSUME cnt_q' > 0, waiting'[1].part = 2, Port!Passes(waiting'[1]),
              ~waiting'[1].access.we
       PROVE  rdata_q' = TransferOf(waiting'[1].access, 1)
  <2>1. CASE moved
    <3>1. Engaged /\ waiting'[1] = Trans
      BY <1>6, <1>16, <2>1
    <3>2. split_q /\ Trans.access = id_ex_pipe
      BY <1>10, <1>16, <3>1
    <3>3. QED
      BY <1>9, <1>16, <2>1, <3>1, <3>2
  <2>2. CASE ~moved
    <3>1. waiting'[1] = waiting[1] /\ cnt_q > 0 /\ ~RespValid
      BY <1>7, <1>16, <2>2 DEF moved
    <3>2. QED
      BY <1>2, <1>11, <1>16, <3>1
  <2>3. QED
    BY <2>1, <2>2
<1>17. QED
  <2>1. Port!Passes(waiting[1])' <=> Port!Passes(waiting'[1])
    BY DEF Port!Passes
  <2>2. TransferOf(id_ex_pipe, 1)' = TransferOf(id_ex_pipe', 1)
    BY DEF TransferOf
  <2>3. TransferOf(waiting[1].access, 1)' = TransferOf(waiting'[1].access, 1)
    BY DEF TransferOf
  <2>4. QED
    BY <1>12, <1>13, <1>14, <1>15, <1>16, <2>1, <2>2, <2>3 DEF HalvesInv

-----------------------------------------------------------------------------

LEMMA CycleInvStep == ASSUME CycleInv, Step PROVE CycleInv'
<1>1. PathInv' /\ OrderInv'
  BY PathInvStep, OrderStep DEF CycleInv
<1>2. WbInv' /\ DebugInv' /\ EngagedInv' /\ HalvesInv'
  BY WbStepKeeps, DebugStepKeeps, EngagedStepKeeps, HalvesStepKeeps
<1>3. QED
  BY <1>1, <1>2 DEF CycleInv, PipeInv

LEMMA CycleInvStart == Init => CycleInv
<1> SUFFICES ASSUME Init PROVE CycleInv
  OBVIOUS
<1>1. PathInv /\ OrderInv
  BY PathInvStart, OrderStart
<1>2. WbInv /\ DebugInv /\ EngagedInv /\ HalvesInv
  BY DEF Init, WbInv, DebugInv, EngagedInv, HalvesInv
<1>3. QED
  BY <1>1, <1>2 DEF CycleInv, PipeInv

LEMMA CycleInvStutter == ASSUME CycleInv, UNCHANGED vars PROVE CycleInv'
<1>1. PathInv' /\ OrderInv'
  BY PathInvStutter, OrderStutter DEF CycleInv
<1>2. WbInv' /\ DebugInv' /\ EngagedInv' /\ HalvesInv'
  BY DEF CycleInv, PipeInv, WbInv, DebugInv, EngagedInv, HalvesInv, Blocked, Trans, TransferOf,
         Port!Passes, vars, lsuVars, pathVars, ctrlVars
<1>3. QED
  BY <1>1, <1>2 DEF CycleInv, PipeInv

(* The counters and queues of the path and the registers of the pipeline    *)
(* agree in every cycle (cv32e40x_load_store_unit.sv, _wb_stage.sv and      *)
(* _controller_fsm.sv): what is waited for belongs to WB and EX, and what   *)
(* EX has begun is neither halted nor killed.                               *)
THEOREM PipelineInvariant == Spec => []CycleInv
<1>1. CycleInv /\ [Next]_vars => CycleInv'
  BY CycleInvStep, CycleInvStutter DEF Next, Step
<1>2. QED
  BY <1>1, CycleInvStart, PTL DEF Spec

(* An answer has the status of the transfer it is for, and the second half  *)
(* of a split load is merged with the data of its own first half.           *)
THEOREM AnswersAreOwn == Spec => []AnswerIsOwn
<1>1. CycleInv => AnswerIsOwn
  <2> SUFFICES ASSUME CycleInv, RespValid
               PROVE  LET t == Head(waiting)
                      IN  /\ RespStatus = IF Port!Passes(t) THEN "ok" ELSE t.attr
                          /\ t.part = 2 /\ Port!Passes(t) /\ ~t.access.we =>
                               rdata_q = TransferOf(t.access, 1)
    BY DEF AnswerIsOwn
  <2>1. /\ Head(waiting) = waiting[1]
        /\ RespStatus = IF Port!Passes(waiting[1]) THEN "ok" ELSE waiting[1].attr
    BY StatusIsOwn DEF CycleInv
  <2>2. cnt_q > 0
    <3>1. PathInv /\ cnt_q \in 0 .. 2
      BY LsuAssumption DEF CycleInv, PathInv, TypeOK
    <3>2. cnt_q >= 1
      BY <3>1, AnsweredOnce
    <3>3. QED
      BY <3>1, <3>2
  <2>3. QED
    BY <2>1, <2>2 DEF CycleInv, PipeInv, HalvesInv
<1>2. QED
  BY <1>1, PipelineInvariant, PTL

(* No interrupt, NMI, debug entry, exception or fence kills an access that  *)
(* has a transfer under way.                                                *)
THEOREM NothingBegunIsKilled == Spec => []KillsNothingBegun
<1>1. CycleInv => KillsNothingBegun
  BY EngagedGoes, NoKillWaiting DEF KillsNothingBegun
<1>2. QED
  BY <1>1, PipelineInvariant, PTL

-----------------------------------------------------------------------------
(* A request is held.                                                       *)

(* An access that is offered is still in EX, and so is its transfer. *)
LEMMA StillOffered ==
  ASSUME CycleInv, Step, TransValid, ~CountUp
  PROVE  trans_valid_q' /\ id_ex_pipe' = id_ex_pipe /\ split_q' = split_q
<1>1. /\ cnt_q < 2 /\ Valid0 /\ (ExValid <=> cnt_q = 2 \/ CountUp)
      /\ (CtrlUpdate <=> ExValid /\ WbReady) /\ (ExReady <=> CtrlUpdate /\ ~Split0)
  BY Offered, EngagedGoes, Leaving DEF CycleInv
<1>2. cnt_q \in 0 .. 2
  BY Counts
<1>3. cnt_q # 2
  BY <1>1, <1>2
<1>4. ~CtrlUpdate /\ ~ExReady
  BY <1>1, <1>3
<1>5. /\ split_q' = (Valid0 /\ IF CtrlUpdate THEN Split0 ELSE split_q)
      /\ trans_valid_q' = (~CtrlUpdate /\ (TransValid \/ trans_valid_q))
  BY DEF Step, Registers, LsuStep
<1>6. id_ex_pipe' = id_ex_pipe
  BY <1>4 DEF Step, Registers, ExStep
<1>7. split_q \in BOOLEAN
  BY DEF CycleInv, PathInv, TypeOK
<1>8. QED
  BY <1>1, <1>4, <1>5, <1>6, <1>7

LEMMA HeldStep ==
  ASSUME CycleInv, Step, BusTransValid, ~in.gnt
  PROVE  (BusTransValid)' /\ BusTrans' = BusTrans
<1>1. wbuf' = IF Bufferable /\ (WbufFull <=> in.gnt) THEN Trans
              ELSE IF in.gnt THEN NoTransfer ELSE wbuf
  BY DEF Step, Registers, BufferStep
<1>2. CASE WbufFull
  <2>1. wbuf' = wbuf
    BY <1>1, <1>2
  <2>2. QED
    BY <1>2, <2>1 DEF BusTransValid, BusTrans, WbufFull
<1>3. CASE ~WbufFull /\ Bufferable
  <2>1. wbuf' = Trans
    BY <1>1, <1>3
  <2>2. Trans \in Transfers
    BY <1>3, Offered DEF Bufferable, BufferTransValid, FilterTransValid, MpuTransValid, CycleInv
  <2>3. NoTransfer \notin Transfers
    BY AttributesOf DEF NoTransfer, Attributes
  <2>4. QED
    BY <1>3, <2>1, <2>2, <2>3 DEF BusTransValid, BusTrans, WbufFull
<1>4. CASE ~WbufFull /\ ~Bufferable
  <2>1. BufferTransValid /\ ~BufferReady
    BY <1>4 DEF BusTransValid, BufferReady
  <2>2. /\ TransValid /\ wpt_state = "IDLE" /\ mpu_state = "IDLE"
        /\ ~WptHit /\ ~MpuHit /\ MpuTransValid /\ bus_cnt_q < 2
    BY <2>1, LsuAssumption DEF BufferTransValid, FilterTransValid, MpuTransValid
  <2>3. ~CountUp /\ ~FilterAccepts
    BY <2>1, <2>2 DEF CountUp, FilterAccepts
  <2>4. trans_valid_q' /\ id_ex_pipe' = id_ex_pipe /\ split_q' = split_q
    BY <2>2, <2>3, StillOffered
  <2>5. Trans' = Trans
    BY <2>4 DEF Trans
  <2>6. Trans.attr # "watch" /\ Trans.attr # "fault"
    BY <2>2 DEF WptHit, MpuHit
  <2>7. wpt_state' = "IDLE" /\ mpu_state' = "IDLE"
    BY <2>2 DEF Step, Registers, GateStep, GateNext
  <2>8. Valid0'
    <3>1. CycleInv'
      BY CycleInvStep
    <3>2. (CycleInv /\ (begun \/ trans_valid_q \/ TransValid) => Valid0)'
      BY EngagedGoes, PTL
    <3>3. QED
      BY <2>4, <3>1, <3>2
  <2>9. cnt_q' < 2 /\ bus_cnt_q' < 2
    <3>1. /\ cnt_q' = cnt_q + Bit(CountUp) - Bit(RespValid)
          /\ bus_cnt_q' = bus_cnt_q + Bit(FilterAccepts) - Bit(in.rvalid)
      BY CountersStep DEF CycleInv
    <3>2. cnt_q < 2 /\ cnt_q \in 0 .. 2 /\ bus_cnt_q \in 0 .. 2
      BY <2>2, Offered, LsuAssumption DEF CycleInv, PathInv, TypeOK
    <3>3. /\ Bit(CountUp) = 0 /\ Bit(FilterAccepts) = 0
          /\ Bit(RespValid) \in 0 .. 1 /\ Bit(in.rvalid) \in 0 .. 1
      BY <2>3 DEF Bit
    <3>4. QED
      BY <2>2, <3>1, <3>2, <3>3
  <2>10. TransValid'
    BY <2>8, <2>9, LsuAssumption DEF TransValid
  <2>11. BufferTransValid'
    BY <2>5, <2>6, <2>7, <2>9, <2>10, LsuAssumption
       DEF BufferTransValid, FilterTransValid, MpuTransValid, MpuHit, WptHit
  <2>12. ~WbufFull'
    BY <1>1, <1>4 DEF WbufFull
  <2>13. QED
    BY <1>4, <2>5, <2>11, <2>12 DEF BusTransValid, BusTrans
<1>5. QED
  BY <1>2, <1>3, <1>4

(* A request on the data bus is neither withdrawn nor changed before it is  *)
(* granted, whatever the controller decides meanwhile.                      *)
THEOREM RequestsAreHeld == Spec => RequestHeld
<1>1. CycleInv /\ [Next]_vars
        => [BusTransValid /\ ~in.gnt => (BusTransValid)' /\ BusTrans' = BusTrans]_vars
  BY HeldStep DEF Next, Step
<1>2. QED
  BY <1>1, PipelineInvariant, PTL DEF Spec, RequestHeld

=============================================================================
