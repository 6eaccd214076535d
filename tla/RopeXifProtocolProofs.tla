------------------------ MODULE RopeXifProtocolProofs -----------------------
(***************************************************************************)
(* Which result the coprocessor presents: the order, the identity and the  *)
(* operands of what it holds, for every number of ids, FIFO depth,         *)
(* pipeline depth and set of operands.                                     *)
(***************************************************************************)
EXTENDS RopeXifProtocol, RopeXifProofs, SequenceTheorems

-----------------------------------------------------------------------------
(* What a cycle is, without the core's bookkeeping.                         *)

(* The id that goes with an idle channel is an id. *)
LEMMA SomeIdType == SomeId \in Ids
BY CoprocAssumption DEF SomeId

(* What the core may offer is an issue request. *)
LEMMA RequestType ==
  ASSUME NEW held, NEW req \in CoreRequests(held)
  PROVE  req \in Requests
<1>1. SomeOp \in Operands /\ OfferedOps \subseteq Operands
  BY ProtocolAssumption DEF SomeOp, OfferedOps
<1>2. CASE req \in NoRotation(FALSE)
  BY <1>1, <1>2, SomeIdType DEF NoRotation, Requests
<1>3. CASE req \in NoRotation(TRUE)
  BY <1>1, <1>3, SomeIdType DEF NoRotation, Requests
<1>4. CASE req \in [valid : {TRUE}, rot : {TRUE}, rs_valid : BOOLEAN,
                    id : Ids \ held, op : OfferedOps]
  BY <1>1, <1>4 DEF Requests
<1>5. QED
  BY <1>2, <1>3, <1>4 DEF CoreRequests

(* What the core may decide is a commit. *)
LEMMA CommitType ==
  ASSUME NEW held, NEW req \in Requests, NEW com \in CoreCommits(req, held)
  PROVE  com \in Commits
<1>1. Undecided \subseteq Ids
  BY DEF Undecided, Requests
<1>2. CASE com \in [valid : {FALSE}, kill : {FALSE}, id : {SomeId}]
  BY <1>2, SomeIdType DEF Commits
<1>3. CASE com \in [valid : {TRUE}, kill : BOOLEAN, id : Undecided]
  BY <1>1, <1>3 DEF Commits
<1>4. CASE com \in [valid : {TRUE}, kill : {TRUE}, id : RejectedIds(req, held)]
  BY <1>4 DEF RejectedIds, Commits
<1>5. QED
  BY <1>2, <1>3, <1>4 DEF CoreCommits

(* Every step is a clock cycle of the coprocessor and of the core, for some *)
(* inputs that the core may drive. *)
LEMMA NextIsCycle ==
  ASSUME Next
  PROVE  \E req \in Requests, com \in Commits, rdy \in BOOLEAN :
           /\ req \in CoreRequests(HeldIds(rdy))
           /\ com \in CoreCommits(req, HeldIds(rdy))
           /\ Cycle(req, com, rdy)
<1>1. PICK rdy \in BOOLEAN : CycleWith(rdy)
  BY DEF Next
<1> DEFINE held == HeldIds(rdy)
<1> HIDE DEF held
<1>2. PICK req \in CoreRequests(held) :
        \E com \in CoreCommits(req, held) : Cycle(req, com, rdy)
  BY <1>1 DEF CycleWith, held
<1>3. PICK com \in CoreCommits(req, held) : Cycle(req, com, rdy)
  BY <1>2
<1>4. req \in Requests /\ com \in Commits
  BY RequestType, CommitType
<1>5. QED
  BY <1>3, <1>4 DEF held

-----------------------------------------------------------------------------
(* The registers keep their types, datapath and tag pipe stay aligned, and  *)
(* the credits count what is held: together these are inductive over every  *)
(* clock cycle of rope_xif_coproc.sv, whatever the core does.               *)
THEOREM InductiveInvariant == Spec => []IInv
<1>1. Init => IInv
  BY InitCredits DEF Init
<1>2. IInv /\ [Next]_vars => IInv'
  BY NextIsCycle, StepInv, StutterCredits DEF Cycle, vars
<1>3. QED
  BY <1>1, <1>2, PTL DEF Spec

(* The credit counter counts exactly what the coprocessor holds            *)
(* (rope_xif_coproc.sv, "They are SUMMED, not ORed").                      *)
THEOREM CreditsExact == Spec => []CreditExact
<1>1. IInv => CreditExact
  BY DEF IInv
<1>2. QED
  BY <1>1, InductiveInvariant, PTL

(* The result FIFO never overflows ("result FIFO overflow").               *)
THEOREM FifoNeverOverflows == Spec => []NoOverflow
<1>1. IInv => NoOverflow
  BY RoomToPush DEF NoOverflow
<1>2. QED
  BY <1>1, InductiveInvariant, PTL

(* Every result meets its tag ("tag pipe misaligned").                     *)
THEOREM TagsNeverSlip == Spec => []TagsAligned
<1>1. IInv => TagsAligned
  BY DEF IInv
<1>2. QED
  BY <1>1, InductiveInvariant, PTL

-----------------------------------------------------------------------------
(* What the places hold.                                                    *)

(* The instructions that check what the prefetch has followed so far: with  *)
(* neither the value check nor a core that repeats the rotation it offered, *)
(* a rotation may be computed from operands that are not its own.           *)
OwnOperands == UsePrefetch => UseValueCheck /\ SteadyRequests

Holding == [p \in Held |-> Content(p)]

(* `at' lists the set S of places in order; the places hold, according to   *)
(* c, what the instructions of q wait for.                                  *)
Lists(at, q, S, c) ==
  /\ at \in [1 .. Len(q) -> S]
  /\ Increasing(at)
  /\ \A p \in S : \E k \in 1 .. Len(q) : at[k] = p
  /\ \A k \in 1 .. Len(q) :
       /\ c[at[k]].id = q[k].id
       /\ OwnOperands => c[at[k]].data = Rotation(q[k].op)

(* The live places hold exactly what the core waits for, in its order.      *)
Followed == \E at : Lists(at, outstanding, Live, Holding)

(* An id names one instruction the coprocessor holds.                       *)
DistinctIds == \A p, q \in Held : Content(p).id = Content(q).id => p = q

(* The entries of the FIFO are entries.                                     *)
FifoFilled == \A n \in 0 .. FifoDepth - 1 : n < Occupancy => InFifo(n) # NoEntry

CaptureUnused == UsePrefetch => capture = NoEntry

OInv ==
  /\ IInv
  /\ outstanding \in Seq(Expected)
  /\ CaptureUnused
  /\ FifoFilled
  /\ DistinctIds
  /\ Followed
  /\ CommitsSeen
  /\ ThetaCurrent

-----------------------------------------------------------------------------
(* Lists of places.                                                         *)

(* The list without its j-th place lists the other places, for the          *)
(* instructions without the j-th one.                                       *)
LEMMA ListsWithout ==
  ASSUME NEW q, NEW r, NEW S \in SUBSET Nat, NEW c, NEW at, Lists(at, q, S, c),
         Len(q) \in Nat, NEW j \in 1 .. Len(q), Len(r) = Len(q) - 1,
         \A k \in 1 .. Len(q) - 1 : r[k] = q[IF k < j THEN k ELSE k + 1]
  PROVE  \E bt : Lists(bt, r, S \ {at[j]}, c)
<1> DEFINE n == Len(q)
           src(k) == IF k < j THEN k ELSE k + 1
           bt == [k \in 1 .. n - 1 |-> at[src(k)]]
           T == S \ {at[j]}
<1>1. /\ at \in [1 .. n -> S] /\ n \in Nat /\ j \in 1 .. n
      /\ \A k, l \in 1 .. n : k < l => at[k] < at[l]
  BY DEF Lists, Increasing
<1>2. ASSUME NEW k \in 1 .. n - 1
      PROVE  src(k) \in 1 .. n /\ src(k) # j
  BY <1>1
<1>3. \A k \in 1 .. n : k # j => at[k] # at[j]
  <2> SUFFICES ASSUME NEW k \in 1 .. n, k # j PROVE at[k] # at[j]
    OBVIOUS
  <2>1. at[k] \in Nat /\ at[j] \in Nat
    BY <1>1
  <2>2. k < j \/ j < k
    BY <1>1
  <2>3. QED
    BY <1>1, <2>1, <2>2
<1>4. bt \in [1 .. n - 1 -> T]
  <2> SUFFICES ASSUME NEW k \in 1 .. n - 1 PROVE at[src(k)] \in T
    OBVIOUS
  <2> QED
    BY <1>1, <1>2, <1>3
<1>5. Increasing(bt)
  <2> SUFFICES ASSUME NEW k \in 1 .. n - 1, NEW l \in 1 .. n - 1, k < l
               PROVE  at[src(k)] < at[src(l)]
    BY DEF Increasing
  <2>1. src(k) \in 1 .. n /\ src(l) \in 1 .. n /\ src(k) < src(l)
    BY <1>1
  <2> HIDE DEF src
  <2> QED
    BY <1>1, <2>1
<1>6. ASSUME NEW p \in T PROVE \E k \in 1 .. n - 1 : bt[k] = p
  <2>1. PICK m \in 1 .. n : at[m] = p
    BY DEF Lists
  <2>2. m # j
    BY <2>1
  <2> DEFINE k == IF m < j THEN m ELSE m - 1
  <2>3. k \in 1 .. n - 1 /\ src(k) = m
    BY <1>1, <2>2
  <2> HIDE DEF k, src
  <2> QED
    BY <2>1, <2>3
<1>7. ASSUME NEW k \in 1 .. n - 1
      PROVE  /\ c[bt[k]].id = r[k].id
             /\ OwnOperands => c[bt[k]].data = Rotation(r[k].op)
  <2>1. r[k] = q[src(k)] /\ bt[k] = at[src(k)] /\ src(k) \in 1 .. n
    BY <1>2
  <2> HIDE DEF src, bt
  <2> QED
    BY <2>1 DEF Lists
<1> HIDE DEF bt
<1>8. Lists(bt, r, T, c)
  BY <1>4, <1>5, <1>6, <1>7 DEF Lists
<1>9. QED
  BY <1>8

SameInstructions(q, r) ==
  /\ Len(r) = Len(q)
  /\ \A k \in 1 .. Len(q) : r[k].id = q[k].id /\ r[k].op = q[k].op

\* mv takes the places of S, in order, to those of T, which hold the same in d.
Carries(mv, S, T, c, d) ==
  /\ mv \in [S -> Nat]
  /\ T = {mv[p] : p \in S}
  /\ \A p, s \in S : p < s => mv[p] < mv[s]
  /\ \A p \in S : d[mv[p]] = c[p]

(* Places that move on keep their list, provided that they keep their order *)
(* and what they hold.                                                      *)
LEMMA ListsMoved ==
  ASSUME NEW q, NEW r, NEW S \in SUBSET Nat, NEW T, NEW c, NEW d,
         NEW at, NEW mv,
         Lists(at, q, S, c), Len(q) \in Nat, SameInstructions(q, r),
         Carries(mv, S, T, c, d)
  PROVE  \E bt : Lists(bt, r, T, d)
<1> DEFINE n == Len(q)
           bt == [k \in 1 .. n |-> mv[at[k]]]
<1>1. /\ at \in [1 .. n -> S]
      /\ \A k, l \in 1 .. n : k < l => at[k] < at[l]
      /\ \A p \in S : \E k \in 1 .. n : at[k] = p
      /\ mv \in [S -> Nat] /\ T = {mv[p] : p \in S}
      /\ \A p, s \in S : p < s => mv[p] < mv[s]
      /\ \A p \in S : d[mv[p]] = c[p]
      /\ Len(r) = n
      /\ \A k \in 1 .. n : r[k].id = q[k].id /\ r[k].op = q[k].op
  BY DEF Lists, Increasing, Carries, SameInstructions
<1>2. bt \in [1 .. n -> T]
  BY <1>1
<1>3. Increasing(bt)
  BY <1>1 DEF Increasing
<1>4. \A p \in T : \E k \in 1 .. n : bt[k] = p
  BY <1>1
<1>5. ASSUME NEW k \in 1 .. n
      PROVE  /\ d[bt[k]].id = r[k].id
             /\ OwnOperands => d[bt[k]].data = Rotation(r[k].op)
  <2>1. d[bt[k]] = c[at[k]]
    BY <1>1
  <2>2. c[at[k]].id = q[k].id /\ (OwnOperands => c[at[k]].data = Rotation(q[k].op))
    BY DEF Lists
  <2>3. r[k].id = q[k].id /\ r[k].op = q[k].op
    BY <1>1
  <2> HIDE DEF bt, n
  <2> QED
    BY <2>1, <2>2, <2>3
<1> HIDE DEF bt
<1>6. Lists(bt, r, T, d)
  BY <1>1, <1>2, <1>3, <1>4, <1>5 DEF Lists
<1>7. QED
  BY <1>6

(* A place behind all others goes with one more instruction.                *)
LEMMA ListsAppended ==
  ASSUME NEW q, NEW S \in SUBSET Nat, NEW c, NEW at, Lists(at, q, S, c),
         NEW U, q \in Seq(U), NEW e \in U, NEW new \in Nat,
         \A p \in S : p < new,
         c[new].id = e.id, OwnOperands => c[new].data = Rotation(e.op)
  PROVE  \E bt : Lists(bt, Append(q, e), S \cup {new}, c)
<1> DEFINE n == Len(q)
           r == Append(q, e)
           T == S \cup {new}
           bt == [k \in 1 .. n + 1 |-> IF k = n + 1 THEN new ELSE at[k]]
<1>1. /\ at \in [1 .. n -> S] /\ n \in Nat
      /\ \A k, l \in 1 .. n : k < l => at[k] < at[l]
      /\ \A p \in S : \E k \in 1 .. n : at[k] = p
  BY DEF Lists, Increasing
<1>2. /\ Len(r) = n + 1 /\ r[n + 1] = e
      /\ \A k \in 1 .. n : r[k] = q[k]
  BY AppendProperties
<1>3. bt \in [1 .. n + 1 -> T]
  BY <1>1
<1>4. Increasing(bt)
  <2> SUFFICES ASSUME NEW k \in 1 .. n + 1, NEW l \in 1 .. n + 1, k < l
               PROVE  bt[k] < bt[l]
    BY DEF Increasing
  <2>1. k \in 1 .. n /\ bt[k] = at[k]
    BY <1>1
  <2>2. CASE l = n + 1
    BY <1>1, <2>1, <2>2
  <2>3. CASE l # n + 1
    BY <1>1, <2>1, <2>3
  <2> QED
    BY <2>2, <2>3
<1>5. \A p \in T : \E k \in 1 .. n + 1 : bt[k] = p
  <2>1. bt[n + 1] = new /\ n + 1 \in 1 .. n + 1
    BY <1>1
  <2>2. \A k \in 1 .. n : bt[k] = at[k] /\ k \in 1 .. n + 1
    BY <1>1
  <2> QED
    BY <1>1, <2>1, <2>2
<1>6. ASSUME NEW k \in 1 .. n + 1
      PROVE  /\ c[bt[k]].id = r[k].id
             /\ OwnOperands => c[bt[k]].data = Rotation(r[k].op)
  <2>1. CASE k = n + 1
    BY <1>2, <2>1
  <2>2. CASE k # n + 1
    <3>1. k \in 1 .. n
      BY <1>1, <2>2
    <3>2. bt[k] = at[k] /\ r[k] = q[k]
      BY <1>2, <2>2, <3>1
    <3>3. QED
      BY <3>1, <3>2 DEF Lists
  <2> QED
    BY <2>1, <2>2
<1> HIDE DEF bt, r, T
<1>7. Lists(bt, r, T, c)
  BY <1>2, <1>3, <1>4, <1>5, <1>6 DEF Lists
<1>8. QED
  BY <1>7 DEF r, T

-----------------------------------------------------------------------------
(* What moves, and what stays.                                              *)

(* The places that keep what they hold for another cycle, where it is then, *)
(* and where an accepted instruction goes.                                  *)
Staying(com, rdy) ==
  {p \in Held : /\ p = 0 => ~FifoPop(rdy)
                /\ p = FifoDepth => ~RetireKilled(com)}

Moved(p, rdy) ==
  IF p < FifoDepth THEN p - One(FifoPop(rdy))
  ELSE IF p = FifoDepth THEN Occupancy - One(FifoPop(rdy))
  ELSE p - 1

NewPlace == IF UsePrefetch THEN CapturePlace - 1 ELSE CapturePlace

NewContent(req) ==
  [id   |-> req.id,
   data |-> IF UsePrefetch THEN DpData(req) ELSE Rotation(req.op)]

(* What stays keeps its order, before what is accepted.                     *)
LEMMA MovedInOrder ==
  ASSUME IInv, CaptureUnused, NEW com \in Commits, NEW rdy \in BOOLEAN,
         Occupancy \in 0 .. FifoDepth,
         ResultPresent => Occupancy < FifoDepth,
         FifoPop(rdy) => Occupancy >= 1
  PROVE  /\ \A p \in Staying(com, rdy) : Moved(p, rdy) \in 0 .. NewPlace - 1
         /\ \A p, s \in Staying(com, rdy) :
              p < s => Moved(p, rdy) < Moved(s, rdy)
         /\ \A p \in Staying(com, rdy) : p = FifoDepth => FifoPush(com)
<1> DEFINE pop == FifoPop(rdy)  occ == Occupancy
<1>1. Latency \in Stages /\ StagePlace(FifoDepth) = Latency
      /\ FifoDepth \in FifoDepth .. CapturePlace - 1
  BY StagesFinite, PlaceBounds DEF Stages, StagePlace, CapturePlace
<1>2. FifoDepth \in Held => ResultPresent
  <2>1. FifoDepth \in 0 .. CapturePlace /\ ~(FifoDepth < FifoDepth)
        /\ FifoDepth < CapturePlace
    BY PlaceBounds
  <2>2. FifoDepth \in Held => tag_pipe[StagePlace(FifoDepth)] # NoEntry
    BY <2>1, HeldPlaces DEF PlaceByPlace
  <2>3. FifoDepth \in Held => CurTag # NoEntry
    BY <1>1, <2>2 DEF CurTag
  <2>4. QED
    BY <2>3, PushOrRetire
<1>3. ASSUME NEW p \in Staying(com, rdy)
      PROVE  /\ p \in 0 .. CapturePlace
             /\ p < FifoDepth => p < occ
             /\ p = CapturePlace => ~UsePrefetch
             /\ p = 0 => ~pop
             /\ p = FifoDepth => FifoPush(com) /\ occ < FifoDepth
  <2>1. p \in Held /\ p \in 0 .. CapturePlace
    BY HeldPlaces DEF PlaceByPlace, Staying
  <2>2. p < FifoDepth => p < occ
    BY <2>1, HeldPlaces DEF PlaceByPlace
  <2>3. p = CapturePlace => capture # NoEntry
    BY <2>1, HeldPlaces, PlaceBounds DEF PlaceByPlace
  <2>4. p = FifoDepth => ResultPresent /\ ~RetireKilled(com)
    BY <1>2, <2>1 DEF Staying
  <2>5. QED
    BY <2>1, <2>2, <2>3, <2>4 DEF CaptureUnused, Staying, FifoPush, RetireKilled
<1>4. One(pop) \in {0, 1} /\ (One(pop) = 1 <=> pop)
  BY DEF One
<1>5. ASSUME NEW p \in Staying(com, rdy)
      PROVE  Moved(p, rdy) \in 0 .. NewPlace - 1
  BY <1>3, <1>4, PlaceBounds DEF Moved, NewPlace
<1>6. ASSUME NEW p \in Staying(com, rdy), NEW s \in Staying(com, rdy), p < s
      PROVE  Moved(p, rdy) < Moved(s, rdy)
  <2>1. /\ p \in 0 .. CapturePlace /\ s \in 0 .. CapturePlace
        /\ p < FifoDepth => p < occ
        /\ s = FifoDepth => occ < FifoDepth
        /\ p = FifoDepth => occ < FifoDepth
    BY <1>3
  <2> DEFINE d == One(pop)
  <2>2. d \in {0, 1} /\ p \in Int /\ s \in Int /\ FifoDepth \in Nat /\ occ \in Int
        /\ occ <= FifoDepth
    BY <1>4, <2>1, PlaceBounds
  <2>3. /\ Moved(p, rdy) = IF p < FifoDepth THEN p - d
                           ELSE IF p = FifoDepth THEN occ - d ELSE p - 1
        /\ Moved(s, rdy) = IF s < FifoDepth THEN s - d
                           ELSE IF s = FifoDepth THEN occ - d ELSE s - 1
    BY DEF Moved
  <2> HIDE DEF d, occ
  <2>4. CASE s < FifoDepth
    BY <1>6, <2>2, <2>3, <2>4
  <2>5. CASE s = FifoDepth
    BY <1>6, <2>1, <2>2, <2>3, <2>5
  <2>6. CASE s > FifoDepth
    BY <1>6, <2>1, <2>2, <2>3, <2>6
  <2>7. QED
    BY <2>2, <2>4, <2>5, <2>6
<1>7. QED
  BY <1>3, <1>5, <1>6

(* What stays keeps what it holds.                                          *)
LEMMA MovedContent ==
  ASSUME IInv, IInv', CaptureUnused, NEW req \in Requests, NEW com \in Commits,
         NEW rdy \in BOOLEAN, CoprocStep(req, com, rdy)
  PROVE  \A p \in Staying(com, rdy), m \in 0 .. NewPlace :
           m = Moved(p, rdy) => m \in Held' /\ Content(m)' = Content(p)
<1> SUFFICES ASSUME NEW p \in Staying(com, rdy), NEW m \in 0 .. NewPlace,
                    m = Moved(p, rdy)
             PROVE  m \in Held' /\ Content(m)' = Content(p)
  OBVIOUS
<1> DEFINE d == One(FifoPop(rdy))  occ == Occupancy
<1>1. /\ Held' \subseteq 0 .. CapturePlace
      /\ \A s \in 0 .. CapturePlace :
           s \in Held' <=>
             IF s < FifoDepth THEN s < Occupancy'
             ELSE IF s < CapturePlace THEN tag_pipe'[StagePlace(s)] # NoEntry
             ELSE capture' # NoEntry
  BY HeldPlacesNext DEF PlaceByPlace
<1>2. p \in Held /\ p \in 0 .. CapturePlace /\ m \in 0 .. CapturePlace
  BY HeldPlaces, PlaceBounds DEF PlaceByPlace, Staying, NewPlace
<1>3. d \in {0, 1} /\ (d = 1 <=> FifoPop(rdy)) /\ occ \in 0 .. FifoDepth
      /\ occ' = occ + One(FifoPush(com)) - d
  BY FifoEntries DEF One
<1>4. CASE p < FifoDepth
  <2>1. p < occ /\ m = p - d /\ p \in 0 .. FifoDepth - 1
    BY <1>2, <1>4, HeldPlaces, PlaceBounds DEF PlaceByPlace, Moved
  <2>2. m \in 0 .. FifoDepth - 1 /\ m < occ'
    BY <1>2, <1>3, <1>4, <2>1, PlaceBounds DEF One
  <2>3. InFifo(m)' = InFifo(p)
    BY <2>1, <2>2, FifoEntries
  <2>4. Content(m)' = InFifo(m)' /\ Content(p) = InFifo(p)
    BY <1>4, <2>2, PlaceBounds DEF Content
  <2>5. m \in Held'
    BY <1>1, <1>2, <2>2, PlaceBounds
  <2> QED
    BY <2>3, <2>4, <2>5
<1>5. CASE p = FifoDepth
  <2>1. FifoPush(com) /\ m = occ - d /\ occ < FifoDepth
    BY <1>5, FifoEntries, MovedInOrder, PlaceBounds DEF Moved, FifoPush
  <2>2. m \in 0 .. FifoDepth - 1 /\ m < occ'
    <3>1. d = 1 => occ >= 1
      BY <1>3, FifoEntries
    <3> QED
      BY <1>2, <1>3, <2>1, <3>1, PlaceBounds DEF One
  <2>3. InFifo(m)' = [id |-> CurTag, data |-> ResData]
    BY <2>1, <2>2, FifoEntries
  <2>4. StagePlace(p) = Latency /\ p < CapturePlace /\ ~(p < FifoDepth)
    BY <1>5, PlaceBounds, StagesFinite DEF StagePlace, CapturePlace
  <2>5. Content(p) = [id |-> CurTag, data |-> ResData]
    BY <2>4 DEF Content, InStage, CurTag, ResData
  <2>6. Content(m)' = InFifo(m)'
    BY <2>2, PlaceBounds DEF Content
  <2>7. m \in Held'
    BY <1>1, <1>2, <2>2, PlaceBounds
  <2> QED
    BY <2>3, <2>5, <2>6, <2>7
<1>6. CASE p > FifoDepth /\ p < CapturePlace
  <2> DEFINE k == StagePlace(p)
  <2>1. m = p - 1 /\ m \in FifoDepth .. CapturePlace - 1
    BY <1>2, <1>6, PlaceBounds DEF Moved
  <2>2. k \in Stages /\ k + 1 \in Stages /\ k + 1 # 1 /\ (k + 1) - 1 = k
        /\ StagePlace(m) = k + 1
    BY <1>2, <1>6, <2>1, PlaceBounds, StagesFinite
       DEF StagePlace, Stages, CapturePlace
  <2> DEFINE l == k + 1
  <2>3. tag_pipe'[l] = tag_pipe[k] /\ datapath'[l] = datapath[k]
    <3>1. l \in Stages /\ l # 1 /\ l - 1 = k
      BY <2>2
    <3> HIDE DEF l, k
    <3> QED
      BY <3>1, PipeStages
  <2>4. tag_pipe[k] # NoEntry
    BY <1>2, <1>6, HeldPlaces, PlaceBounds DEF PlaceByPlace
  <2>5. Content(p) = [id |-> tag_pipe[k], data |-> datapath[k]]
    BY <1>2, <1>6, PlaceBounds DEF Content, InStage
  <2>6. Content(m)' = [id |-> tag_pipe'[l], data |-> datapath'[l]]
    BY <2>1, <2>2, PlaceBounds DEF Content, InStage
  <2>7. m \in Held'
    BY <1>1, <1>2, <2>1, <2>2, <2>3, <2>4, PlaceBounds
  <2> QED
    BY <2>3, <2>5, <2>6, <2>7
<1>7. CASE p = CapturePlace
  <2>1. capture # NoEntry /\ ~UsePrefetch
    BY <1>2, <1>7, HeldPlaces, PlaceBounds DEF PlaceByPlace, CaptureUnused
  <2>2. m = p - 1 /\ m \in FifoDepth .. CapturePlace - 1 /\ StagePlace(m) = 1
        /\ 1 \in Stages
    BY <1>2, <1>7, PlaceBounds, StagesFinite DEF Moved, StagePlace, Stages
  <2>3. DpValid(req) /\ DpId(req) = capture.id
        /\ DpData(req) = Rotation(capture.op)
    BY <2>1 DEF DpValid, DpId, DpData
  <2>4. tag_pipe'[1] = capture.id /\ datapath'[1] = Rotation(capture.op)
    BY <2>2, <2>3, PipeStages
  <2>5. tag_pipe'[1] # NoEntry
    BY <2>3, <2>4, DatapathInput DEF IInv
  <2>6. Content(p) = [id |-> capture.id, data |-> Rotation(capture.op)]
    BY <1>7, PlaceBounds DEF Content, InCapture
  <2>7. Content(m)' = [id |-> tag_pipe'[1], data |-> datapath'[1]]
    BY <2>2, PlaceBounds DEF Content, InStage
  <2>8. m \in Held'
    BY <1>1, <1>2, <2>2, <2>5, PlaceBounds
  <2> QED
    BY <2>4, <2>6, <2>7, <2>8
<1>8. QED
  BY <1>2, <1>4, <1>5, <1>6, <1>7, PlaceBounds

(* An accepted instruction takes the first place of the coprocessor.        *)
LEMMA AcceptedContent ==
  ASSUME IInv, IInv', NEW req \in Requests, NEW com \in Commits,
         NEW rdy \in BOOLEAN, CoprocStep(req, com, rdy), Accept(req)
  PROVE  NewPlace \in Held' /\ Content(NewPlace)' = NewContent(req)
<1>1. /\ Held' \subseteq 0 .. CapturePlace
      /\ \A s \in 0 .. CapturePlace :
           s \in Held' <=>
             IF s < FifoDepth THEN s < Occupancy'
             ELSE IF s < CapturePlace THEN tag_pipe'[StagePlace(s)] # NoEntry
             ELSE capture' # NoEntry
  BY HeldPlacesNext DEF PlaceByPlace
<1>2. CASE UsePrefetch
  <2> DEFINE m == CapturePlace - 1
  <2>1. m \in FifoDepth .. CapturePlace - 1 /\ StagePlace(m) = 1 /\ 1 \in Stages
        /\ NewPlace = m
    BY <1>2, PlaceBounds, StagesFinite DEF NewPlace, StagePlace, Stages
  <2>2. DpValid(req) /\ DpId(req) = req.id
    BY <1>2 DEF DpValid, DpId
  <2>3. tag_pipe'[1] = req.id /\ datapath'[1] = DpData(req)
    BY <2>1, <2>2, PipeStages
  <2>4. tag_pipe'[1] # NoEntry
    BY <2>2, <2>3, DatapathInput DEF IInv
  <2>5. Content(m)' = [id |-> tag_pipe'[1], data |-> datapath'[1]]
    BY <2>1, PlaceBounds DEF Content, InStage
  <2>6. m \in Held'
    BY <1>1, <2>1, <2>4, PlaceBounds
  <2> HIDE DEF m
  <2> QED
    BY <1>2, <2>1, <2>3, <2>5, <2>6 DEF NewContent
<1>3. CASE ~UsePrefetch
  <2>1. capture' = Captured(req) /\ Captured(req) # NoEntry
        /\ NewPlace = CapturePlace
    BY <1>3, CoprocAssumption
       DEF CoprocStep, CaptureStep, Captured, NewPlace, Requests
  <2>2. Content(CapturePlace)' = [id |-> req.id, data |-> Rotation(req.op)]
    BY <2>1, PlaceBounds DEF Content, InCapture, Captured, Rotation
  <2>3. CapturePlace \in Held'
    BY <1>1, <2>1, PlaceBounds
  <2> QED
    BY <1>3, <2>1, <2>2, <2>3 DEF NewContent
<1>4. QED
  BY <1>2, <1>3

(* Nothing else is held: what is held was held, or was accepted.            *)
LEMMA HeldFrom ==
  ASSUME IInv, IInv', CaptureUnused, CaptureUnused', NEW req \in Requests,
         NEW com \in Commits, NEW rdy \in BOOLEAN, CoprocStep(req, com, rdy),
         NEW m \in Held'
  PROVE  \/ Accept(req) /\ m = NewPlace
         \/ \E p \in Staying(com, rdy) : m = Moved(p, rdy)
<1> DEFINE d == One(FifoPop(rdy))  occ == Occupancy
<1>1. /\ m \in 0 .. CapturePlace
      /\ IF m < FifoDepth THEN m < Occupancy'
         ELSE IF m < CapturePlace THEN tag_pipe'[StagePlace(m)] # NoEntry
         ELSE capture' # NoEntry
  <2>1. /\ Held' \subseteq 0 .. CapturePlace
        /\ \A s \in 0 .. CapturePlace :
             s \in Held' <=>
               IF s < FifoDepth THEN s < Occupancy'
               ELSE IF s < CapturePlace THEN tag_pipe'[StagePlace(s)] # NoEntry
               ELSE capture' # NoEntry
    BY HeldPlacesNext DEF PlaceByPlace
  <2> QED
    BY <2>1
<1>2. d \in {0, 1} /\ (d = 1 <=> FifoPop(rdy)) /\ occ \in 0 .. FifoDepth
      /\ occ' = occ + One(FifoPush(com)) - d
      /\ (d = 1 => occ >= 1)
  BY FifoEntries DEF One
<1>3. CASE m < FifoDepth /\ m < occ - d
  <2> DEFINE p == m + d
  <2>1. p \in 0 .. FifoDepth - 1 /\ p < occ /\ (FifoPop(rdy) => p # 0)
        /\ p - d = m
    BY <1>1, <1>2, <1>3, PlaceBounds
  <2> HIDE DEF p
  <2>2. p \in Held
    BY <2>1, HeldPlaces, PlaceBounds DEF PlaceByPlace
  <2>3. p \in Staying(com, rdy) /\ Moved(p, rdy) = m
    BY <2>1, <2>2, PlaceBounds DEF Staying, Moved
  <2> QED
    BY <2>3
<1>4. CASE m < FifoDepth /\ ~(m < occ - d)
  <2>1. FifoPush(com) /\ m = occ - d
    <3>1. m < occ'
      BY <1>1, <1>4
    <3> QED
      BY <1>1, <1>2, <1>4, <3>1 DEF One
  <2>2. StagePlace(FifoDepth) = Latency /\ FifoDepth < CapturePlace
        /\ FifoDepth \in 0 .. CapturePlace
    BY PlaceBounds, StagesFinite DEF StagePlace, CapturePlace
  <2>3. FifoDepth \in Held
    BY <2>1, <2>2, HeldPlaces, PlaceBounds DEF PlaceByPlace, FifoPush, ResultPresent, CurTag
  <2>4. FifoDepth \in Staying(com, rdy) /\ Moved(FifoDepth, rdy) = m
    BY <2>1, <2>3, PlaceBounds DEF Staying, Moved, FifoPush, RetireKilled
  <2> QED
    BY <2>4
<1>5. CASE m >= FifoDepth /\ m < CapturePlace /\ StagePlace(m) # 1
  <2> DEFINE p == m + 1
             k == StagePlace(m)
             l == StagePlace(p)
  <2>1. m \in FifoDepth .. CapturePlace - 1 /\ k \in Stages
    BY <1>1, <1>5, PlaceBounds
  <2>2. p \in FifoDepth + 1 .. CapturePlace - 1 /\ l = k - 1 /\ p - 1 = m
    BY <1>5, <2>1, PlaceBounds, StagesFinite
       DEF StagePlace, Stages, CapturePlace
  <2>3. tag_pipe[l] # NoEntry
    <3>1. tag_pipe'[k] # NoEntry
      BY <1>1, <1>5, PlaceBounds
    <3>2. tag_pipe'[k] = tag_pipe[k - 1]
      BY <1>5, <2>1, PipeStages
    <3> QED
      BY <2>2, <3>1, <3>2
  <2> HIDE DEF p
  <2>4. p \in Held
    BY <2>2, <2>3, HeldPlaces, PlaceBounds DEF PlaceByPlace
  <2>5. p \in Staying(com, rdy) /\ Moved(p, rdy) = m
    BY <2>2, <2>4, PlaceBounds DEF Staying, Moved
  <2> QED
    BY <2>5
<1>6. CASE m >= FifoDepth /\ m < CapturePlace /\ StagePlace(m) = 1
  <2>1. m = CapturePlace - 1 /\ 1 \in Stages
    BY <1>1, <1>6, PlaceBounds, StagesFinite DEF StagePlace, Stages
  <2>2. DpValid(req)
    <3>1. tag_pipe'[1] # NoEntry
      BY <1>1, <1>6, PlaceBounds
    <3> QED
      BY <2>1, <3>1, PipeStages
  <2>3. CASE UsePrefetch
    BY <2>1, <2>2, <2>3 DEF DpValid, NewPlace
  <2>4. CASE ~UsePrefetch
    <3>1. capture # NoEntry
      BY <2>2, <2>4 DEF DpValid
    <3>2. CapturePlace \in Held
      BY <3>1, HeldPlaces, PlaceBounds DEF PlaceByPlace
    <3>3. CapturePlace \in Staying(com, rdy) /\ Moved(CapturePlace, rdy) = m
      BY <2>1, <3>2, PlaceBounds DEF Staying, Moved
    <3> QED
      BY <3>3
  <2> QED
    BY <2>3, <2>4
<1>7. CASE m = CapturePlace
  <2>1. capture' # NoEntry
    BY <1>1, <1>7, PlaceBounds
  <2>2. ~UsePrefetch /\ Accept(req)
    BY <2>1 DEF CaptureUnused, CoprocStep, CaptureStep
  <2> QED
    BY <1>7, <2>2 DEF NewPlace
<1>8. QED
  BY <1>1, <1>3, <1>4, <1>5, <1>6, <1>7, PlaceBounds

-----------------------------------------------------------------------------
(* The parts of the invariant that do not speak of the core's expectations. *)

(* What is held is a result in the making.                                  *)
LEMMA ContentType ==
  ASSUME IInv, FifoFilled, NEW p \in Held
  PROVE  Content(p) \in Results
<1>1. p \in 0 .. CapturePlace
  BY HeldPlaces DEF PlaceByPlace
<1>2. CASE p < FifoDepth
  <2>1. p \in 0 .. FifoDepth - 1 /\ p < Occupancy
    BY <1>1, <1>2, HeldPlaces, PlaceBounds DEF PlaceByPlace
  <2>2. InFifo(p) # NoEntry
    BY <2>1 DEF FifoFilled
  <2>3. Slot(PtrAfter(p)) \in Slots
    BY <2>1, PointerSteps, PlaceBounds
  <2>4. InFifo(p) \in Results
    BY <2>2, <2>3 DEF InFifo, IInv, CoprocTypeOK
  <2> QED
    BY <1>2, <2>4 DEF Content
<1>3. CASE p >= FifoDepth /\ p < CapturePlace
  <2>1. StagePlace(p) \in Stages /\ tag_pipe[StagePlace(p)] # NoEntry
    BY <1>1, <1>3, HeldPlaces, PlaceBounds DEF PlaceByPlace
  <2>2. tag_pipe[StagePlace(p)] \in Ids /\ datapath[StagePlace(p)] \in Data
    BY <2>1 DEF IInv, CoprocTypeOK, TagsAligned
  <2> QED
    BY <1>1, <1>3, <2>2, PlaceBounds DEF Content, InStage, Results
<1>4. CASE p = CapturePlace
  <2>1. capture \in [id : Ids, op : Operands]
    BY <1>1, <1>4, HeldPlaces, PlaceBounds
       DEF PlaceByPlace, IInv, CoprocTypeOK
  <2>2. Rotation(capture.op) \in Data /\ capture.id \in Ids
    <3>1. capture.op.x \in Words /\ capture.op.m \in Positions
          /\ capture.op.i \in Pairs /\ capture.id \in Ids
      BY <2>1 DEF Operands
    <3> QED
      BY <3>1 DEF Rotation, Data
  <2> QED
    BY <1>4, <2>2, PlaceBounds DEF Content, InCapture, Results
<1>5. QED
  BY <1>1, <1>2, <1>3, <1>4, PlaceBounds

(* A rotation that is accepted is one that was offered: its id is new.      *)
LEMMA AcceptedRequest ==
  ASSUME NEW held, NEW req \in CoreRequests(held), Accept(req)
  PROVE  req.rot /\ req.id \notin held /\ req.op \in OfferedOps
<1>1. req.valid /\ req.rot
  BY DEF Accept, RotIssued
<1>2. CASE req \in NoRotation(FALSE) \cup NoRotation(TRUE)
  BY <1>1, <1>2 DEF NoRotation
<1>3. CASE req \in [valid : {TRUE}, rot : {TRUE}, rs_valid : BOOLEAN,
                    id : Ids \ held, op : OfferedOps]
  BY <1>1, <1>3
<1>4. QED
  BY <1>2, <1>3 DEF CoreRequests

(* What stays does not have the id of what is accepted.                     *)
LEMMA StayingIds ==
  ASSUME NEW com, NEW rdy, NEW p \in Staying(com, rdy)
  PROVE  Content(p).id \in HeldIds(rdy)
<1>1. p \in Held /\ (p = 0 => ~FifoPop(rdy))
  BY DEF Staying
<1>2. p = 0 => ~ResultTaken(rdy)
  BY <1>1 DEF FifoPop
<1>3. QED
  BY <1>1, <1>2 DEF HeldIds

(* The coprocessor keeps every id unique and its FIFO filled.               *)
LEMMA PlacesStep ==
  ASSUME IInv, IInv', CaptureUnused, FifoFilled, DistinctIds,
         NEW req \in Requests, NEW com \in Commits, NEW rdy \in BOOLEAN,
         req \in CoreRequests(HeldIds(rdy)), CoprocStep(req, com, rdy)
  PROVE  CaptureUnused' /\ FifoFilled' /\ DistinctIds'
<1>1. CaptureUnused'
  BY DEF CaptureUnused, CoprocStep, CaptureStep
<1>2. \A p \in Staying(com, rdy) : Moved(p, rdy) \in 0 .. NewPlace
  <2>1. /\ Occupancy \in 0 .. FifoDepth
        /\ ResultPresent => Occupancy < FifoDepth
        /\ FifoPop(rdy) => Occupancy >= 1
    BY FifoEntries
  <2>2. \A p \in Staying(com, rdy) : Moved(p, rdy) \in 0 .. NewPlace - 1
    BY <2>1, MovedInOrder
  <2>3. NewPlace \in Nat
    BY PlaceBounds DEF NewPlace
  <2> QED
    BY <2>2, <2>3
<1>3. ASSUME NEW m \in Held'
      PROVE  \/ /\ Accept(req) /\ m = NewPlace
                /\ Content(m)' = NewContent(req)
             \/ \E p \in Staying(com, rdy) :
                  m = Moved(p, rdy) /\ Content(m)' = Content(p)
  <2>1. CASE Accept(req) /\ m = NewPlace
    BY <2>1, AcceptedContent
  <2>2. ASSUME NEW p \in Staying(com, rdy), m = Moved(p, rdy)
        PROVE  Content(m)' = Content(p)
    BY <1>2, <2>2, MovedContent
  <2>3. QED
    BY <1>1, <2>1, <2>2, HeldFrom
<1>4. FifoFilled'
  <2> SUFFICES ASSUME NEW n \in 0 .. FifoDepth - 1, n < Occupancy'
               PROVE  InFifo(n)' # NoEntry
    BY DEF FifoFilled
  <2>1. n \in Held' /\ Content(n)' = InFifo(n)' /\ n # NewPlace
    BY HeldPlacesNext, PlaceBounds DEF PlaceByPlace, Content, NewPlace
  <2>2. PICK p \in Staying(com, rdy) : Content(n)' = Content(p)
    BY <1>3, <2>1
  <2>3. Content(p) # NoEntry
    BY ContentType, CoprocAssumption DEF Staying
  <2> QED
    BY <2>1, <2>2, <2>3
<1>5. DistinctIds'
  <2> SUFFICES ASSUME NEW m \in Held', NEW n \in Held',
                      Content(m)'.id = Content(n)'.id
               PROVE  m = n
    BY DEF DistinctIds
  <2>1. Accept(req) => \A p \in Staying(com, rdy) : Content(p).id # req.id
    BY AcceptedRequest, StayingIds
  <2>2. NewContent(req).id = req.id
    BY DEF NewContent
  <2>3. \A p, s \in Staying(com, rdy) : Content(p).id = Content(s).id => p = s
    BY DEF DistinctIds, Staying
  <2>4. CASE Accept(req) /\ m = NewPlace /\ Content(m)' = NewContent(req)
    BY <1>3, <2>1, <2>2, <2>4
  <2>5. CASE Accept(req) /\ n = NewPlace /\ Content(n)' = NewContent(req)
    BY <1>3, <2>1, <2>2, <2>5
  <2>6. ASSUME NEW p \in Staying(com, rdy), NEW s \in Staying(com, rdy),
               m = Moved(p, rdy), Content(m)' = Content(p),
               n = Moved(s, rdy), Content(n)' = Content(s)
        PROVE  m = n
    BY <2>3, <2>6
  <2>7. QED
    BY <1>3, <2>4, <2>5, <2>6
<1>6. QED
  BY <1>1, <1>4, <1>5

(* Once the prefetch is trusted its word is the one of its pair.            *)
LEMMA ThetaStep ==
  ASSUME ThetaCurrent, NEW req, NEW com, NEW rdy, CoprocStep(req, com, rdy),
         IInv, KillSeen(com) \in BOOLEAN
  PROVE  ThetaCurrent'
<1>1. CASE ~UsePrefetch
  BY <1>1 DEF ThetaCurrent
<1>2. CASE UsePrefetch
  <2>1. PrefetchStep(RotIssued(req), req.op, Accept(req), KillSeen(com))
    BY <1>2 DEF CoprocStep
  <2>2. desync_q \in BOOLEAN /\ recover_q \in BOOLEAN
    BY DEF IInv, CoprocTypeOK, PrefetchTypeOK
  <2>3. CASE NeedResync(RotIssued(req), req.op)
    BY <2>1, <2>3 DEF PrefetchStep, Resync, ThetaCurrent
  <2>4. CASE ~NeedResync(RotIssued(req), req.op) /\ Accept(req)
    BY <2>1, <2>4 DEF PrefetchStep, Advance, ThetaCurrent
  <2>5. CASE ~NeedResync(RotIssued(req), req.op) /\ ~Accept(req)
    BY <2>1, <2>2, <2>5 DEF PrefetchStep, ThetaCurrent
  <2>6. QED
    BY <2>3, <2>4, <2>5
<1>3. QED
  BY <1>1, <1>2

(* An accepted rotation is computed from its own operands.                  *)
LEMMA NewContentOwn ==
  ASSUME ThetaCurrent, OwnOperands, NEW req, Accept(req), req.op \in OfferedOps
  PROVE  NewContent(req).data = Rotation(req.op)
<1>1. CASE ~UsePrefetch
  BY <1>1 DEF NewContent
<1>2. CASE UsePrefetch
  <2>1. UseValueCheck /\ SteadyRequests /\ RotIssued(req)
        /\ ~NeedResync(RotIssued(req), req.op)
    BY <1>2 DEF OwnOperands, Accept, CanTake
  <2>2. req.op.m = m_q /\ req.op.i = i_q /\ ThetaSel = i_q
    <3>1. CASE recover_q
      BY <2>1, <3>1 DEF OfferedOps, ThetaSel
    <3>2. CASE ~recover_q
      BY <1>2, <2>1, <3>2 DEF NeedResync, ValueMismatch, ThetaCurrent, ThetaSel
    <3> QED
      BY <3>1, <3>2
  <2>3. DpData(req) = Rotation(req.op)
    BY <1>2, <2>2 DEF DpData, Rotation
  <2> QED
    BY <1>2, <2>3 DEF NewContent
<1>3. QED
  BY <1>1, <1>2

-----------------------------------------------------------------------------
(* What the core still waits for after a cycle: what it waited for less     *)
(* what was returned and what was killed, with its decision noted, and then *)
(* what was accepted.                                                       *)

Left(rdy) == IF ResultTaken(rdy) THEN Tail(outstanding) ELSE outstanding

Kept(com, rdy) == Spared(com, Left(rdy))

(* What RemoveAt leaves (CORE-V-XIF: a kill takes one instruction).         *)
LEMMA RemoveAtProperties ==
  ASSUME NEW U, NEW q \in Seq(U), NEW j \in 1 .. Len(q)
  PROVE  /\ RemoveAt(q, j) \in Seq(U)
         /\ Len(RemoveAt(q, j)) = Len(q) - 1
         /\ \A k \in 1 .. Len(q) - 1 :
              RemoveAt(q, j)[k] = q[IF k < j THEN k ELSE k + 1]
<1> DEFINE n == Len(q)
           front == SubSeq(q, 1, j - 1)
           back  == SubSeq(q, j + 1, n)
<1>1. n \in Nat /\ j \in 1 .. n /\ \A k \in 1 .. n : q[k] \in U
  BY LenProperties, ElementOfSeq
<1>2. /\ front \in Seq(U) /\ Len(front) = j - 1
      /\ \A k \in 1 .. j - 1 : front[k] = q[k]
  <2>1. \A k \in 1 .. j - 1 : q[k] \in U
    BY <1>1
  <2>2. /\ front \in Seq(U)
        /\ Len(front) = IF 1 <= j - 1 THEN (j - 1) - 1 + 1 ELSE 0
        /\ \A k \in 1 .. (j - 1) - 1 + 1 : front[k] = q[1 + k - 1]
    BY <1>1, <2>1, SubSeqProperties
  <2>3. (j - 1) - 1 + 1 = j - 1 /\ \A k \in 1 .. j - 1 : 1 + k - 1 = k
    BY <1>1
  <2>4. \A k \in 1 .. j - 1 : front[k] = q[k]
    BY <2>2, <2>3
  <2> QED
    BY <1>1, <2>2, <2>4
<1>3. /\ back \in Seq(U) /\ Len(back) = n - j
      /\ \A k \in 1 .. n - j : back[k] = q[j + k]
  <2>1. \A k \in j + 1 .. n : q[k] \in U
    BY <1>1
  <2>2. /\ back \in Seq(U)
        /\ Len(back) = IF j + 1 <= n THEN n - (j + 1) + 1 ELSE 0
        /\ \A k \in 1 .. n - (j + 1) + 1 : back[k] = q[(j + 1) + k - 1]
    BY <1>1, <2>1, SubSeqProperties
  <2>3. n - (j + 1) + 1 = n - j /\ \A k \in 1 .. n - j : (j + 1) + k - 1 = j + k
    BY <1>1
  <2>4. \A k \in 1 .. n - j : back[k] = q[j + k]
    BY <2>2, <2>3
  <2> QED
    BY <1>1, <2>2, <2>4
<1>4. RemoveAt(q, j) = front \o back
  BY DEF RemoveAt
<1> HIDE DEF front, back
<1>5. /\ front \o back \in Seq(U)
      /\ Len(front \o back) = n - 1
      /\ \A k \in 1 .. n - 1 :
           (front \o back)[k] = IF k <= j - 1 THEN front[k] ELSE back[k - (j - 1)]
  <2>1. front \in Seq(U) /\ back \in Seq(U)
    BY <1>2, <1>3
  <2>2. /\ front \o back \in Seq(U)
        /\ Len(front \o back) = Len(front) + Len(back)
        /\ \A k \in 1 .. Len(front) + Len(back) :
             (front \o back)[k] = IF k <= Len(front) THEN front[k]
                                  ELSE back[k - Len(front)]
    BY <2>1, ConcatProperties, Zenon
  <2>3. Len(front) = j - 1 /\ Len(front) + Len(back) = n - 1
    BY <1>1, <1>2, <1>3
  <2> QED
    BY <2>2, <2>3
<1>6. ASSUME NEW k \in 1 .. n - 1
      PROVE  (front \o back)[k] = q[IF k < j THEN k ELSE k + 1]
  <2>1. CASE k < j
    <3>1. k \in 1 .. j - 1 /\ k <= j - 1
      BY <1>1, <2>1
    <3> QED
      BY <1>2, <1>5, <2>1, <3>1
  <2>2. CASE ~(k < j)
    <3>1. k - (j - 1) \in 1 .. n - j /\ j + (k - (j - 1)) = k + 1 /\ ~(k <= j - 1)
      BY <1>1, <2>2
    <3>2. back[k - (j - 1)] = q[k + 1]
      BY <1>3, <3>1
    <3> QED
      BY <1>5, <2>2, <3>1, <3>2
  <2> QED
    BY <2>1, <2>2
<1>7. QED
  BY <1>4, <1>5, <1>6

(* Removing commutes with appending.                                        *)
LEMMA RemoveAppend ==
  ASSUME NEW U, NEW q \in Seq(U), NEW new \in U, NEW j \in 1 .. Len(q)
  PROVE  RemoveAt(Append(q, new), j) = Append(RemoveAt(q, j), new)
<1> DEFINE n == Len(q)
           a == Append(q, new)
           b == RemoveAt(q, j)
           r == RemoveAt(a, j)
           t == Append(b, new)
<1>1. /\ n \in Nat /\ a \in Seq(U) /\ Len(a) = n + 1
      /\ \A k \in 1 .. n : a[k] = q[k]
      /\ a[n + 1] = new
  BY LenProperties, AppendProperties
<1>2. /\ b \in Seq(U) /\ Len(b) = n - 1
      /\ \A k \in 1 .. n - 1 : b[k] = q[IF k < j THEN k ELSE k + 1]
  BY RemoveAtProperties
<1> HIDE DEF a, b
<1>3. /\ r \in Seq(U) /\ Len(r) = Len(a) - 1
      /\ \A k \in 1 .. Len(a) - 1 : r[k] = a[IF k < j THEN k ELSE k + 1]
  <2>1. j \in 1 .. Len(a)
    BY <1>1
  <2> QED
    BY <1>1, <2>1, RemoveAtProperties
<1>4. /\ t \in Seq(U) /\ Len(t) = Len(b) + 1
      /\ \A k \in 1 .. Len(b) : t[k] = b[k]
      /\ t[Len(b) + 1] = new
  BY <1>2, AppendProperties
<1> HIDE DEF n, r, t
<1>5. n \in Nat /\ j \in 1 .. n /\ Len(r) = n /\ Len(t) = n /\ (n - 1) + 1 = n
  <2>1. n \in Nat /\ j \in 1 .. n
    BY <1>1 DEF n
  <2> QED
    BY <1>1, <1>2, <1>3, <1>4, <2>1
<1>6. ASSUME NEW k \in 1 .. n PROVE r[k] = t[k]
  <2>1. CASE k = n
    BY <1>1, <1>2, <1>3, <1>4, <1>5, <2>1
  <2>2. CASE k # n
    <3>1. k \in 1 .. n - 1 /\ (IF k < j THEN k ELSE k + 1) \in 1 .. n
      BY <1>5, <2>2
    <3>2. r[k] = q[IF k < j THEN k ELSE k + 1]
      BY <1>1, <1>3, <1>5, <3>1
    <3> QED
      BY <1>2, <1>4, <3>1, <3>2
  <2> QED
    BY <2>1, <2>2
<1>7. r = t
  BY <1>3, <1>4, <1>5, <1>6, SeqEqual
<1>8. QED
  BY <1>7 DEF r, t, a, b

(* Noting a decision changes no id and no operand.                          *)
LEMMA NotedProperties ==
  ASSUME NEW q \in Seq(Expected), NEW com \in Commits
  PROVE  /\ Noted(com, q) \in Seq(Expected)
         /\ Len(Noted(com, q)) = Len(q)
         /\ \A k \in 1 .. Len(q) :
              Noted(com, q)[k]
                = [id |-> q[k].id, op |-> q[k].op,
                   committed |-> q[k].committed \/ (com.valid /\ com.id = q[k].id)]
         /\ \A k \in 1 .. Len(q) :
              /\ Noted(com, q)[k].id = q[k].id
              /\ Noted(com, q)[k].op = q[k].op
              /\ Noted(com, q)[k].committed
                   <=> q[k].committed \/ (com.valid /\ com.id = q[k].id)
<1>1. Len(q) \in Nat /\ DOMAIN q = 1 .. Len(q)
      /\ \A k \in 1 .. Len(q) : q[k] \in Expected
  BY LenProperties, ElementOfSeq
<1> DEFINE e(k) == [id |-> q[k].id, op |-> q[k].op,
                    committed |-> q[k].committed \/ (com.valid /\ com.id = q[k].id)]
<1>2. ASSUME NEW k \in 1 .. Len(q)
      PROVE  /\ e(k) \in Expected
             /\ [q[k] EXCEPT !.committed = @ \/ (com.valid /\ com.id = q[k].id)]
                  = e(k)
             /\ e(k).id = q[k].id /\ e(k).op = q[k].op
             /\ e(k).committed
                  <=> q[k].committed \/ (com.valid /\ com.id = q[k].id)
  BY <1>1 DEF Expected, Commits
<1>3. Noted(com, q) = [k \in 1 .. Len(q) |-> e(k)]
  BY <1>1, <1>2 DEF Noted
<1> HIDE DEF e
<1>4. [k \in 1 .. Len(q) |-> e(k)] \in Seq(Expected)
  BY <1>1, <1>2, IsASeq
<1>5. Len([k \in 1 .. Len(q) |-> e(k)]) = Len(q)
  BY <1>1
<1>6. \A k \in 1 .. Len(q) : Noted(com, q)[k] = e(k)
  BY <1>3
<1>7. \A k \in 1 .. Len(q) :
        Noted(com, q)[k] = [id |-> q[k].id, op |-> q[k].op,
                            committed |-> \/ q[k].committed
                                          \/ com.valid /\ com.id = q[k].id]
  BY <1>6 DEF e
<1>8. QED
  BY <1>2, <1>3, <1>4, <1>5, <1>6, <1>7

(* So does noting, when the decision is not about what is appended.         *)
LEMMA NotedAppend ==
  ASSUME NEW q \in Seq(Expected), NEW com \in Commits, NEW new \in Expected,
         ~(com.valid /\ com.id = new.id)
  PROVE  Noted(com, Append(q, new)) = Append(Noted(com, q), new)
<1> DEFINE n == Len(q)
           a == Append(q, new)
           b == Noted(com, q)
           s == Noted(com, a)
           t == Append(b, new)
           note(e) == [id |-> e.id, op |-> e.op,
                       committed |-> e.committed \/ (com.valid /\ com.id = e.id)]
<1>1. /\ n \in Nat /\ a \in Seq(Expected) /\ Len(a) = n + 1
      /\ \A k \in 1 .. n : a[k] = q[k]
      /\ a[n + 1] = new
  BY LenProperties, AppendProperties
<1>2. /\ b \in Seq(Expected) /\ Len(b) = n
      /\ \A k \in 1 .. n : b[k] = note(q[k])
  BY NotedProperties
<1> HIDE DEF a, b
<1>3. /\ s \in Seq(Expected) /\ Len(s) = Len(a)
      /\ \A k \in 1 .. Len(a) : s[k] = note(a[k])
  BY <1>1, NotedProperties
<1>4. /\ t \in Seq(Expected) /\ Len(t) = Len(b) + 1
      /\ \A k \in 1 .. Len(b) : t[k] = b[k]
      /\ t[Len(b) + 1] = new
  BY <1>2, AppendProperties
<1>5. note(new) = new
  BY DEF Expected
<1> HIDE DEF n, s, t, note
<1>6. ASSUME NEW k \in 1 .. n + 1 PROVE s[k] = t[k]
  <2>1. CASE k = n + 1
    BY <1>1, <1>2, <1>3, <1>4, <1>5, <2>1
  <2>2. CASE k # n + 1
    <3>1. k \in 1 .. n
      BY <1>1, <2>2
    <3> QED
      BY <1>1, <1>2, <1>3, <1>4, <3>1
  <2> QED
    BY <2>1, <2>2
<1>7. s = t
  BY <1>1, <1>2, <1>3, <1>4, <1>6, SeqEqual
<1>8. QED
  BY <1>7 DEF s, t, a, b

(* The core's expectations, in these words, when what is accepted is not    *)
(* decided in the same cycle.                                               *)
LEMMA CoreStepShape ==
  ASSUME outstanding \in Seq(Expected), NEW req \in Requests,
         NEW com \in Commits, NEW rdy \in BOOLEAN, CoreStep(req, com, rdy),
         ResultTaken(rdy) => outstanding # <<>>,
         Accept(req) /\ com.valid => com.id # req.id
  PROVE  /\ Left(rdy) \in Seq(Expected)
         /\ Kept(com, rdy) \in Seq(Expected)
         /\ outstanding' = IF Accept(req)
                           THEN Append(Noted(com, Kept(com, rdy)), NewExpected(req))
                           ELSE Noted(com, Kept(com, rdy))
<1> DEFINE left == Left(rdy)
           new == NewExpected(req)
           all == IF Accept(req) THEN Append(left, new) ELSE left
           at == KilledAt(com, all)
           j == CHOOSE k \in at : TRUE
           alive == IF at = {} THEN all ELSE RemoveAt(all, j)
           kept == Kept(com, rdy)
<1>1. left \in Seq(Expected)
  BY HeadTailProperties DEF Left
<1>2. new \in Expected
  BY DEF NewExpected, Expected, Requests
<1>3. outstanding' = Noted(com, alive)
  <2> DEFINE first == IF ResultTaken(rdy) /\ outstanding # <<>> THEN Tail(outstanding)
                      ELSE outstanding
             Decided(l) == Noted(com, Spared(com, IF Accept(req) THEN Append(l, new) ELSE l))
  <2>1. outstanding' = Decided(first)
    BY ONLY CoreStep(req, com, rdy) DEF CoreStep
  <2>2. first = left
    BY DEF Left
  <2>3. Decided(left) = Noted(com, alive)
    BY DEF Spared
  <2> HIDE DEF Decided, first, left
  <2>4. QED
    BY <2>1, <2>2, <2>3
<1>4. /\ Len(left) \in Nat /\ DOMAIN left = 1 .. Len(left)
      /\ Append(left, new) \in Seq(Expected)
      /\ Len(Append(left, new)) = Len(left) + 1
      /\ DOMAIN Append(left, new) = 1 .. Len(left) + 1
      /\ \A k \in 1 .. Len(left) : Append(left, new)[k] = left[k]
      /\ Append(left, new)[Len(left) + 1] = new
  BY <1>1, <1>2, LenProperties, AppendProperties
<1> HIDE DEF left, new
<1>5. at = KilledAt(com, left)
  <2>1. CASE ~Accept(req)
    BY <2>1
  <2>2. CASE Accept(req)
    <3>1. ~KillOf(com, new.id)
      BY <2>2 DEF KillOf, KillSeen, new, NewExpected
    <3>2. at = {k \in 1 .. Len(left) + 1 : KillOf(com, Append(left, new)[k].id)}
      BY <1>4, <2>2 DEF KilledAt
    <3>3. KilledAt(com, left) = {k \in 1 .. Len(left) : KillOf(com, left[k].id)}
      BY <1>4 DEF KilledAt
    <3>4. \A k \in 1 .. Len(left) + 1 :
            KillOf(com, Append(left, new)[k].id)
              <=> k \in 1 .. Len(left) /\ KillOf(com, left[k].id)
      BY <1>4, <3>1
    <3>5. 1 .. Len(left) \subseteq 1 .. Len(left) + 1
      BY <1>4
    <3> QED
      BY <3>2, <3>3, <3>4, <3>5
  <2> QED
    BY <2>1, <2>2
<1> HIDE DEF at
<1>6. at # {} => j \in 1 .. Len(left)
  <2>1. at \subseteq 1 .. Len(left)
    BY <1>4, <1>5 DEF KilledAt
  <2> QED
    BY <2>1
<1>7. kept = IF at = {} THEN left ELSE RemoveAt(left, j)
  <2> DEFINE K == KilledAt(com, left)
  <2>1. kept = IF K = {} THEN left ELSE RemoveAt(left, CHOOSE k \in K : TRUE)
    BY DEF Kept, Spared, left
  <2>2. K = at
    BY <1>5
  <2> HIDE DEF K, kept
  <2> QED
    BY <2>1, <2>2
<1>8. kept \in Seq(Expected)
  BY <1>1, <1>6, <1>7, RemoveAtProperties
<1>9. CASE ~Accept(req)
  BY <1>1, <1>3, <1>5, <1>7, <1>8, <1>9 DEF left
<1>10. CASE Accept(req)
  <2>1. alive = Append(kept, new)
    <3>1. CASE at = {}
      BY <1>7, <1>10, <3>1
    <3>2. CASE at # {}
      <4>1. RemoveAt(Append(left, new), j) = Append(RemoveAt(left, j), new)
        BY <1>1, <1>2, <1>6, <3>2, RemoveAppend DEF left, new
      <4> QED
        BY <1>7, <1>10, <3>2, <4>1
    <3> QED
      BY <3>1, <3>2
  <2>2. Noted(com, Append(kept, new)) = Append(Noted(com, kept), new)
    <3>1. ~(com.valid /\ com.id = new.id) /\ new.committed = FALSE
      BY <1>10 DEF new, NewExpected
    <3> QED
      BY <1>2, <1>8, <3>1, NotedAppend DEF new
  <2> QED
    BY <1>1, <1>3, <1>8, <1>10, <2>1, <2>2 DEF left, new
<1>11. QED
  BY <1>9, <1>10

-----------------------------------------------------------------------------
(* The head of the FIFO and the first of what the core waits for.           *)

(* What the coprocessor presents is what the core waits for first.          *)
LEMMA HeadFirst ==
  ASSUME OInv, ResultValid, NEW at, Lists(at, outstanding, Live, Holding)
  PROVE  /\ 0 \in Live /\ Content(0) = FifoHead
         /\ Len(outstanding) \in Nat /\ Len(outstanding) >= 1
         /\ outstanding # <<>>
         /\ at[1] = 0
<1>1. wr_ptr \in Pointers /\ rd_ptr \in Pointers /\ wr_ptr # rd_ptr
  BY DEF OInv, IInv, CoprocTypeOK, ResultValid, FifoEmpty
<1>2. 0 < Occupancy
  BY <1>1, Parameters DEF Pointers, Occupancy
<1>3. PtrAfter(0) = rd_ptr
  BY <1>1, Parameters DEF Pointers, PtrAfter
<1>4. 0 \in Held
  BY <1>2, HeldPlaces, PlaceBounds DEF PlaceByPlace
<1>5. Content(0) = FifoHead
  BY <1>3, PlaceBounds DEF Content, InFifo, FifoHead
<1>6. 0 \in Live
  BY <1>4, <1>5 DEF Live, ResultValid, HeadKilled
<1>7. Len(outstanding) \in Nat
  BY LenProperties DEF OInv
<1>8. PICK k \in 1 .. Len(outstanding) : at[k] = 0
  BY <1>6 DEF Lists
<1>9. k = 1
  <2> SUFFICES ASSUME k # 1 PROVE FALSE
    OBVIOUS
  <2>1. 1 \in 1 .. Len(outstanding) /\ 1 < k
    BY <1>7
  <2>2. at \in [1 .. Len(outstanding) -> Live]
        /\ \A i, j \in 1 .. Len(outstanding) : i < j => at[i] < at[j]
    BY DEF Lists, Increasing
  <2>3. at[1] < 0
    BY <1>8, <2>1, <2>2
  <2>4. at[1] \in Nat
    BY <2>1, <2>2, PlacesAreNumbers
  <2> QED
    BY <2>3, <2>4
<1>10. outstanding # <<>>
  BY <1>7, <1>8, EmptySeq DEF OInv
<1>11. QED
  BY <1>5, <1>6, <1>7, <1>8, <1>9, <1>10

(* Every expectation is for an id that is held, unless its result is taken. *)
LEMMA ExpectedHeld ==
  ASSUME OInv, NEW rdy \in BOOLEAN, NEW k \in DOMAIN outstanding,
         ~outstanding[k].committed
  PROVE  outstanding[k].id \in HeldIds(rdy)
<1>1. PICK at : Lists(at, outstanding, Live, Holding)
  BY DEF OInv, Followed
<1>2. DOMAIN outstanding = 1 .. Len(outstanding) /\ Len(outstanding) \in Nat
  BY LenProperties DEF OInv
<1>3. at[k] \in Live /\ Content(at[k]).id = outstanding[k].id
  BY <1>1, <1>2 DEF Lists, Holding, Live
<1>4. ASSUME ResultTaken(rdy) PROVE at[k] # 0
  <2>1. Content(0) = FifoHead /\ FifoHead.id \in committed
    BY <1>1, <1>4, HeadFirst DEF ResultTaken, ResultValid, HeadCommitted
  <2>2. outstanding[k].id \notin committed
    BY DEF OInv, CommitsSeen
  <2> QED
    BY <1>3, <2>1, <2>2
<1>5. QED
  BY <1>3, <1>4 DEF HeldIds, Live

(* The core does not decide an instruction in the cycle in which it is      *)
(* accepted, and what it kills it has not committed.                        *)
LEMMA DecidesAnother ==
  ASSUME OInv, NEW rdy \in BOOLEAN, NEW req \in CoreRequests(HeldIds(rdy)),
         NEW com \in CoreCommits(req, HeldIds(rdy))
  PROVE  /\ Accept(req) /\ com.valid => com.id # req.id
         /\ com.valid /\ ~com.kill => com.id \in Undecided
         /\ com.valid => \/ com.id \in Undecided
                         \/ com.kill /\ com.id \notin HeldIds(rdy)
<1>1. CASE com \in [valid : {FALSE}, kill : {FALSE}, id : {SomeId}]
  BY <1>1
<1>2. CASE com \in [valid : {TRUE}, kill : BOOLEAN, id : Undecided]
  <2>1. PICK k \in DOMAIN outstanding :
          outstanding[k].id = com.id /\ ~outstanding[k].committed
    BY <1>2 DEF Undecided
  <2>2. com.id \in HeldIds(rdy)
    BY <2>1, ExpectedHeld
  <2> QED
    BY <1>2, <2>2, AcceptedRequest
<1>3. CASE com \in [valid : {TRUE}, kill : {TRUE},
                    id : RejectedIds(req, HeldIds(rdy))]
  BY <1>3, AcceptedRequest DEF RejectedIds
<1>4. QED
  BY <1>1, <1>2, <1>3 DEF CoreCommits

-----------------------------------------------------------------------------
(* The expectations and the live places, before and after a cycle.          *)

\* The live places that do not hand back their result.
Remaining(rdy) == {p \in Live : p = 0 => ~ResultTaken(rdy)}

\* Those that are not killed either.
Surviving(com, rdy) ==
  {p \in Live : /\ p = 0 => ~ResultTaken(rdy)
                /\ ~KillOf(com, Content(p).id)}

(* The live places that do not hand back their result are what the core     *)
(* keeps waiting for.                                                       *)
LEMMA LeftListed ==
  ASSUME OInv, NEW rdy \in BOOLEAN
  PROVE  /\ Left(rdy) \in Seq(Expected) /\ Len(Left(rdy)) \in Nat
         /\ DOMAIN Left(rdy) = 1 .. Len(Left(rdy))
         /\ \A k \in 1 .. Len(Left(rdy)) :
              \E l \in DOMAIN outstanding : Left(rdy)[k] = outstanding[l]
         /\ \E at : Lists(at, Left(rdy), Remaining(rdy), Holding)
<1> DEFINE left == Left(rdy)
           S == Remaining(rdy)
<1>1. PICK a0 : Lists(a0, outstanding, Live, Holding)
  BY DEF OInv, Followed
<1>2. /\ Live \in SUBSET Nat
      /\ outstanding \in Seq(Expected) /\ Len(outstanding) \in Nat
      /\ DOMAIN outstanding = 1 .. Len(outstanding)
  <2>1. Live \in SUBSET Nat
    BY PlacesAreNumbers
  <2>2. outstanding \in Seq(Expected)
    BY DEF OInv
  <2> QED
    BY <2>1, <2>2, LenProperties
<1>3. ResultTaken(rdy) => outstanding # <<>>
  BY <1>1, HeadFirst DEF ResultTaken
<1>4. CASE ~ResultTaken(rdy)
  <2>1. left = outstanding /\ S = Live
    BY <1>4 DEF Left, Remaining
  <2> QED
    BY <1>1, <1>2, <2>1
<1>5. CASE ResultTaken(rdy)
  <2>1. 0 \in Live /\ a0[1] = 0 /\ Len(outstanding) >= 1
    BY <1>1, <1>5, HeadFirst DEF ResultTaken
  <2>2. left = Tail(outstanding) /\ S = Live \ {a0[1]}
    BY <1>5, <2>1 DEF Left, Remaining
  <2>3. /\ left \in Seq(Expected) /\ Len(left) = Len(outstanding) - 1
        /\ \A k \in 1 .. Len(left) : left[k] = outstanding[k + 1]
    BY <1>2, <1>3, <1>5, <2>2, HeadTailProperties
  <2>4. /\ Len(left) \in Nat /\ DOMAIN left = 1 .. Len(left)
    BY <2>3, LenProperties
  <2>5. \A k \in 1 .. Len(outstanding) - 1 :
          left[k] = outstanding[IF k < 1 THEN k ELSE k + 1]
    BY <2>3
  <2>6. 1 \in 1 .. Len(outstanding)
    BY <1>2, <2>1
  <2>7. \A k \in 1 .. Len(left) : k + 1 \in 1 .. Len(outstanding)
    BY <1>2, <2>3
  <2> HIDE DEF left, S
  <2>8. \E bt : Lists(bt, left, Live \ {a0[1]}, Holding)
    BY <1>1, <1>2, <2>3, <2>5, <2>6, ListsWithout
  <2> QED
    BY <1>2, <2>2, <2>3, <2>4, <2>7, <2>8 DEF left, S
<1>6. QED
  BY <1>4, <1>5

(* What survives is what the core keeps waiting for.                        *)
LEMMA KeptListed ==
  ASSUME OInv, NEW com \in Commits, NEW rdy \in BOOLEAN
  PROVE  /\ Left(rdy) \in Seq(Expected) /\ Kept(com, rdy) \in Seq(Expected)
         /\ \A k \in DOMAIN Kept(com, rdy) :
              \E l \in DOMAIN outstanding : Kept(com, rdy)[k] = outstanding[l]
         /\ \E at : Lists(at, Kept(com, rdy), Surviving(com, rdy), Holding)
<1> DEFINE left == Left(rdy)
           S == Remaining(rdy)
           at == KilledAt(com, left)
           j == CHOOSE k \in at : TRUE
           kept == Kept(com, rdy)
<1>1. DOMAIN outstanding = 1 .. Len(outstanding)
  BY LenProperties DEF OInv
<1>2. Live \in SUBSET Nat
  BY PlacesAreNumbers
<1>3. /\ left \in Seq(Expected) /\ Len(left) \in Nat
      /\ DOMAIN left = 1 .. Len(left)
      /\ \A k \in 1 .. Len(left) :
           \E l \in 1 .. Len(outstanding) : left[k] = outstanding[l]
      /\ \E bt : Lists(bt, left, S, Holding)
  BY <1>1, LeftListed
<1>4. PICK a1 : Lists(a1, left, S, Holding)
  BY <1>3
<1>5. S \in SUBSET Nat /\ Surviving(com, rdy)
                            = {p \in S : ~KillOf(com, Content(p).id)}
  BY <1>2 DEF Surviving, Remaining
<1>6. \A p \in S : Holding[p] = Content(p)
  BY DEF Holding, Live, Remaining
<1>7. \A k \in 1 .. Len(left) : a1[k] \in S /\ Content(a1[k]).id = left[k].id
  BY <1>4, <1>6 DEF Lists
<1>8. kept = IF at = {} THEN left ELSE RemoveAt(left, j)
  BY DEF Kept, Spared
<1>9. at = {k \in 1 .. Len(left) : KillOf(com, left[k].id)}
  BY <1>3 DEF KilledAt
<1> HIDE DEF left, at, kept
<1>10. CASE at = {}
  <2>1. \A p \in S : ~KillOf(com, Content(p).id)
    <3> SUFFICES ASSUME NEW p \in S PROVE ~KillOf(com, Content(p).id)
      OBVIOUS
    <3>1. PICK k \in 1 .. Len(left) : a1[k] = p
      BY <1>4 DEF Lists
    <3> QED
      BY <1>7, <1>9, <1>10, <3>1
  <2>2. Surviving(com, rdy) = S
    BY <1>5, <2>1
  <2>3. kept = left
    BY <1>8, <1>10
  <2> QED
    BY <1>1, <1>3, <1>4, <2>2, <2>3 DEF left, kept
<1>11. CASE at # {}
  <2>1. j \in at
    BY <1>11
  <2>2. j \in 1 .. Len(left) /\ KillOf(com, left[j].id)
    BY <1>9, <2>1
  <2> HIDE DEF j
  <2>3. /\ kept \in Seq(Expected) /\ Len(kept) = Len(left) - 1
        /\ \A k \in 1 .. Len(left) - 1 :
             kept[k] = left[IF k < j THEN k ELSE k + 1]
    BY <1>3, <1>8, <1>11, <2>2, RemoveAtProperties
  <2>4. \E bt : Lists(bt, kept, S \ {a1[j]}, Holding)
    BY <1>3, <1>4, <1>5, <2>2, <2>3, ListsWithout
  <2>5. Surviving(com, rdy) = S \ {a1[j]}
    <3>1. a1[j] \in S /\ KillOf(com, Content(a1[j]).id)
      BY <1>7, <2>2
    <3>2. ASSUME NEW p \in S, KillOf(com, Content(p).id) PROVE p = a1[j]
      <4>1. Content(p).id = Content(a1[j]).id
        BY <3>1, <3>2 DEF KillOf
      <4>2. p \in Held /\ a1[j] \in Held
        BY <3>1 DEF Live, Remaining
      <4> QED
        BY <4>1, <4>2 DEF OInv, DistinctIds
    <3> QED
      BY <1>5, <3>1, <3>2
  <2>6. DOMAIN kept = 1 .. Len(left) - 1
    BY <2>3, LenProperties
  <2>7. ASSUME NEW k \in 1 .. Len(left) - 1
        PROVE  \E l \in 1 .. Len(outstanding) : kept[k] = outstanding[l]
    <3>1. (IF k < j THEN k ELSE k + 1) \in 1 .. Len(left)
      BY <1>3, <2>2
    <3> QED
      BY <1>3, <2>3, <3>1
  <2> QED
    BY <1>1, <1>3, <2>3, <2>4, <2>5, <2>6, <2>7 DEF left, kept
<1>12. QED
  BY <1>10, <1>11

(* What survives stays, and keeps an id that is neither killed nor reused.  *)
LEMMA SurvivingStays ==
  ASSUME OInv, NEW com \in Commits, NEW rdy \in BOOLEAN
  PROVE  /\ Surviving(com, rdy) \subseteq Staying(com, rdy)
         /\ \A p \in Staying(com, rdy) :
              Content(p).id \notin killed /\ ~KillOf(com, Content(p).id)
                => p \in Surviving(com, rdy)
<1>1. ASSUME NEW p \in Surviving(com, rdy)
      PROVE  p \in Staying(com, rdy)
  <2>1. p \in Held /\ Content(p).id \notin killed /\ ~KillOf(com, Content(p).id)
        /\ (p = 0 => ~ResultTaken(rdy))
    BY <1>1 DEF Surviving, Live
  <2>2. p = 0 => ~FifoDrain
    <3>1. PtrAfter(0) = rd_ptr
      BY Parameters DEF OInv, IInv, CoprocTypeOK, Pointers, PtrAfter
    <3>2. Content(0) = FifoHead
      BY <3>1, PlaceBounds DEF Content, InFifo, FifoHead
    <3> QED
      BY <2>1, <3>2 DEF FifoDrain, HeadKilled
  <2>3. p = FifoDepth => ~RetireKilled(com)
    <3>1. StagePlace(FifoDepth) = Latency /\ FifoDepth < CapturePlace
          /\ ~(FifoDepth < FifoDepth)
      BY PlaceBounds, StagesFinite DEF StagePlace, CapturePlace
    <3>2. Content(FifoDepth).id = CurTag
      BY <3>1 DEF Content, InStage, CurTag
    <3> QED
      BY <2>1, <3>2 DEF RetireKilled, ResultIsKilled
  <2> QED
    BY <2>1, <2>2, <2>3 DEF Staying, FifoPop
<1>2. ASSUME NEW p \in Staying(com, rdy), Content(p).id \notin killed,
             ~KillOf(com, Content(p).id)
      PROVE  p \in Surviving(com, rdy)
  BY <1>2 DEF Staying, FifoPop, Surviving, Live
<1>3. QED
  BY <1>1, <1>2

(* The flags after a cycle, for an id that is not reused in it and for one  *)
(* that is.                                                                 *)
LEMMA FlagsAfter ==
  ASSUME NEW req, NEW com, NEW rdy, CoprocStep(req, com, rdy)
  PROVE  /\ Accept(req) => req.id \notin killed' /\ req.id \notin committed'
         /\ \A id : ~(Accept(req) /\ id = req.id) =>
              /\ id \in killed' <=> id \in killed \/ KillOf(com, id)
              /\ id \in committed' <=>
                   id \in committed \/ (com.valid /\ ~com.kill /\ com.id = id)
BY DEF CoprocStep, FlagsStep, KillOf, KillSeen

(* The live places after a cycle: what survives has moved on, and what is   *)
(* accepted comes behind it.                                                *)
LEMMA LiveNext ==
  ASSUME OInv, IInv', NEW req \in Requests, NEW com \in Commits,
         NEW rdy \in BOOLEAN, req \in CoreRequests(HeldIds(rdy)),
         CoprocStep(req, com, rdy)
  PROVE  /\ Live' = {Moved(p, rdy) : p \in Surviving(com, rdy)}
                      \cup (IF Accept(req) THEN {NewPlace} ELSE {})
         /\ \A p \in Surviving(com, rdy) :
              /\ Moved(p, rdy) \in Nat /\ Moved(p, rdy) < NewPlace
              /\ Holding'[Moved(p, rdy)] = Holding[p]
         /\ \A p, s \in Surviving(com, rdy) :
              p < s => Moved(p, rdy) < Moved(s, rdy)
         /\ NewPlace \in Nat
         /\ Accept(req) => Holding'[NewPlace] = NewContent(req)
<1> DEFINE S == Surviving(com, rdy)
<1>1. IInv /\ CaptureUnused /\ FifoFilled /\ DistinctIds
  BY DEF OInv
<1>2. CaptureUnused'
  BY <1>1, PlacesStep
<1>3. NewPlace \in Nat
  BY PlaceBounds DEF NewPlace
<1>4. S \subseteq Staying(com, rdy)
  BY SurvivingStays
<1>5. /\ \A p \in Staying(com, rdy) : Moved(p, rdy) \in 0 .. NewPlace - 1
      /\ \A p, s \in Staying(com, rdy) :
           p < s => Moved(p, rdy) < Moved(s, rdy)
  <2>1. /\ Occupancy \in 0 .. FifoDepth
        /\ ResultPresent => Occupancy < FifoDepth
        /\ FifoPop(rdy) => Occupancy >= 1
    BY <1>1, FifoEntries
  <2> QED
    BY <1>1, <2>1, MovedInOrder
<1>6. \A n \in 0 .. NewPlace - 1 : n \in Nat /\ n < NewPlace /\ n \in 0 .. NewPlace
  BY <1>3
<1>7. \A p \in Staying(com, rdy), m \in 0 .. NewPlace :
        m = Moved(p, rdy) => m \in Held' /\ Content(m)' = Content(p)
  BY <1>1, MovedContent
<1>8. Accept(req) => NewPlace \in Held' /\ Content(NewPlace)' = NewContent(req)
  BY <1>1, AcceptedContent
<1>9. \A m \in Held' : \/ Accept(req) /\ m = NewPlace
                       \/ \E p \in Staying(com, rdy) : m = Moved(p, rdy)
  BY <1>1, <1>2, HeldFrom
<1>10. Holding' = [m \in Held' |-> Content(m)']
  BY DEF Holding
<1>11. Holding = [p \in Held |-> Content(p)]
  BY DEF Holding
<1>12. Live' = {m \in Held' : Content(m)'.id \notin killed'}
  BY DEF Live
<1>13. ASSUME NEW p \in Staying(com, rdy)
       PROVE  Content(p).id \notin killed' <=> p \in S
  <2>1. ~(Accept(req) /\ Content(p).id = req.id)
    BY AcceptedRequest, StayingIds
  <2>2. Content(p).id \in killed'
          <=> Content(p).id \in killed \/ KillOf(com, Content(p).id)
    BY <2>1, FlagsAfter
  <2>3. p \in S => Content(p).id \notin killed /\ ~KillOf(com, Content(p).id)
    BY DEF Surviving, Live
  <2> QED
    BY <2>2, <2>3, SurvivingStays
<1>14. ASSUME NEW p \in S
       PROVE  /\ Moved(p, rdy) \in Nat /\ Moved(p, rdy) < NewPlace
              /\ Holding'[Moved(p, rdy)] = Holding[p]
              /\ Moved(p, rdy) \in Live'
  <2>1. p \in Staying(com, rdy) /\ p \in Held
    BY <1>4 DEF Staying
  <2>2. PICK m \in 0 .. NewPlace - 1 : m = Moved(p, rdy)
    BY <1>5, <2>1
  <2>3. m \in Nat /\ m < NewPlace /\ m \in 0 .. NewPlace
    BY <1>6
  <2>4. m \in Held' /\ Content(m)' = Content(p)
    BY <1>7, <2>1, <2>2, <2>3
  <2>5. Holding'[m] = Holding[p]
    BY <1>10, <1>11, <2>1, <2>4
  <2>6. m \in Live'
    BY <1>12, <1>13, <2>1, <2>4
  <2> QED
    BY <2>2, <2>3, <2>5, <2>6
<1>15. ASSUME Accept(req)
       PROVE  NewPlace \in Live' /\ Holding'[NewPlace] = NewContent(req)
  <2>1. NewPlace \in Held' /\ Content(NewPlace)' = NewContent(req)
    BY <1>8, <1>15
  <2>2. NewContent(req).id = req.id /\ req.id \notin killed'
    BY <1>15, FlagsAfter DEF NewContent
  <2>3. PICK m : m = NewPlace
    OBVIOUS
  <2>4. Content(m)' = Content(NewPlace)'
    BY <2>3
  <2> QED
    BY <1>10, <1>12, <2>1, <2>2, <2>3, <2>4
<1>16. ASSUME NEW m \in Live'
       PROVE  m \in {Moved(p, rdy) : p \in S}
                      \cup (IF Accept(req) THEN {NewPlace} ELSE {})
  <2>1. m \in Held' /\ Content(m)'.id \notin killed'
    BY <1>12
  <2>2. CASE Accept(req) /\ m = NewPlace
    BY <2>2
  <2>3. ASSUME NEW p \in Staying(com, rdy), m = Moved(p, rdy)
        PROVE  m \in {Moved(s, rdy) : s \in S}
    <3>1. m \in 0 .. NewPlace
      BY <1>5, <1>6, <2>3
    <3>2. Content(m)' = Content(p)
      BY <1>7, <2>3, <3>1
    <3>3. p \in S
      BY <1>13, <2>1, <3>2
    <3> QED
      BY <2>3, <3>3
  <2> QED
    BY <1>9, <2>1, <2>2, <2>3
<1>17. Live' = {Moved(p, rdy) : p \in S}
                 \cup (IF Accept(req) THEN {NewPlace} ELSE {})
  <2> HIDE DEF S
  <2> QED
    BY <1>14, <1>15, <1>16
<1>18. QED
  BY <1>3, <1>4, <1>5, <1>14, <1>15, <1>17

-----------------------------------------------------------------------------
(* The invariant.                                                           *)

(* What the core takes is what it waits for.                                *)
LEMMA TakenIsAwaited ==
  OInv => \A rdy : ResultTaken(rdy) => outstanding # <<>>
<1> SUFFICES ASSUME OInv, NEW rdy, ResultTaken(rdy) PROVE outstanding # <<>>
  OBVIOUS
<1>1. PICK at : Lists(at, outstanding, Live, Holding)
  BY DEF OInv, Followed
<1>2. QED
  BY <1>1, HeadFirst DEF ResultTaken

(* What the core waits for after a cycle.                                   *)
LEMMA OutstandingNext ==
  ASSUME OInv, NEW req \in Requests, NEW com \in Commits, NEW rdy \in BOOLEAN,
         req \in CoreRequests(HeldIds(rdy)),
         com \in CoreCommits(req, HeldIds(rdy)), CoreStep(req, com, rdy)
  PROVE  LET noted == Noted(com, Kept(com, rdy))
         IN  /\ noted \in Seq(Expected) /\ Len(noted) = Len(Kept(com, rdy))
             /\ NewExpected(req) \in Expected
             /\ outstanding' = IF Accept(req)
                               THEN Append(noted, NewExpected(req)) ELSE noted
             /\ outstanding' \in Seq(Expected)
<1> DEFINE noted == Noted(com, Kept(com, rdy))
<1>1. /\ Kept(com, rdy) \in Seq(Expected)
      /\ outstanding' = IF Accept(req)
                        THEN Append(noted, NewExpected(req)) ELSE noted
  BY TakenIsAwaited, DecidesAnother, CoreStepShape DEF OInv
<1>2. noted \in Seq(Expected) /\ Len(noted) = Len(Kept(com, rdy))
  BY <1>1, NotedProperties
<1>3. NewExpected(req) \in Expected
  BY DEF NewExpected, Expected, Requests
<1> HIDE DEF noted
<1>4. outstanding' \in Seq(Expected)
  BY <1>1, <1>2, <1>3, AppendProperties
<1>5. QED
  BY <1>1, <1>2, <1>3, <1>4 DEF noted

(* The live places follow the core's expectations through a cycle.          *)
LEMMA FollowedStep ==
  ASSUME OInv, IInv', NEW req \in Requests, NEW com \in Commits,
         NEW rdy \in BOOLEAN, req \in CoreRequests(HeldIds(rdy)),
         com \in CoreCommits(req, HeldIds(rdy)), Cycle(req, com, rdy)
  PROVE  \E at : Lists(at, outstanding', Live', Holding')
<1> DEFINE S == Surviving(com, rdy)
           kept == Kept(com, rdy)
           noted == Noted(com, kept)
           new == NewExpected(req)
           mv == [p \in S |-> Moved(p, rdy)]
           T == {mv[p] : p \in S}
           d == Holding'
<1>1. CoprocStep(req, com, rdy) /\ CoreStep(req, com, rdy)
  BY DEF Cycle
<1>2. PICK a0 : Lists(a0, kept, S, Holding)
  BY KeptListed
<1>3. /\ kept \in Seq(Expected) /\ noted \in Seq(Expected)
      /\ Len(kept) \in Nat /\ SameInstructions(kept, noted)
  BY KeptListed, NotedProperties, LenProperties DEF SameInstructions
<1>4. /\ new \in Expected
      /\ outstanding' = IF Accept(req) THEN Append(noted, new) ELSE noted
  BY <1>1, OutstandingNext
<1>5. /\ Live' = {Moved(p, rdy) : p \in S}
                   \cup (IF Accept(req) THEN {NewPlace} ELSE {})
      /\ \A p \in S : /\ Moved(p, rdy) \in Nat /\ Moved(p, rdy) < NewPlace
                      /\ Holding'[Moved(p, rdy)] = Holding[p]
      /\ \A p, s \in S : p < s => Moved(p, rdy) < Moved(s, rdy)
      /\ NewPlace \in Nat
      /\ Accept(req) => Holding'[NewPlace] = NewContent(req)
  BY <1>1, LiveNext
<1>6. S \in SUBSET Nat
  BY PlacesAreNumbers DEF Surviving
<1>7. Accept(req) => /\ NewContent(req).id = new.id
                     /\ OwnOperands => NewContent(req).data = Rotation(new.op)
  BY AcceptedRequest, NewContentOwn DEF OInv, NewContent, NewExpected
<1> HIDE DEF S, kept, noted, new, d
<1>8. Carries(mv, S, T, Holding, d) /\ T = {Moved(p, rdy) : p \in S}
  BY <1>5 DEF d, Carries
<1> HIDE DEF mv, T
<1>9. PICK a1 : Lists(a1, noted, T, d)
  BY <1>2, <1>3, <1>6, <1>8, ListsMoved
<1>10. CASE ~Accept(req)
  BY <1>4, <1>5, <1>8, <1>9, <1>10 DEF d
<1>11. CASE Accept(req)
  <2>1. T \in SUBSET Nat /\ \A p \in T : p < NewPlace
    BY <1>5, <1>8
  <2>2. d[NewPlace].id = new.id
        /\ (OwnOperands => d[NewPlace].data = Rotation(new.op))
    BY <1>5, <1>7, <1>11 DEF d
  <2>3. \E at : Lists(at, Append(noted, new), T \cup {NewPlace}, d)
    BY <1>3, <1>4, <1>5, <1>9, <2>1, <2>2, ListsAppended
  <2> QED
    BY <1>4, <1>5, <1>8, <1>11, <2>3 DEF d
<1>12. QED
  BY <1>10, <1>11

(* The core's decisions are in the flags after a cycle.                     *)
LEMMA CommitsSeenStep ==
  ASSUME OInv, NEW req \in Requests, NEW com \in Commits,
         NEW rdy \in BOOLEAN, req \in CoreRequests(HeldIds(rdy)),
         com \in CoreCommits(req, HeldIds(rdy)), Cycle(req, com, rdy)
  PROVE  CommitsSeen'
<1> DEFINE S == Surviving(com, rdy)
           kept == Kept(com, rdy)
           noted == Noted(com, kept)
           new == NewExpected(req)
           Seen(e) == /\ e.committed <=> e.id \in committed'
                      /\ e.id \notin killed'
<1>1. CoprocStep(req, com, rdy) /\ CoreStep(req, com, rdy)
  BY DEF Cycle
<1>2. /\ kept \in Seq(Expected) /\ Len(kept) \in Nat
      /\ DOMAIN kept = 1 .. Len(kept)
  BY KeptListed, LenProperties
<1>3. /\ noted \in Seq(Expected) /\ Len(noted) = Len(kept)
      /\ \A k \in 1 .. Len(kept) :
           /\ noted[k].id = kept[k].id
           /\ noted[k].committed <=> \/ kept[k].committed
                                     \/ com.valid /\ com.id = kept[k].id
  BY <1>2, NotedProperties
<1>4. ASSUME NEW k \in 1 .. Len(kept)
      PROVE  Seen(noted[k])
  <2>1. PICK a0 : Lists(a0, kept, S, Holding)
    BY KeptListed
  <2>2. a0[k] \in S /\ Content(a0[k]).id = kept[k].id
    BY <2>1 DEF Lists, Holding, Surviving, Live
  <2>3. kept[k].id \notin killed /\ ~KillOf(com, kept[k].id)
    BY <2>2 DEF Surviving, Live
  <2>4. ~(Accept(req) /\ kept[k].id = req.id)
    <3>1. a0[k] \in Staying(com, rdy)
      BY <2>2, SurvivingStays
    <3> QED
      BY <2>2, <3>1, AcceptedRequest, StayingIds
  <2>5. PICK l \in DOMAIN outstanding : kept[k] = outstanding[l]
    BY <1>2, KeptListed
  <2>6. kept[k].committed <=> kept[k].id \in committed
    BY <2>5 DEF OInv, CommitsSeen
  <2>7. com.valid /\ com.id = kept[k].id => ~com.kill
    BY <2>3 DEF KillOf, KillSeen
  <2>8. /\ kept[k].id \notin killed'
        /\ kept[k].id \in committed' <=>
             \/ kept[k].id \in committed
             \/ com.valid /\ ~com.kill /\ com.id = kept[k].id
    BY <1>1, <2>3, <2>4, FlagsAfter
  <2> HIDE DEF noted, kept
  <2> QED
    BY <1>3, <2>6, <2>7, <2>8
<1>5. Accept(req) => Seen(new)
  BY <1>1, FlagsAfter DEF NewExpected
<1>6. outstanding' = IF Accept(req) THEN Append(noted, new) ELSE noted
  BY <1>1, OutstandingNext
<1>7. new \in Expected
  BY DEF NewExpected, Expected, Requests
<1> HIDE DEF noted, kept, new, Seen
<1>8. DOMAIN noted = 1 .. Len(kept)
  BY <1>3, LenProperties
<1>9. \A k \in DOMAIN outstanding' : Seen(outstanding'[k])
  <2>1. CASE ~Accept(req)
    BY <1>4, <1>6, <1>8, <2>1
  <2>2. CASE Accept(req)
    <3>1. /\ Append(noted, new) \in Seq(Expected)
          /\ Len(Append(noted, new)) = Len(noted) + 1
          /\ \A k \in 1 .. Len(noted) : Append(noted, new)[k] = noted[k]
          /\ Append(noted, new)[Len(noted) + 1] = new
      BY <1>3, <1>7, AppendProperties
    <3>2. DOMAIN Append(noted, new) = 1 .. Len(kept) + 1
      BY <1>3, <3>1, LenProperties
    <3>3. ASSUME NEW k \in 1 .. Len(kept) + 1 PROVE Seen(Append(noted, new)[k])
      <4>1. CASE k = Len(kept) + 1
        BY <1>3, <1>5, <2>2, <3>1, <4>1
      <4>2. CASE k # Len(kept) + 1
        <5>1. k \in 1 .. Len(kept)
          BY <1>2, <4>2
        <5> QED
          BY <1>3, <1>4, <3>1, <5>1
      <4> QED
        BY <4>1, <4>2
    <3> QED
      BY <1>6, <2>2, <3>2, <3>3
  <2> QED
    BY <2>1, <2>2
<1>10. QED
  BY <1>9 DEF CommitsSeen, Seen

(* The invariant holds out of reset.                                        *)
LEMMA InitOrder == Init => OInv
<1> SUFFICES ASSUME Init PROVE OInv
  OBVIOUS
<1>1. IInv
  BY InitCredits DEF Init
<1>2. Occupancy = 0 /\ capture = NoEntry /\ outstanding = <<>>
      /\ \A k \in Stages : tag_pipe[k] = NoEntry
  BY DEF Init, CoprocInit, Occupancy
<1>3. Held = {}
  BY <1>2 DEF Held
<1>4. DistinctIds /\ FifoFilled /\ CaptureUnused /\ CommitsSeen
  BY <1>2, <1>3 DEF DistinctIds, FifoFilled, CaptureUnused, CommitsSeen
<1>5. ThetaCurrent
  BY DEF Init, CoprocInit, PrefetchInit, ThetaCurrent
<1>6. outstanding \in Seq(Expected) /\ Len(outstanding) = 0
  BY <1>2, EmptySeq
<1>7. Followed
  <2>1. Live = {}
    BY <1>3 DEF Live
  <2>2. [k \in {} |-> 0] \in [1 .. 0 -> {}]
    OBVIOUS
  <2>3. Lists([k \in {} |-> 0], outstanding, Live, Holding)
    BY <1>6, <2>1, <2>2 DEF Lists, Increasing
  <2> QED
    BY <2>3 DEF Followed
<1>8. QED
  BY <1>1, <1>4, <1>5, <1>6, <1>7 DEF OInv

(* A clock cycle keeps it.                                                  *)
LEMMA OrderStep ==
  ASSUME OInv, NEW req \in Requests, NEW com \in Commits, NEW rdy \in BOOLEAN,
         req \in CoreRequests(HeldIds(rdy)),
         com \in CoreCommits(req, HeldIds(rdy)), Cycle(req, com, rdy)
  PROVE  OInv'
<1>1. /\ CoprocStep(req, com, rdy) /\ CoreStep(req, com, rdy)
      /\ IInv /\ CaptureUnused /\ FifoFilled /\ DistinctIds /\ ThetaCurrent
  BY DEF OInv, Cycle
<1>2. IInv'
  BY <1>1, StepInv
<1>3. CaptureUnused' /\ FifoFilled' /\ DistinctIds'
  BY <1>1, <1>2, PlacesStep
<1>4. outstanding' \in Seq(Expected)
  BY <1>1, OutstandingNext
<1>5. \E at : Lists(at, outstanding', Live', Holding')
  BY <1>2, FollowedStep
<1>6. Followed'
  BY <1>5 DEF Followed
<1>7. CommitsSeen'
  BY CommitsSeenStep
<1>8. ThetaCurrent'
  <2>1. KillSeen(com) \in BOOLEAN
    BY DEF KillSeen, Commits
  <2> QED
    BY <1>1, <2>1, ThetaStep
<1>9. QED
  BY <1>2, <1>3, <1>4, <1>6, <1>7, <1>8 DEF OInv

(* So does a step that leaves the registers alone.                          *)
LEMMA StutterOrder == OInv /\ UNCHANGED vars => OInv'
<1> SUFFICES ASSUME OInv, UNCHANGED vars PROVE OInv'
  OBVIOUS
<1>1. IInv'
  BY StutterCredits DEF OInv, vars
<1>2. UNCHANGED <<capture, datapath, tag_pipe, killed, committed, fifo, wr_ptr,
                  rd_ptr, m_q, i_q, theta_q, desync_q, recover_q, outstanding>>
  BY DEF vars, coprocVars, prefetchVars
<1>3. Occupancy' = Occupancy /\ Held' = Held
  BY <1>2 DEF Occupancy, Held
<1>4. ASSUME NEW n PROVE InFifo(n)' = InFifo(n)
  BY <1>2 DEF InFifo, PtrAfter, Slot
<1>5. ASSUME NEW p PROVE Content(p)' = Content(p)
  BY <1>2, <1>4 DEF Content, InStage, InCapture
<1>6. Live' = Live /\ Holding' = Holding
  BY <1>2, <1>3, <1>5 DEF Live, Holding
<1>7. Followed'
  BY <1>2, <1>6 DEF OInv, Followed
<1>8. DistinctIds' /\ FifoFilled' /\ CaptureUnused' /\ ThetaCurrent' /\ CommitsSeen'
  BY <1>2, <1>3, <1>4, <1>5
     DEF OInv, DistinctIds, FifoFilled, CaptureUnused, ThetaCurrent, CommitsSeen
<1>9. outstanding' \in Seq(Expected)
  BY <1>2 DEF OInv
<1>10. QED
  BY <1>1, <1>7, <1>8, <1>9 DEF OInv

(* The places the coprocessor fills, read from the head of the FIFO back to *)
(* the capture registers, hold what the core waits for, in its order: this  *)
(* is inductive over every clock cycle, whatever the core does.             *)
THEOREM OrderInvariant == Spec => []OInv
<1>1. Init => OInv
  BY InitOrder
<1>2. OInv /\ [Next]_vars => OInv'
  BY NextIsCycle, OrderStep, StutterOrder
<1>3. QED
  BY <1>1, <1>2, PTL DEF Spec

-----------------------------------------------------------------------------
(* What follows from it.                                                    *)

(* Every register of rope_xif_coproc and what the core waits for keep their *)
(* types.                                                                   *)
THEOREM TypesHold == Spec => []TypeOK
<1>1. OInv => TypeOK
  BY DEF OInv, IInv, TypeOK
<1>2. QED
  BY <1>1, OrderInvariant, PTL

(* No commit is lost, wherever its instruction is when it comes             *)
(* (rope_xif_coproc.sv, killed_q and committed_q as levels).                *)
THEOREM NoCommitIsLost == Spec => []CommitsSeen
<1>1. OInv => CommitsSeen
  BY DEF OInv
<1>2. QED
  BY <1>1, OrderInvariant, PTL

(* The prefetched word is the one of the pair the prefetch has reached,     *)
(* whenever it is used.                                                     *)
THEOREM ThetaIsCurrent == Spec => []ThetaCurrent
<1>1. OInv => ThetaCurrent
  BY DEF OInv
<1>2. QED
  BY <1>1, OrderInvariant, PTL

(* What is presented belongs to the oldest instruction the core waits for.  *)
LEMMA PresentedFirst ==
  ASSUME OInv, ResultValid
  PROVE  /\ outstanding # <<>>
         /\ outstanding[1].committed
         /\ FifoHead.id = outstanding[1].id
         /\ OwnOperands => FifoHead = [id |-> outstanding[1].id,
                                       data |-> Rotation(outstanding[1].op)]
<1>1. PICK at : Lists(at, outstanding, Live, Holding)
  BY DEF OInv, Followed
<1>2. /\ 0 \in Live /\ Content(0) = FifoHead
      /\ Len(outstanding) \in Nat /\ Len(outstanding) >= 1
      /\ outstanding # <<>>
      /\ at[1] = 0
  BY <1>1, HeadFirst
<1>3. 1 \in 1 .. Len(outstanding) /\ 1 \in DOMAIN outstanding
  BY <1>2, LenProperties DEF OInv
<1>4. Holding[0] = FifoHead
  BY <1>2 DEF Holding, Live
<1>5. /\ FifoHead.id = outstanding[1].id
      /\ OwnOperands => FifoHead.data = Rotation(outstanding[1].op)
  BY <1>1, <1>2, <1>3, <1>4 DEF Lists
<1>6. outstanding[1].committed
  BY <1>3, <1>5 DEF OInv, CommitsSeen, ResultValid, HeadCommitted
<1>7. FifoHead \in Results
  BY <1>2, ContentType DEF OInv, Live
<1>8. FifoHead = [id |-> FifoHead.id, data |-> FifoHead.data]
  BY <1>7 DEF Results
<1>9. QED
  BY <1>2, <1>5, <1>6, <1>8

(* In every build, and whatever rotation the core offers after a resync,    *)
(* results are returned in the order of the issues, once, and only for      *)
(* instructions the core has committed (rope_xif_coproc.sv, result channel).*)
ResultInOrder ==
  ResultValid => /\ outstanding # <<>>
                 /\ outstanding[1].committed
                 /\ FifoHead.id = outstanding[1].id

THEOREM ResultsAreInOrder == Spec => []ResultInOrder
<1>1. OInv => ResultInOrder
  BY PresentedFirst DEF ResultInOrder
<1>2. QED
  BY <1>1, OrderInvariant, PTL

(* Without the prefetch, and with it as long as its value check is built in *)
(* and the core repeats the rotation whose resync it waited for, a result   *)
(* was rotated by its own operands too.                                     *)
THEOREM ResultsAreOwn ==
  ASSUME OwnOperands
  PROVE  Spec => []ResultIsOwn
<1>1. OInv => ResultIsOwn
  BY PresentedFirst DEF ResultIsOwn
<1>2. QED
  BY <1>1, OrderInvariant, PTL

-----------------------------------------------------------------------------

(* The queue that the listing `at' of the live places shows.                *)
Shown(at) == [k \in 1 .. Len(outstanding) |-> Unflagged(Content(at[k]))]

(* A set of numbers that is not empty has a least one: the intervals that   *)
(* end in it are ordered by inclusion, which is well-founded.               *)
LEMMA LeastNumber ==
  ASSUME NEW T \in SUBSET Nat, T # {}
  PROVE  \E x \in T : \A y \in T : x <= y
<1> DEFINE R == StrictSubsetOrdering(Nat)
           F == FiniteSubsetsOf(Nat)
           U == {1 .. x : x \in T}
<1>1. IsWellFoundedOn(R, F)
  BY FS_StrictSubsetOrderingWellFounded
<1>2. U \subseteq F /\ U # {}
  <2>1. \A x \in T : IsFiniteSet(1 .. x) /\ 1 .. x \in SUBSET Nat
    BY FS_Interval
  <2> QED
    BY <2>1 DEF FiniteSubsetsOf
<1>3. ASSUME NEW x \in T, NEW y \in T, y < x
      PROVE  <<1 .. y, 1 .. x>> \in R
  <2>1. 1 .. y \in SUBSET Nat /\ 1 .. x \in SUBSET Nat
    OBVIOUS
  <2>2. 1 .. y \subseteq 1 .. x /\ x \in 1 .. x /\ x \notin 1 .. y
    BY <1>3
  <2> QED
    BY <2>1, <2>2 DEF StrictSubsetOrdering
<1> HIDE DEF R, F
<1>4. PICK u \in U : \A v \in U : ~(<<v, u>> \in R)
  BY <1>1, <1>2, WFMin
<1>5. PICK x \in T : u = 1 .. x
  BY <1>4
<1>6. \A y \in T : ~(y < x)
  BY <1>3, <1>4, <1>5
<1>7. QED
  BY <1>6

(* A finite set of numbers has one increasing enumeration.                  *)
LEMMA OneEnumeration ==
  ASSUME NEW S \in SUBSET Nat, NEW n \in Nat,
         NEW f \in [1 .. n -> S], NEW g \in [1 .. n -> S],
         Increasing(f), Increasing(g),
         \A p \in S : \E k \in 1 .. n : f[k] = p,
         \A p \in S : \E k \in 1 .. n : g[k] = p
  PROVE  f = g
<1> DEFINE T == {k \in 1 .. n : f[k] # g[k]}
<1>1. ASSUME NEW a \in [1 .. n -> S], NEW b \in [1 .. n -> S],
             Increasing(a), Increasing(b),
             \A p \in S : \E k \in 1 .. n : b[k] = p,
             NEW k \in 1 .. n, \A j \in 1 .. n : j < k => a[j] = b[j]
      PROVE  ~(a[k] < b[k])
  <2> SUFFICES ASSUME a[k] < b[k] PROVE FALSE
    OBVIOUS
  <2>1. PICK j \in 1 .. n : b[j] = a[k]
    BY <1>1
  <2>2. a[k] \in Nat /\ b[k] \in Nat /\ b[j] \in Nat /\ a[j] \in Nat
    BY <1>1, <2>1
  <2>3. CASE j < k
    <3>1. a[j] < a[k] /\ a[j] = b[j]
      BY <1>1, <2>3 DEF Increasing
    <3> QED
      BY <2>1, <2>2, <3>1
  <2>4. CASE j = k
    BY <2>1, <2>2, <2>4
  <2>5. CASE k < j
    <3>1. b[k] < b[j]
      BY <1>1, <2>5 DEF Increasing
    <3> QED
      BY <2>1, <2>2, <3>1
  <2> QED
    BY <2>3, <2>4, <2>5
<1>2. T = {}
  <2> SUFFICES ASSUME T # {} PROVE FALSE
    OBVIOUS
  <2>1. T \in SUBSET Nat
    OBVIOUS
  <2>2. PICK k \in T : \A j \in T : k <= j
    <3> HIDE DEF T
    <3> QED
      BY <2>1, LeastNumber
  <2>3. k \in 1 .. n /\ \A j \in 1 .. n : j < k => f[j] = g[j]
    BY <2>2
  <2>4. ~(f[k] < g[k]) /\ ~(g[k] < f[k])
    BY <1>1, <2>3
  <2>5. f[k] \in Nat /\ g[k] \in Nat
    BY <2>3
  <2> QED
    BY <2>2, <2>4, <2>5
<1>3. \A k \in 1 .. n : f[k] = g[k]
  BY <1>2
<1>4. QED
  BY <1>3

(* An increasing list names every place once.                               *)
LEMMA IncreasingInjection ==
  ASSUME NEW S \in SUBSET Nat, NEW n \in Nat, NEW f \in [1 .. n -> S],
         Increasing(f)
  PROVE  f \in Injection(1 .. n, S)
<1>1. ASSUME NEW j \in 1 .. n, NEW k \in 1 .. n, f[j] = f[k]
      PROVE  j = k
  <2>1. f[j] \in Nat /\ f[k] \in Nat
    OBVIOUS
  <2>2. ~(j < k) /\ ~(k < j)
    BY <1>1, <2>1 DEF Increasing
  <2> QED
    BY <2>2
<1>2. QED
  BY <1>1 DEF Injection, IsInjective

(* The queue of the refinement mapping is what any list of the live places  *)
(* shows.                                                                   *)
LEMMA ContentsShown ==
  ASSUME OInv, NEW at, Lists(at, outstanding, Live, Holding)
  PROVE  /\ Contents = Shown(at)
         /\ IsFiniteSet(Live) /\ Cardinality(Live) = Len(outstanding)
<1> DEFINE n == Len(outstanding)
           order == CHOOSE f \in [1 .. Cardinality(Live) -> Live] : Increasing(f)
<1>1. /\ n \in Nat /\ at \in [1 .. n -> Live] /\ Increasing(at)
      /\ \A p \in Live : \E k \in 1 .. n : at[k] = p
  BY LenProperties DEF OInv, Lists
<1>2. Live \in SUBSET Nat
  BY PlacesAreNumbers
<1>3. at \in Injection(1 .. n, Live) /\ at \in Surjection(1 .. n, Live)
  BY <1>1, <1>2, IncreasingInjection DEF Surjection
<1>4. ExistsBijection(1 .. n, Live)
  BY <1>3 DEF ExistsBijection, Bijection
<1>5. IsFiniteSet(Live) /\ Cardinality(Live) = n
  BY <1>1, <1>4, FS_NatBijection, FS_CountingElements
<1>6. /\ order \in [1 .. n -> Live] /\ Increasing(order)
  <2>1. \E f \in [1 .. n -> Live] : Increasing(f)
    BY <1>1
  <2> QED
    BY <1>5, <2>1
<1> HIDE DEF n, order
<1>7. \A p \in Live : \E k \in 1 .. n : order[k] = p
  <2>1. order \in Injection(1 .. n, Live)
    BY <1>1, <1>2, <1>6, IncreasingInjection
  <2>2. IsFiniteSet(1 .. n) /\ Cardinality(1 .. n) = n
    BY <1>1, FS_Interval
  <2>3. order \in Surjection(1 .. n, Live)
    BY <1>5, <2>1, <2>2, FS_Injection
  <2> QED
    BY <2>3 DEF Surjection
<1>8. order = at
  BY <1>1, <1>2, <1>6, <1>7, OneEnumeration
<1>9. Contents = [k \in DOMAIN order |-> Unflagged(Content(order[k]))]
  BY DEF Contents, order
<1>10. DOMAIN at = 1 .. n
  BY <1>1
<1>11. QED
  BY <1>5, <1>8, <1>9, <1>10 DEF Shown, n

-----------------------------------------------------------------------------
(* What the coprocessor holds fits its credits.                             *)

LEMMA HeldCount ==
  ASSUME IInv
  PROVE  IsFiniteSet(Held) /\ Cardinality(Held) \in Nat
         /\ Cardinality(Held) <= FifoDepth
<1> DEFINE inFifo == {p \in 0 .. FifoDepth - 1 : p < Occupancy}
           inPipe == {StagePlace(k) : k \in Filled(tag_pipe)}
           inCapture == IF capture = NoEntry THEN {} ELSE {CapturePlace}
           both == inFifo \cup inPipe
<1>1. Held = both \cup inCapture
  BY DEF Held, Filled
<1>2. /\ Occupancy \in Nat /\ NumStaged \in Nat /\ NumCaptured \in {0, 1}
      /\ credit = NumCaptured + NumStaged + Occupancy
      /\ credit \in Nat /\ credit <= FifoDepth
  BY StagedBound, Parameters DEF IInv, CreditExact
<1>3. IsFiniteSet(inFifo) /\ Cardinality(inFifo) = Occupancy
  <2>1. inFifo = 0 .. Occupancy - 1
    BY <1>2, Parameters
  <2>2. IsFiniteSet(0 .. Occupancy - 1)
        /\ Cardinality(0 .. Occupancy - 1) = Occupancy
    BY <1>2, FS_Interval
  <2> QED
    BY <2>1, <2>2
<1>4. IsFiniteSet(inPipe) /\ Cardinality(inPipe) \in Nat
      /\ Cardinality(inPipe) <= NumStaged
  <2> DEFINE f == [k \in Filled(tag_pipe) |-> StagePlace(k)]
  <2>1. f \in Surjection(Filled(tag_pipe), inPipe)
    BY DEF Surjection
  <2>2. IsFiniteSet(Filled(tag_pipe)) /\ Cardinality(Filled(tag_pipe)) = NumStaged
    BY StagesFinite, FS_Subset DEF Filled, NumStaged
  <2> HIDE DEF f, inPipe
  <2>3. IsFiniteSet(inPipe) /\ Cardinality(inPipe) <= NumStaged
    BY <2>1, <2>2, FS_Surjection
  <2> QED
    BY <2>3, FS_CardinalityType
<1>5. IsFiniteSet(inCapture) /\ Cardinality(inCapture) = NumCaptured
  BY FS_EmptySet, FS_Singleton DEF NumCaptured
<1> HIDE DEF inFifo, inPipe, inCapture
<1>6. /\ IsFiniteSet(both) /\ Cardinality(both) \in Nat
      /\ Cardinality(both) <= Occupancy + NumStaged
  <2>1. IsFiniteSet(both)
        /\ Cardinality(both) = Cardinality(inFifo) + Cardinality(inPipe)
                                 - Cardinality(inFifo \cap inPipe)
    BY <1>3, <1>4, FS_Union
  <2>2. Cardinality(inFifo \cap inPipe) \in Nat /\ Cardinality(both) \in Nat
    BY <1>3, <2>1, FS_Intersection, FS_CardinalityType
  <2> QED
    BY <1>2, <1>3, <1>4, <2>1, <2>2
<1> HIDE DEF both
<1>7. /\ IsFiniteSet(Held)
      /\ Cardinality(Held) = Cardinality(both) + Cardinality(inCapture)
                               - Cardinality(both \cap inCapture)
  BY <1>1, <1>5, <1>6, FS_Union
<1>8. Cardinality(both \cap inCapture) \in Nat /\ Cardinality(Held) \in Nat
  BY <1>6, <1>7, FS_Intersection, FS_CardinalityType
<1>9. QED
  BY <1>2, <1>5, <1>6, <1>7, <1>8, Parameters

LEMMA WithinCapacity ==
  ASSUME OInv
  PROVE  Len(outstanding) \in Nat /\ Len(outstanding) <= FifoDepth
<1>1. PICK at : Lists(at, outstanding, Live, Holding)
  BY DEF OInv, Followed
<1>2. Cardinality(Live) = Len(outstanding)
  BY <1>1, ContentsShown
<1>3. Live \in SUBSET Held
  BY DEF Live
<1>4. /\ IsFiniteSet(Held) /\ Cardinality(Held) \in Nat
      /\ Cardinality(Held) <= FifoDepth
  BY HeldCount DEF OInv
<1>5. Cardinality(Live) <= Cardinality(Held)
  BY <1>3, <1>4, FS_Subset
<1>6. Len(outstanding) \in Nat
  BY LenProperties DEF OInv
<1>7. QED
  BY <1>2, <1>4, <1>5, <1>6, Parameters

-----------------------------------------------------------------------------
(* The queue and the core's expectations, entry by entry.                   *)

\* The entry e stands for the expectation x and shows something that is held.
Matches(e, x) ==
  /\ e.id = x.id
  /\ e.committed <=> x.committed
  /\ \E p \in Held : Content(p).id = e.id /\ Content(p).data = e.data

Presents(c, q) ==
  /\ c \in Seq(Offload!Entry)
  /\ Len(c) = Len(q)
  /\ \A k \in 1 .. Len(q) : Matches(c[k], q[k])

(* The fields of an entry.                                                  *)
LEMMA EntryFields ==
  ASSUME NEW i \in Ids, NEW d \in Data, NEW b \in BOOLEAN
  PROVE  LET e == [id |-> i, data |-> d, committed |-> b]
         IN  e \in Offload!Entry /\ e.id = i /\ e.data = d /\ e.committed = b
BY DEF Offload!Entry

LEMMA ContentsPresent == OInv => Presents(Contents, outstanding)
<1> SUFFICES ASSUME OInv PROVE Presents(Contents, outstanding)
  OBVIOUS
<1> DEFINE n == Len(outstanding)
<1>1. PICK at : Lists(at, outstanding, Live, Holding)
  BY DEF OInv, Followed
<1>2. n \in Nat /\ DOMAIN outstanding = 1 .. n
  BY LenProperties DEF OInv
<1>3. ASSUME NEW k \in 1 .. n
      PROVE  /\ Unflagged(Content(at[k])) \in Offload!Entry
             /\ Matches(Unflagged(Content(at[k])), outstanding[k])
  <2>1. at[k] \in Live /\ at[k] \in Held /\ Content(at[k]).id = outstanding[k].id
    BY <1>1 DEF Lists, Holding, Live
  <2>2. Content(at[k]) \in Results
    BY <2>1, ContentType DEF OInv
  <2>3. outstanding[k].committed <=> outstanding[k].id \in committed
    BY <1>2 DEF OInv, CommitsSeen
  <2> DEFINE e == Unflagged(Content(at[k]))
  <2>4. /\ e.id = Content(at[k]).id /\ e.data = Content(at[k]).data
        /\ e.committed <=> Content(at[k]).id \in committed
        /\ e \in Offload!Entry
    <3> DEFINE i == Content(at[k]).id  d == Content(at[k]).data
               b == i \in committed
    <3>1. i \in Ids /\ d \in Data /\ b \in BOOLEAN
      BY <2>2 DEF Results
    <3>2. e = [id |-> i, data |-> d, committed |-> b]
      BY DEF Unflagged
    <3> HIDE DEF i, d, b, e
    <3>3. e \in Offload!Entry /\ e.id = i /\ e.data = d /\ (e.committed <=> b)
      BY <3>1, <3>2, EntryFields
    <3> QED
      BY <3>3 DEF i, d, b
  <2> HIDE DEF e
  <2>5. Matches(e, outstanding[k])
    BY <2>1, <2>3, <2>4 DEF Matches
  <2> QED
    BY <2>4, <2>5 DEF e
<1>4. Contents = [k \in 1 .. n |-> Unflagged(Content(at[k]))]
  BY <1>1, ContentsShown DEF Shown
<1> DEFINE c == [k \in 1 .. n |-> Unflagged(Content(at[k]))]
<1>5. c \in Seq(Offload!Entry) /\ Len(c) = n
  <2>1. \A k \in 1 .. n : Unflagged(Content(at[k])) \in Offload!Entry
    BY <1>3
  <2>2. c \in Seq(Offload!Entry)
    BY <1>2, <2>1, IsASeq
  <2>3. DOMAIN c = 1 .. n
    OBVIOUS
  <2> HIDE DEF c, n
  <2> QED
    BY <1>2, <2>2, <2>3, LenProperties
<1>6. \A k \in 1 .. n : c[k] = Unflagged(Content(at[k]))
  OBVIOUS
<1> HIDE DEF c
<1>7. Contents = c
  BY <1>4 DEF c
<1>8. QED
  BY <1>3, <1>5, <1>6, <1>7 DEF Presents

(* Taking the first, removing one and noting a decision.                    *)
LEMMA PresentsTail ==
  ASSUME NEW c, NEW q \in Seq(Expected), Presents(c, q), q # <<>>
  PROVE  Presents(Tail(c), Tail(q)) /\ c # <<>>
<1>1. /\ c \in Seq(Offload!Entry) /\ Len(c) = Len(q) /\ Len(q) \in Nat
      /\ \A k \in 1 .. Len(q) : Matches(c[k], q[k])
  BY LenProperties DEF Presents
<1>2. c # <<>>
  BY <1>1, EmptySeq
<1>3. /\ Tail(c) \in Seq(Offload!Entry) /\ Len(Tail(c)) = Len(c) - 1
      /\ Len(Tail(q)) = Len(q) - 1
      /\ \A k \in 1 .. Len(Tail(c)) : Tail(c)[k] = c[k + 1]
      /\ \A k \in 1 .. Len(Tail(q)) : Tail(q)[k] = q[k + 1]
  BY <1>1, <1>2, HeadTailProperties
<1>4. \A k \in 1 .. Len(Tail(q)) : k + 1 \in 1 .. Len(q)
  BY <1>1, <1>3
<1>5. QED
  BY <1>1, <1>2, <1>3, <1>4 DEF Presents

LEMMA PresentsRemove ==
  ASSUME NEW c, NEW q \in Seq(Expected), Presents(c, q), NEW j \in 1 .. Len(q)
  PROVE  Presents(RemoveAt(c, j), RemoveAt(q, j))
<1>1. /\ c \in Seq(Offload!Entry) /\ Len(c) = Len(q) /\ Len(q) \in Nat
      /\ \A k \in 1 .. Len(q) : Matches(c[k], q[k])
  BY LenProperties DEF Presents
<1>2. /\ RemoveAt(c, j) \in Seq(Offload!Entry)
      /\ Len(RemoveAt(c, j)) = Len(c) - 1
      /\ \A k \in 1 .. Len(c) - 1 :
           RemoveAt(c, j)[k] = c[IF k < j THEN k ELSE k + 1]
  BY <1>1, RemoveAtProperties
<1>3. /\ Len(RemoveAt(q, j)) = Len(q) - 1
      /\ \A k \in 1 .. Len(q) - 1 :
           RemoveAt(q, j)[k] = q[IF k < j THEN k ELSE k + 1]
  BY RemoveAtProperties
<1>4. ASSUME NEW k \in 1 .. Len(q) - 1
      PROVE  Matches(RemoveAt(c, j)[k], RemoveAt(q, j)[k])
  <2>1. (IF k < j THEN k ELSE k + 1) \in 1 .. Len(q)
    BY <1>1
  <2> QED
    BY <1>1, <1>2, <1>3, <2>1
<1>5. QED
  BY <1>1, <1>2, <1>3, <1>4 DEF Presents

LEMMA PresentsNoted ==
  ASSUME NEW c, NEW q \in Seq(Expected), Presents(c, q), NEW com \in Commits,
         NEW commits,
         \A k \in 1 .. Len(q) :
           q[k].id \in commits <=> com.valid /\ com.id = q[k].id
  PROVE  Presents(Offload!Decided(c, commits), Noted(com, q))
<1> DEFINE d == Offload!Decided(c, commits)
           r == Noted(com, q)
           n == Len(q)
           e(k) == [id |-> c[k].id, data |-> c[k].data,
                    committed |-> c[k].committed \/ c[k].id \in commits]
<1>1. /\ c \in Seq(Offload!Entry) /\ Len(c) = n /\ n \in Nat
      /\ DOMAIN c = 1 .. n
      /\ \A k \in 1 .. n : Matches(c[k], q[k])
      /\ \A k \in 1 .. n : c[k] \in Offload!Entry
  BY LenProperties, ElementOfSeq DEF Presents
<1>2. /\ Len(r) = n
      /\ \A k \in 1 .. n :
           /\ r[k].id = q[k].id
           /\ r[k].committed <=> q[k].committed \/ (com.valid /\ com.id = q[k].id)
  BY NotedProperties
<1>3. ASSUME NEW k \in 1 .. n
      PROVE  /\ e(k) \in Offload!Entry
             /\ [c[k] EXCEPT !.committed = @ \/ c[k].id \in commits] = e(k)
             /\ e(k).id = c[k].id /\ e(k).data = c[k].data
             /\ e(k).committed <=> c[k].committed \/ c[k].id \in commits
  <2> DEFINE i == c[k].id  f == c[k].data  b == c[k].committed \/ i \in commits
             x == e(k)
  <2>1. i \in Ids /\ f \in Data /\ b \in BOOLEAN
    BY <1>1 DEF Offload!Entry
  <2>2. c[k] \in [id : Ids, data : Data, committed : BOOLEAN]
    BY <1>1 DEF Offload!Entry
  <2>3. [c[k] EXCEPT !.committed = b] = [id |-> i, data |-> f, committed |-> b]
    <3> HIDE DEF b
    <3> QED
      BY <2>2
  <2>4. x = [id |-> i, data |-> f, committed |-> b]
    OBVIOUS
  <2> HIDE DEF b, i, f, x
  <2>5. x \in Offload!Entry /\ x.id = i /\ x.data = f /\ (x.committed <=> b)
    BY <2>1, <2>4, EntryFields
  <2> QED
    BY <2>3, <2>4, <2>5 DEF b, i, f, x
<1>4. d = [k \in 1 .. n |-> e(k)]
  BY <1>1, <1>3 DEF Offload!Decided
<1> HIDE DEF e, n
<1>5. [k \in 1 .. n |-> e(k)] \in Seq(Offload!Entry)
  BY <1>1, <1>3, IsASeq
<1>6. Len([k \in 1 .. n |-> e(k)]) = n
  BY <1>1
<1>7. \A k \in 1 .. n : d[k] = e(k)
  BY <1>4
<1> HIDE DEF d, r
<1>8. ASSUME NEW k \in 1 .. n PROVE Matches(d[k], r[k])
  <2>1. Matches(c[k], q[k]) /\ d[k] = e(k)
    BY <1>1, <1>7
  <2>2. q[k].id \in commits <=> com.valid /\ com.id = q[k].id
    BY DEF n
  <2> QED
    BY <1>2, <1>3, <2>1, <2>2 DEF Matches
<1>9. Presents(d, r)
  BY <1>2, <1>4, <1>5, <1>6, <1>8 DEF Presents
<1>10. QED
  BY <1>9 DEF d, r

-----------------------------------------------------------------------------
(* A clock cycle is a cycle of the queue.                                   *)

\* The ids that the commit kills and commits, in the words of XifOffload: an
\* instruction that was rejected is in no queue.
KilledIds(com) ==
  IF KillSeen(com) /\ com.id \in Undecided THEN {com.id} ELSE {}

CommittedIds(com) == IF com.valid /\ ~com.kill THEN {com.id} ELSE {}

ReturnedShown(rdy) == Offload!Returned(Contents, ResultTaken(rdy))

KeptShown(com, rdy) ==
  Offload!Decided(Offload!Killed(ReturnedShown(rdy), KilledIds(com)),
                  CommittedIds(com))

(* What the coprocessor still holds when it has handed back a result.       *)
LEMMA LeftShown ==
  ASSUME OInv, NEW rdy \in BOOLEAN
  PROVE  /\ Presents(ReturnedShown(rdy), Left(rdy))
         /\ ResultTaken(rdy) => Contents # <<>> /\ Contents[1].committed
<1>1. Presents(Contents, outstanding) /\ outstanding \in Seq(Expected)
  BY ContentsPresent DEF OInv
<1>2. CASE ~ResultTaken(rdy)
  BY <1>1, <1>2 DEF ReturnedShown, Offload!Returned, Left
<1>3. CASE ResultTaken(rdy)
  <2>1. outstanding # <<>> /\ outstanding[1].committed
    BY <1>3, PresentedFirst DEF ResultTaken
  <2>2. Presents(Tail(Contents), Tail(outstanding)) /\ Contents # <<>>
    BY <1>1, <2>1, PresentsTail
  <2>3. 1 \in 1 .. Len(outstanding)
    <3>1. Len(outstanding) \in Nat /\ Len(outstanding) # 0
      BY <1>1, <2>1, LenProperties, EmptySeq
    <3> QED
      BY <3>1
  <2>4. Contents[1].committed
    BY <1>1, <2>1, <2>3 DEF Presents, Matches
  <2> QED
    BY <1>3, <2>2, <2>4 DEF ReturnedShown, Offload!Returned, Left
<1>4. QED
  BY <1>2, <1>3

(* What is left has an id that is held when the cycle ends.                 *)
LEMMA LeftIds ==
  ASSUME OInv, NEW rdy \in BOOLEAN, NEW k \in 1 .. Len(Left(rdy))
  PROVE  Left(rdy)[k].id \in HeldIds(rdy)
<1>1. PICK at : Lists(at, Left(rdy), Remaining(rdy), Holding)
  BY LeftListed
<1>2. /\ at[k] \in Held /\ (at[k] = 0 => ~ResultTaken(rdy))
      /\ Content(at[k]).id = Left(rdy)[k].id
  BY <1>1 DEF Lists, Holding, Remaining, Live
<1>3. QED
  BY <1>2 DEF HeldIds

(* What it keeps in this cycle, the decision of the core noted.             *)
LEMMA KeptPresents ==
  ASSUME OInv, NEW rdy \in BOOLEAN, NEW req \in CoreRequests(HeldIds(rdy)),
         NEW com \in CoreCommits(req, HeldIds(rdy)), com \in Commits
  PROVE  Presents(KeptShown(com, rdy), Noted(com, Kept(com, rdy)))
<1> DEFINE left == Left(rdy)
           c == ReturnedShown(rdy)
           kills == KilledIds(com)
           at == {k \in DOMAIN c : c[k].id \in kills}
           kept == Kept(com, rdy)
           d == Offload!Killed(c, kills)
<1>1. /\ Presents(c, left) /\ left \in Seq(Expected) /\ Len(left) \in Nat
      /\ DOMAIN left = 1 .. Len(left)
  BY LeftShown, LeftListed
<1>2. /\ DOMAIN c = 1 .. Len(left)
      /\ \A k \in 1 .. Len(left) : c[k].id = left[k].id
  BY <1>1, LenProperties DEF Presents, Matches
<1>3. \A k \in 1 .. Len(left) : KillOf(com, left[k].id) <=> left[k].id \in kills
  <2> SUFFICES ASSUME NEW k \in 1 .. Len(left)
               PROVE  KillOf(com, left[k].id) <=> left[k].id \in kills
    OBVIOUS
  <2>1. left[k].id \in HeldIds(rdy)
    BY LeftIds
  <2>2. com.valid => com.id \in Undecided \/ com.id \notin HeldIds(rdy)
    BY DecidesAnother
  <2> QED
    BY <2>1, <2>2 DEF KillOf, KillSeen, KilledIds
<1>4. KilledAt(com, left) = at
  BY <1>1, <1>2, <1>3 DEF KilledAt
<1>5. d = IF at = {} THEN c ELSE RemoveAt(c, CHOOSE k \in at : TRUE)
  BY DEF Offload!Killed, Offload!RemoveAt, RemoveAt
<1>6. kept = IF at = {} THEN left ELSE RemoveAt(left, CHOOSE k \in at : TRUE)
  <2> DEFINE K == KilledAt(com, left)
  <2>1. kept = IF K = {} THEN left ELSE RemoveAt(left, CHOOSE k \in K : TRUE)
    BY DEF Kept, Spared
  <2>2. K = at
    BY <1>4
  <2> HIDE DEF K, kept, at
  <2> QED
    BY <2>1, <2>2
<1>7. at \subseteq 1 .. Len(left)
  BY <1>2
<1> HIDE DEF at, d, kept, c, left
<1>8. Presents(d, kept)
  <2>1. CASE at = {}
    BY <1>1, <1>5, <1>6, <2>1
  <2>2. CASE at # {}
    <3> DEFINE j == CHOOSE k \in at : TRUE
    <3>1. j \in 1 .. Len(left)
      BY <1>7, <2>2
    <3>2. d = RemoveAt(c, j) /\ kept = RemoveAt(left, j)
      BY <1>5, <1>6, <2>2
    <3> HIDE DEF j
    <3> QED
      BY <1>1, <3>1, <3>2, PresentsRemove
  <2> QED
    BY <2>1, <2>2
<1>9. kept \in Seq(Expected) /\ DOMAIN kept = 1 .. Len(kept)
  BY KeptListed, LenProperties DEF kept
<1>10. \A k \in 1 .. Len(kept) :
         kept[k].id \in CommittedIds(com) <=> com.valid /\ com.id = kept[k].id
  <2> SUFFICES ASSUME NEW k \in 1 .. Len(kept)
               PROVE  ~KillOf(com, kept[k].id)
    BY DEF CommittedIds, KillOf, KillSeen
  <2>1. PICK a0 : Lists(a0, kept, Surviving(com, rdy), Holding)
    BY KeptListed DEF kept
  <2>2. a0[k] \in Surviving(com, rdy) /\ Content(a0[k]).id = kept[k].id
    BY <2>1 DEF Lists, Holding, Surviving, Live
  <2> QED
    BY <2>2 DEF Surviving
<1>11. Presents(Offload!Decided(d, CommittedIds(com)), Noted(com, kept))
  BY <1>8, <1>9, <1>10, PresentsNoted
<1>12. QED
  BY <1>11 DEF d, c, kept, KeptShown

(* A committed instruction is not killed (CORE-V-XIF).                      *)
LEMMA CommittedNotKilled ==
  ASSUME OInv, NEW com
  PROVE  \A k \in DOMAIN Contents :
           Contents[k].committed => Contents[k].id \notin KilledIds(com)
<1> SUFFICES ASSUME NEW k \in DOMAIN Contents, Contents[k].committed,
                    Contents[k].id \in KilledIds(com)
             PROVE  FALSE
  OBVIOUS
<1>1. Presents(Contents, outstanding) /\ outstanding \in Seq(Expected)
  BY ContentsPresent DEF OInv
<1>2. DOMAIN Contents = 1 .. Len(outstanding)
      /\ DOMAIN outstanding = 1 .. Len(outstanding)
  BY <1>1, LenProperties DEF Presents
<1>3. outstanding[k].id = Contents[k].id /\ outstanding[k].committed
  BY <1>1, <1>2 DEF Presents, Matches
<1>4. PICK l \in DOMAIN outstanding :
        outstanding[l].id = Contents[k].id /\ ~outstanding[l].committed
  BY DEF KilledIds, Undecided
<1>5. QED
  BY <1>2, <1>3, <1>4 DEF OInv, CommitsSeen

(* The same facts after a step.                                             *)
LEMMA ContentsPresentNext == OInv' => Presents(Contents, outstanding)'
BY ContentsPresent, PTL

LEMMA WithinCapacityNext == OInv' => (Len(outstanding) <= FifoDepth)'
<1>1. OInv => Len(outstanding) <= FifoDepth
  BY WithinCapacity
<1>2. QED
  BY <1>1, PTL

(* What is kept is shown unchanged after the cycle, but for its decision.   *)
LEMMA KeptUnchanged ==
  ASSUME OInv, OInv', NEW req \in Requests, NEW com \in Commits,
         NEW rdy \in BOOLEAN, req \in CoreRequests(HeldIds(rdy)),
         com \in CoreCommits(req, HeldIds(rdy)), Cycle(req, com, rdy),
         NEW k \in 1 .. Len(Kept(com, rdy)),
         NEW a \in Offload!Entry, Matches(a, Noted(com, Kept(com, rdy))[k]),
         NEW b \in Offload!Entry, b.id = a.id, b.committed <=> a.committed,
         NEW m \in Held', Content(m)'.id = b.id, Content(m)'.data = b.data
  PROVE  a = b
<1> DEFINE kept == Kept(com, rdy)
           noted == Noted(com, kept)
<1>1. CoprocStep(req, com, rdy) /\ IInv /\ IInv' /\ CaptureUnused /\ DistinctIds
      /\ DistinctIds'
  BY DEF Cycle, OInv
<1>2. PICK p \in Held : Content(p).id = a.id /\ Content(p).data = a.data
  BY DEF Matches
<1>3. PICK a0 : Lists(a0, kept, Surviving(com, rdy), Holding)
  BY KeptListed
<1>4. kept \in Seq(Expected) /\ noted[k].id = kept[k].id
  BY KeptListed, NotedProperties
<1>5. a0[k] \in Surviving(com, rdy) /\ a0[k] \in Held
      /\ Content(a0[k]).id = kept[k].id
  BY <1>3 DEF Lists, Holding, Surviving, Live
<1>6. a.id = kept[k].id
  BY <1>4 DEF Matches
<1>7. p = a0[k]
  BY <1>1, <1>2, <1>5, <1>6 DEF DistinctIds
<1>8. p \in Surviving(com, rdy) /\ p \in Staying(com, rdy)
  BY <1>5, <1>7, SurvivingStays
<1>9. Moved(p, rdy) \in Nat /\ Moved(p, rdy) < NewPlace /\ NewPlace \in Nat
  BY <1>1, <1>8, LiveNext
<1>10. PICK s \in 0 .. NewPlace : s = Moved(p, rdy)
  BY <1>9
<1>11. s \in Held' /\ Content(s)' = Content(p)
  BY <1>1, <1>8, <1>10, MovedContent
<1>12. \A x, y \in Held' : Content(x)'.id = Content(y)'.id => x = y
  BY <1>1 DEF DistinctIds
<1>13. m = s
  BY <1>2, <1>11, <1>12
<1>14. Content(m)' = Content(s)'
  BY <1>13
<1>15. a.id = b.id /\ a.data = b.data /\ (a.committed <=> b.committed)
  BY <1>2, <1>11, <1>14
<1>16. a \in [id : Ids, data : Data, committed : BOOLEAN]
       /\ b \in [id : Ids, data : Data, committed : BOOLEAN]
  BY DEF Offload!Entry
<1>17. QED
  BY <1>15, <1>16

(* The queue after a cycle.                                                 *)
LEMMA ContentsNext ==
  ASSUME OInv, OInv', NEW req \in Requests, NEW com \in Commits,
         NEW rdy \in BOOLEAN, req \in CoreRequests(HeldIds(rdy)),
         com \in CoreCommits(req, HeldIds(rdy)), Cycle(req, com, rdy)
  PROVE  \/ Contents' = KeptShown(com, rdy)
         \/ \E new \in Offload!NewEntry :
              /\ new.id \notin Offload!IdsOf(ReturnedShown(rdy))
              /\ Contents' = Append(KeptShown(com, rdy), new)
<1> DEFINE kept == Kept(com, rdy)
           noted == Noted(com, kept)
           r == KeptShown(com, rdy)
           n == Len(kept)
           q == Contents'
           x == NewExpected(req)
<1>1. /\ noted \in Seq(Expected) /\ Len(noted) = n /\ n \in Nat
      /\ x \in Expected
      /\ outstanding' = IF Accept(req) THEN Append(noted, x) ELSE noted
  BY OutstandingNext, KeptListed, LenProperties DEF Cycle
<1>2. /\ r \in Seq(Offload!Entry) /\ Len(r) = n
      /\ \A k \in 1 .. n : Matches(r[k], noted[k]) /\ r[k] \in Offload!Entry
  <2>1. Presents(r, noted)
    BY KeptPresents
  <2> HIDE DEF r, noted, n
  <2>2. r \in Seq(Offload!Entry) /\ Len(r) = n
        /\ \A k \in 1 .. n : Matches(r[k], noted[k])
    BY <1>1, <2>1 DEF Presents
  <2> QED
    BY <2>2, ElementOfSeq
<1>3. /\ q \in Seq(Offload!Entry) /\ Len(q) = Len(outstanding')
      /\ \A k \in 1 .. Len(outstanding') :
           /\ q[k] \in Offload!Entry
           /\ q[k].id = outstanding'[k].id
           /\ q[k].committed <=> outstanding'[k].committed
           /\ \E m \in Held' : Content(m)'.id = q[k].id /\ Content(m)'.data = q[k].data
  <2>1. Presents(Contents, outstanding)'
    BY ContentsPresentNext
  <2>2. /\ q \in Seq(Offload!Entry) /\ Len(q) = Len(outstanding')
        /\ \A k \in 1 .. Len(outstanding') :
             /\ q[k].id = outstanding'[k].id
             /\ q[k].committed <=> outstanding'[k].committed
             /\ \E m \in Held' : Content(m)'.id = q[k].id
                                  /\ Content(m)'.data = q[k].data
    BY <2>1 DEF Presents, Matches
  <2> HIDE DEF q
  <2> QED
    BY <2>2, ElementOfSeq
<1> HIDE DEF r, q, x, n
<1>4. ASSUME NEW k \in 1 .. n, k \in 1 .. Len(outstanding'),
             outstanding'[k] = noted[k]
      PROVE  r[k] = q[k]
  <2>1. r[k] \in Offload!Entry /\ Matches(r[k], noted[k])
    BY <1>2
  <2>2. PICK m \in Held' : Content(m)'.id = q[k].id /\ Content(m)'.data = q[k].data
    BY <1>3, <1>4
  <2>3. q[k] \in Offload!Entry /\ q[k].id = r[k].id
        /\ (q[k].committed <=> r[k].committed)
    BY <1>3, <1>4, <2>1 DEF Matches
  <2>4. k \in 1 .. Len(Kept(com, rdy))
    BY DEF n
  <2> QED
    BY <2>1, <2>2, <2>3, <2>4, KeptUnchanged
<1>5. CASE ~Accept(req)
  <2>1. q = r
    BY <1>1, <1>2, <1>3, <1>4, <1>5, SeqEqual
  <2> QED
    BY <2>1 DEF q, r
<1>6. CASE Accept(req)
  <2> DEFINE new == q[n + 1]
             t == Append(r, new)
  <2> HIDE DEF noted
  <2>1. /\ Len(outstanding') = n + 1
        /\ \A k \in 1 .. n : outstanding'[k] = noted[k]
        /\ outstanding'[n + 1] = x
    BY <1>1, <1>6, AppendProperties
  <2>2. /\ new \in Offload!Entry /\ new.id = req.id /\ ~new.committed
    BY <1>1, <1>3, <2>1 DEF x, NewExpected
  <2>3. new \in Offload!NewEntry
    <3>1. new \in [id : Ids, data : Data, committed : BOOLEAN]
      BY <2>2 DEF Offload!Entry
    <3> HIDE DEF new
    <3>2. new.committed = FALSE
      BY <2>2, <3>1
    <3> QED
      BY <3>1, <3>2 DEF Offload!NewEntry
  <2>4. new.id \notin Offload!IdsOf(ReturnedShown(rdy))
    <3> DEFINE c == ReturnedShown(rdy)
    <3>1. /\ Presents(c, Left(rdy)) /\ Left(rdy) \in Seq(Expected)
          /\ Len(Left(rdy)) \in Nat
      BY LeftShown, LeftListed
    <3>2. DOMAIN c = 1 .. Len(Left(rdy))
          /\ \A k \in 1 .. Len(Left(rdy)) : c[k].id = Left(rdy)[k].id
      BY <3>1, LenProperties DEF Presents, Matches
    <3>3. \A k \in DOMAIN c : c[k].id # req.id
      BY <1>6, <3>2, LeftIds, AcceptedRequest
    <3> QED
      BY <2>2, <3>3 DEF Offload!IdsOf
  <2>5. q = t
    <3>1. /\ t \in Seq(Offload!Entry) /\ Len(t) = n + 1
          /\ \A k \in 1 .. n : t[k] = r[k]
          /\ t[n + 1] = new
      BY <1>2, <2>2, AppendProperties
    <3>2. ASSUME NEW k \in 1 .. n + 1 PROVE q[k] = t[k]
      <4>1. CASE k = n + 1
        BY <3>1, <4>1
      <4>2. CASE k # n + 1
        <5>1. k \in 1 .. n
          BY <1>1, <4>2
        <5>2. r[k] = q[k]
          BY <1>4, <2>1, <5>1
        <5> QED
          BY <3>1, <5>1, <5>2
      <4> QED
        BY <4>1, <4>2
    <3> HIDE DEF t
    <3> QED
      BY <1>3, <2>1, <3>1, <3>2, SeqEqual
  <2> QED
    BY <2>3, <2>4, <2>5 DEF q, r
<1>7. QED
  BY <1>5, <1>6

(* A cycle of the coprocessor and its core is a cycle of the queue.         *)
LEMMA CycleOffloads ==
  ASSUME OInv, OInv', NEW req \in Requests, NEW com \in Commits,
         NEW rdy \in BOOLEAN, req \in CoreRequests(HeldIds(rdy)),
         com \in CoreCommits(req, HeldIds(rdy)), Cycle(req, com, rdy)
  PROVE  Offload!Next
<1> DEFINE ret == ResultTaken(rdy)
           commits == CommittedIds(com)
           kills == KilledIds(com)
<1>1. ret \in BOOLEAN
  BY DEF ResultTaken, ResultValid
<1>2. commits \in Offload!AtMostOne(Ids) /\ kills \in Offload!AtMostOne(Ids)
  BY DEF Commits, CommittedIds, KilledIds, Offload!AtMostOne
<1>3. ret => Contents # <<>> /\ Contents[1].committed
  BY LeftShown
<1>4. \A k \in DOMAIN Contents : Contents[k].committed => Contents[k].id \notin kills
  BY CommittedNotKilled
<1>5. Len(Contents') <= FifoDepth
  <2>1. Presents(Contents, outstanding)' /\ Len(outstanding') <= FifoDepth
    BY ContentsPresentNext, WithinCapacityNext
  <2> QED
    BY <2>1 DEF Presents
<1>6. \/ Contents' = KeptShown(com, rdy)
      \/ \E new \in Offload!NewEntry :
           /\ new.id \notin Offload!IdsOf(ReturnedShown(rdy))
           /\ Contents' = Append(KeptShown(com, rdy), new)
  BY ContentsNext
<1>7. /\ ReturnedShown(rdy) = Offload!Returned(Contents, ret)
      /\ KeptShown(com, rdy)
           = Offload!Decided(Offload!Killed(Offload!Returned(Contents, ret), kills),
                             commits)
  BY DEF ReturnedShown, KeptShown
<1> HIDE DEF ret, commits, kills
<1>8. Offload!Cycle(Contents, Contents')
  BY <1>1, <1>2, <1>3, <1>4, <1>5, <1>6, <1>7 DEF Offload!Cycle
<1>9. QED
  BY <1>8 DEF Offload!Next

(* Out of reset the queue is empty.                                         *)
LEMMA InitOffloads == Init => Offload!Init
<1> SUFFICES ASSUME Init PROVE Contents = <<>>
  BY DEF Offload!Init
<1>1. OInv /\ outstanding = <<>>
  BY InitOrder DEF Init
<1>2. Presents(Contents, outstanding)
  BY <1>1, ContentsPresent
<1>3. Contents \in Seq(Offload!Entry) /\ Len(Contents) = 0
  BY <1>1, <1>2, EmptySeq DEF Presents
<1>4. QED
  BY <1>3, EmptySeq

(* A step that leaves the registers alone leaves the queue alone.           *)
LEMMA ShownNext ==
  OInv' => (\A at : Lists(at, outstanding, Live, Holding) => Contents = Shown(at))'
<1>1. OInv => \A at : Lists(at, outstanding, Live, Holding) => Contents = Shown(at)
  BY ContentsShown
<1>2. QED
  BY <1>1, PTL

LEMMA StutterOffloads == OInv /\ OInv' /\ UNCHANGED vars => UNCHANGED Contents
<1> SUFFICES ASSUME OInv, OInv', UNCHANGED vars PROVE Contents' = Contents
  OBVIOUS
<1>1. UNCHANGED <<capture, datapath, tag_pipe, killed, committed, fifo, wr_ptr,
                  rd_ptr, outstanding>>
  BY DEF vars, coprocVars
<1>2. Held' = Held
  BY <1>1 DEF Held, Occupancy
<1>3. ASSUME NEW p PROVE Content(p)' = Content(p)
  BY <1>1 DEF Content, InFifo, PtrAfter, Slot, InStage, InCapture
<1>4. Live' = Live /\ Holding' = Holding
  BY <1>1, <1>2, <1>3 DEF Live, Holding
<1>5. PICK at : Lists(at, outstanding, Live, Holding)
  BY DEF OInv, Followed
<1>6. Lists(at, outstanding', Live', Holding')
  BY <1>1, <1>4, <1>5
<1>7. Contents = Shown(at) /\ Contents' = Shown(at)'
  BY <1>5, <1>6, ContentsShown, ShownNext
<1>8. ASSUME NEW p PROVE Unflagged(Content(p))' = Unflagged(Content(p))
  BY <1>1, <1>3 DEF Unflagged
<1>9. Shown(at)' = Shown(at)
  BY <1>1, <1>8 DEF Shown
<1>10. QED
  BY <1>7, <1>9

(* The coprocessor of rope_xif_coproc.sv, with any core that follows the    *)
(* protocol, is a bounded in-order queue of offloaded instructions: what it *)
(* holds, in the order of its places, is the queue.                         *)
THEOREM CoprocOffloads == Spec => OffloadSpec
<1>1. Init => Offload!Init
  BY InitOffloads
<1>2. OInv /\ OInv' /\ [Next]_vars => [Offload!Next]_Contents
  BY NextIsCycle, CycleOffloads, StutterOffloads
<1>3. QED
  BY <1>1, <1>2, OrderInvariant, PTL DEF Spec, OffloadSpec, Offload!Spec

=============================================================================
