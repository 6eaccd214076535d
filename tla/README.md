# A TLA+ verification of the CV32E40X with the RoPE coprocessor

The repository is the CV32E40X, a 32-bit in-order RISC-V core with a four-stage pipeline, with a
coprocessor attached to its eXtension interface (CORE-V-XIF): `rope-bf16/`, which rotates a pair of
BF16 numbers by an angle (`ROPE.ROT`, the rotary position embedding of language models). The core's
RTL is in `rtl/`, the coprocessor's in `rope-bf16/rtl/`, `rope_cv32e40x_wrapper.sv` joins them, and
`rope-bf16/model/` holds the golden model in Python the hardware must match bit by bit.

What is hard to get right, and hard to test, is of two kinds. Between core, coprocessor and the two
buses it is *order*: an instruction is offloaded before the core knows that it will retire, a store
is answered before the bus has taken it, fetches of an abandoned path are answered after the branch,
and stalls, kills, interrupts and slow memory come in between. In the arithmetic it is *boundaries*:
ties, carries into the next binade, subnormals, double rounding, reflection in a table, wrap-around
of a phase. The specifications here model the first cycle by cycle and compare the second over every
operand of a small format.

## 1. Inventory

### 1.1 The coprocessor side (`rope-bf16`)

| component | state | operations | what makes it correct |
|---|---|---|---|
| `rope_xif_coproc` | operand capture, tag pipe, `killed_q`/`committed_q` per id, result FIFO with two pointers, `credit_q` | one clock edge with the issue, commit and result channels as inputs | every committed instruction gets its own result, in order, once; a killed one leaves none; nothing overflows; credits are exact |
| theta prefetch (same file) | `m_q`, `i_q`, `theta_q`, `desync_q`, `recover_q` | advance at an acceptance, resync, mark as suspect at a kill | a rotation is a function of its operands, whatever the order of `(m, i)` |
| `rope_datapath` | valid and data registers, `1 + 2*NumPipeRegs` stages | shifts in every cycle, cannot be stalled | a result meets the tag it entered with |
| `rope_phase_gen` | an accumulator per pair (sequential mode) | product, or clear and step | both modes give the phase of the token |
| `rope_sin_lut`, ROMs | none | address, reflection, sign | the entry is that of the angle |
| BF16 units, `fpnew_fma` | none but pipeline registers | multiply, add, fused | one rounding, as the golden model's |
| golden model (`model/*.py`, `gen/*.py`) | none | rounding, BF16 operations, phase, tables, rotation of pairs and heads, generated vectors | IEEE rounding; the models agree with each other |
| C driver (`sw/rope_intrin.h`, `test_rope.c`) | the head in memory | rotates it in place, pair by pair | the golden head, in both layouts |
| `rope_cv32e40x_wrapper` | none | joins the channels, ties off the unused ones | |

### 1.2 The core side (`rtl`)

| component | state | operations | hard behaviour |
|---|---|---|---|
| IF stage | IF/ID register, XIF id counter in it | deliver, bubble, killed, halted | an id may not be reused while it is under way |
| ID stage | ID/EX register, `xif_accepted_q`/`xif_rejected_q` | offer to the coprocessor, remember the answer while EX is stalled | answer and operands used in another cycle than the one they are given in |
| EX stage | EX/WB register | leave for WB, start accesses, divide | in lock step with WB |
| WB stage | sticky load response | retire, wait for a load or a result | waits without a way out |
| load/store unit | outstanding counter, `trans_valid_q`, split state, merge register | request, response, two halves | no request withdrawn or repeated; half an access |
| response filter, write buffer | two counters, shift register of bufferable flags, one buffered store | early and hidden responses | counters may not drift apart |
| MPU, watchpoints | state machine of a blocked access | block, answer in order | answer after the earlier accesses, and answer |
| fetch (prefetch unit, prefetcher, alignment buffer, OBI) | FIFO of three words, counters of instructions, outstanding fetches and responses to drop | fetch, branch, response | late responses of an abandoned path |
| sequencer | position in a push/pop/move | expand | interrupted only before its first operation |
| controller FSM | RESET, BOOT_SET/FUNCTIONAL, SLEEP, DEBUG_TAKEN; sticky flags; commit flags | interrupts, NMI, debug, exceptions, fence, branches, CSR flush, commit | priorities; halting without a deadlock; commit exactly once |
| controller bypass | none | hazard stalls, forwarding | stall for whatever has no result yet |
| interrupt controllers, CSRs, triggers, ALU, multiplier, divider, decoders, register file, sleep unit | architectural state, data | | |

### 1.3 Interaction

Everything is clocked by one clock, so the unit of interleaving is the cycle: in each one every
stage may be valid, halted or killed, the coprocessor may take, retire or return an instruction, the
buses may grant or answer, the fetch side may deliver or not, an interrupt may arrive. The channels:

* **issue** (ID to coprocessor): `issue_valid`, operands and id; `issue_ready` and `accept` come
  back in the same cycle. A ready that is withheld stalls ID.
* **commit** (controller to coprocessor): one `commit_valid` with `commit_kill` for each instruction
  that was issued and reached EX; no ready.
* **result** (coprocessor to WB): `result_valid` is waited for in WB with `result_ready` high.
* **data side** (EX to bus to WB): load/store unit, watchpoint unit, MPU, response filter, write
  buffer, OBI. Each may take a transfer or let it pass; each may answer one.
* **fetch side** (alignment buffer to bus to IF): prefetcher, MPU, OBI interface, which holds a
  request from the cycle it was made until it is granted.
* compressed and memory channels of the extension interface are tied off in the wrapper.
* **software and hardware** meet in the vectors: the Python writes operands and expected results,
  the test bench or the C program feeds the hardware and compares.

`PROJECT.json` lists every component with its status and every hazard with its line.

## 2. Modules

### 2.1 Offload

| module | models | is used by |
|---|---|---|
| `RopePrefetch` | the prefetch registers and checks | `RopeXif` |
| `RopeXif` | the coprocessor: one operator per `always_ff` block or combinational signal, `CoprocStep` is a clock edge; what it holds, place by place; the properties of it alone | `RopeXifProtocol`, `RopeSystem` |
| `RopeXifProtocol` | the coprocessor under *any* core that follows the protocol; its properties towards the core; refinement mapping | `MCRopeXif`, `RopeXifProtocolProofs`, `RopeSystem` (as `Protocol`) |
| `XifOffload` | abstract specification: a bounded in-order queue of offloaded instructions | `RopeXifProtocol` (as `Offload`) |
| `CorePipeline` | IF/ID, ID/EX, EX/WB, controller, bypass, load/store unit, as far as the offload path goes | `RopeSystem` |
| `RopeSystem` | the wrapper: pipeline and coprocessor joined, with memory, fetch and interrupt around them; system properties | `MCRopeSystem` |
| `RopeXifProofs` | lemmas about `RopeXif`, whatever drives it: credits, pointers, places | `RopeXifProtocolProofs`, `RopeSystemProofs` |
| `RopeXifProtocolProofs` | theorems about `RopeXifProtocol`: credits, what the coprocessor holds and in which order, whose result is presented, the refinement of `XifOffload` | |
| `RopeSystemProofs` | theorems about `RopeSystem`: the pipeline, what the coprocessor holds of it, whose result WB is handed, that the core keeps to the protocol | |

### 2.2 Data side and fetch side

| module | models | is used by |
|---|---|---|
| `LsuPath` | the way of a load or store: both halves of the load/store unit, watchpoint unit, MPU, response filter, write buffer, and what the controller halts and kills | `MCLsuPath`, `LsuPathProofs` |
| `DataPort` | abstract specification: three queues, of what the core waits for, what the bus is owed, and what the bus has taken | `LsuPath` (as `Port`) |
| `LsuPathProofs` | the invariant of the path and its refinement of `DataPort`; the path and the pipeline: what is killed, held and merged | |
| `Fetch` | alignment buffer, prefetcher, MPU and OBI interface of the instruction side | `MCFetch` |
| `FetchStream` | abstract specification: the instructions at the pc, one after the other | `Fetch` (as `Stream`) |
| `FetchProofs` | the invariant of the fetch side, the count, the refinement of `FetchStream` | |

### 2.3 Numerics

| module | models | is used by |
|---|---|---|
| `Powers` | the laws of powers of two, up to a largest exponent | `RopePhase`, `Bf16` |
| `FloatFormat` | a binary float format of any widths as bit patterns; IEEE rounding as a *relation* (`RoundsTo`) and as a function | `Bf16`, `Bf16Fma`, `FpnewFma` |
| `Bf16` | `model/bf16.py` with its reference rounding | `Bf16Fma` |
| `Bf16Fma` | `model/bf16_fma.py`: exact integer path and FP64 shortcut | `RopeRotate` |
| `FpnewFma` | `fpnew_fma.sv` for round-to-nearest-even: aligned adder, leading zeros, normalisation, rounding; the operands `rope_bf16_unit` gives it | `RopeRotate` |
| `RopePhase` | phase tables and `phase_of`, `rope_phase_gen` with its accumulators, addressing of the sine table in Python and RTL | `RopeRotate` |
| `RopeRotate` | the rotation of a pair: models A, A-prime and B of `rope_ref.py`, and `rope_datapath` with operand packing | `RopeBench` |
| `RopeHead` | the rotation of a head: golden gather/scatter, Hugging Face form, permutation of the weights, and the C loop in place | `RopeBench` |
| `RopeBench` | the vector generators and test benches: enumerates the lines of each file | `MCRopeBench` |
| `FloatProofs` | lemmas about a float format of any widths, and about the datapath of `FpnewFma`: what rounds to nearest | `RopeUnitsProofs` |
| `RopeModelProofs` | theorems about the bench, the phase, the tables, rounding and the rotation of pairs and heads | `RopeUnitsProofs` |
| `RopeUnitsProofs` | theorems about the units: each rounds once, as the golden model does | |

`MCRopeXif`, `MCRopeSystem`, `MCLsuPath`, `MCFetch` and `MCRopeBench` are the finite instances.

**A step is a clock cycle** in all of 2.1 and 2.2. The inputs of the cycle are chosen with `\E`; the
combinational signals are operators with the names of the signals where TLA+ allows; the registers
are the variables. In `RopeXif`, `CoprocStep(req, com, rdy)` is one edge for the issue request, the
commit and `result_ready` of that cycle; in `CorePipeline`, `CorePipelineStep(in, iss)` is one edge
for what comes from outside and for the coprocessor's answer. `RopeSystem!Cycle` conjoins the two,
each fed with the other's outputs. There is no combinational cycle: `result_valid` depends on
coprocessor registers only, the issue request on it through `WB ready` and the stalls, the answer on
the request, the commit on the core's registers. What IF delivers is chosen only in cycles in which
ID takes it (`Delivered`): in the others it makes no difference.

In `LsuPath` the inputs of the present cycle are themselves a variable, `in`, chosen with the step
that leads to it: so an invariant may speak of the combinational signals of a cycle. `waiting`,
`owed`, `granted` and `begun` are variables the code does not have; they record what an observer at
either end sees and nothing of the path reads them.

**Data** are abstracted to what the properties tell apart. A result of the coprocessor is the record
of the operands it was computed from (`x`, `m`, and the pair whose ROM word was used as theta), so
"the right result" is an equation between records. In `CorePipeline` an instruction is a kind, the
value its `rs1` ought to have, and whether the instruction *just before it* writes that register;
`StaleValue` is what is read when the producer has no result yet. `sent` in its ID/EX record is a
variable the code does not have: it remembers that the bus accepted a transaction of the load in EX.
In `LsuPath` a transfer is an access, a half of it and an attribute: plain, bufferable, blocked by
the PMA, matched by a watchpoint. In `Fetch` a memory word says of each half whether it begins a
32-bit instruction, and its faults; addresses count halfwords and wrap at the end of memory. In the
numeric modules nothing is abstracted: the patterns, the integers and the shifts are those of the
code, at other widths.

**Kinds of instruction** (`CorePipeline`): `rot`; `illegal` (offloaded, rejected, an exception in
WB); `csr` (offloaded, rejected, executed by the core); `load`; `div` (any that stays in EX);
`branch` (a taken one: kills IF and ID); `fence` (halts the pipeline in WB until the load/store unit
is idle, then flushes); `alu`.

**The protocol module** says what the coprocessor may assume: ids that are not in use, commits in
issue order, a kill for an instruction that was rejected. That the real core keeps to it is not
assumed but checked, and proved of the prefetch build (5.2): `KeepsProtocol` states that every step of `RopeSystem` is a step of
`RopeXifProtocol`, with `outstanding` mapped to the rotations in the core's pipeline registers.

## 3. Runs

### 3.1 The coprocessor under any core (`MCRopeXif`)

| run (cfg) | instance | shows |
|---|---|---|
| `coproc` (`MCRopeXif.cfg`) | capture build, 3 ids, FIFO 2, latency 1, two words; `FairSpec` | `TypeOK`, `CreditExact`, `NoOverflow`, `TagsAligned`, `ResultIsOwn`, `CommitsSeen`; `CommittedReturns`, `CreditsComeBack` |
| `coproc_prefetch` (`RopeXifPrefetch.cfg`) | prefetch build, 2 ids, latency 3, one word, 2 positions x 2 pairs in any order | `ThetaCurrent`; `OffloadSpec`: it implements `XifOffload` |

An id is reused at the soonest in the cycle in which the result of its previous user is taken
(`HeldIds`). With the prefetch a result differs from another by its pair and position, so one word
is enough for a wrong one to show.

All sizes are small: 2 to 4 ids, a FIFO of 2 or 4 slots (the code: 16 ids, 8 slots). The arithmetic
of ids, pointers and credits is modular, and with fewer ids and slots every wrap-around, full FIFO
and reuse of an id happens within a few cycles, which with the code's sizes it would not. In the
second instance the datapath could hold more instructions than the FIFO has slots, and a kill can
find an instruction in each of its stages.

`ThetaCurrent` is `theta_q = theta[i_q]` *once the prefetch is trusted*. The comment at
`rope_xif_coproc.sv:177` claims it "at all times, including out of reset"; the code's own comment at
lines 249-252 withdraws that for reset, and during a resync it does not hold either, which is why
`ThetaSel` takes the other ROM port then. That is a matter of wording and is not listed as a finding.
`SteadyRequests` in this run says that after a resync the same rotation is offered again; without it
see `other_rotation` below.

The protocol commits an instruction in the cycle after its issue at the soonest, which is what this
core does. The header of `rope_xif_coproc.sv` (line 25) promises more, that a commit "may arrive
coincident with or after issue"; the code clears both flags of an id when it accepts it (line 402), so
a coincident commit would be lost. No core in the repository sends one.

### 3.2 Core and coprocessor (`MCRopeSystem`)

| run (cfg) | instance | shows |
|---|---|---|
| `sys_prefetch` (`SysPrefetch.cfg`) | prefetch build; `csr`, `fence`, `illegal`, `rot`; interrupts, fetch bubbles | `AlwaysWritesRd`, `ZeroWbStall`, `NoOrphan`, `KeepsProtocol` |
| `sys_capture` (`SysCapture.cfg`) | capture build (the default of the wrapper); `branch`, `load`, `rot`; interrupts, bubbles; spaced; `FairSpec` | `OwnResult`, `KeepsProtocol`, `CommitIsFinal`; `RotationRetires`, `InterruptTaken` |
| `sys_loads` (`SysLoads.cfg`) | prefetch build, 4 ids, FIFO of 4; `load`, `rot`; slow memory, bubbles | `OneTransaction` |

Each run states only what holds in its instance; section 4 shows why it may not be stated of the
others. The common condition of the passing runs is that *EX is never stalled behind a rotation that
has just been accepted in ID*: in the prefetch build a rotation never waits in WB, so it is enough
that memory is fast; in the capture build a rotation waits one cycle in WB, so rotations have to be
kept apart by two instructions (`SpacedRotations`). `sys_loads` has slow memory. That a load is put
on the bus once needs there that nothing accepted is killed in ID, so it has no interrupts: with them
the result of a killed rotation stays in the FIFO (`stuck` below), a later rotation waits in WB, and
a load behind it in EX, granted but not able to leave, is requested again. It takes more than two ids
for that, so the instance has four. `CommitIsFinal` needs no such condition and is proved of every
instance; the others are proved under conditions that say what the instances have in common (5.2).

Kinds are spread over the runs to keep each to a minute or two; each hazard needs a rotation and one
or two kinds beside it. `FetchBubbles`, `SlowMemory` and `Interrupts` are turned on wherever the
question depends on them. In `RopeSystem` all rotations have the same `(m, i)`, so that only the kill
check of the prefetch is at work; its value check is covered by `coproc_prefetch`.

### 3.3 Loads and stores (`MCLsuPath`)

| run (cfg) | instance | shows |
|---|---|---|
| `lsu_path` (`MCLsuPath.cfg`) | loads `fault`, `plain,plain`, `watch,plain`; stores `buffered`, `buffered,fault`; traps, fences, CSR writes, interrupts, debug requests; `FairSpec` | `TypeOK`, `AnswerIsOwn`, `KillsNothingBegun`, `FenceDrains`; `ImplementsDataPort`, `RequestHeld`; `AccessEnds` |

The depth of two is the code's. The five accesses have each attribute, alone or in the first or
second half of a split one, so that a gate may be reached with another transfer, buffered or not,
under way. The bus grants and answers in whatever cycle it likes; `in.gnt` is looked at only with a
request, as the protocol has it. The controller is reduced to what reaches the data side: an
interrupt or NMI, a halt request of the debugger, an exception of the instruction in WB, a
watchpoint, a fence, and the CSR stall, with `DEBUG_TAKEN` one cycle after the halt.

* `ImplementsDataPort`: the core is answered once for each transfer, in order; the bus sees each one
  that is not blocked once and in order; only a bufferable store is answered before the bus has
  answered. This is where the two counters and the shift register of the filter could drift apart.
* `AnswerIsOwn`: the status of an answer is that of the transfer it is for, and the second half of
  a split load is merged with the data of its own first half.
* `KillsNothingBegun`: no instruction is killed whose transfer is under way, through the two steps
  of debug entry too; `RequestHeld` is the same seen from the bus: an OBI request stays as it is
  until it is granted.
* `FenceDrains`: when a fence retires nothing before it is left, not in the write buffer either.

### 3.4 Instruction fetch (`MCFetch`)

| run (cfg) | instance | shows |
|---|---|---|
| `fetch` (`MCFetch.cfg`) | three words, 32 memories: 16- and 32-bit instructions at all alignments, one word blocked or answered with a bus error; `FairSpec` | `CountIsExact`; `ImplementsStream`; `FetchGoesOn` |

The FIFO of three words and the two outstanding fetches are the code's. Three words that wrap are
enough for an instruction to straddle any two, for the buffer to hold all there are, and for a branch
to go to a word that is in the buffer, on its way, or neither. A branch, or a pointer fetch of the
interrupt table, may come in any cycle. A word that may not be fetched shows arbitrary data, so what
its halves seem to be may not matter. Outside reset the controller sets the pc exactly when it kills
IF, so the two are one input.

`ImplementsStream` is the promise to IF: the instructions of the current path in order, each of its
own words with their faults, whatever is still to be answered for an abandoned path. `CountIsExact`
relates the incremental count of complete instructions, which is updated a cycle late, to the
contents of the FIFO: it decides whether anything is fetched at all.

### 3.5 The golden model and the hardware (`MCRopeBench`)

| run (cfg) | instance | shows |
|---|---|---|
| `golden_bench` (`MCRopeBench.cfg`) | see below | `RoundingIsNearest`, `UnitsRoundOnce`, `FmaRoundsOnce`, `PhaseIsExact`, `LutFoldsTheAngle`, `InstructionMatches`, `QuarterTurnExact`, `InPlaceIsGolden`, `LayoutsAgree`, `HalfSplitIsHuggingFace` |

`RopeBench` is the generator of the vectors as a state machine: it chooses the file, then the operands
of a line. Where the generator draws at random, every operand is possible. The invariants compare what
is computed from the operands in different ways: the golden model, the hardware, and rounding as a
relation (a pattern is the rounding of a value that lies between its two midpoints), which shares
nothing with either.

The widths are constants, kept in the relations they have in the code:

| | code | instance |
|---|---|---|
| BF16 exponent, significand bits | 8, 7 | 4, 2 |
| low half of FP32 (`LowBits`) | 16 = 2(7+1) | 6 = 2(2+1) |
| FP64 exponent, significand bits | 11, 52 | 5, 22 |
| binades of the FP64 shortcut | 20 = 3*8 - 4 | 5 = 3*3 - 4 |
| phase, table, position bits | 32, 10, 16 | 8, 2, 7 |
| pairs, tokens of a sequence | 64, any | 3, 12 |
| bits of an integer of the models (`MaxBits`) | any | 30 |

`MaxBits` bounds the bits of the integers exact values are kept in, where Python has none; the
assumptions about it say that everything the models compute fits.

With them every significand, tie, carry, subnormal, overflow and NaN payload occurs, and in the fused
run every distance between product and addend. Where the FP64 shortcut stops matters: checked with
larger values of `Binades`, it first gives a wrong result at `3p - 1` (23 in the code, with
p = ManBits + 1), because the FP64 sum is narrowed through FP32 and that rounds twice, long before
the "53-bit budget" named in the comment at `bf16_fma.py:184` is used up. The code's limit of 20 is
on the safe side of both.

`PhaseIsExact` has the sequential accumulators step and restart pair by pair, over the wrap of the
word; `InPlaceIsGolden` has the C loop rotate a head of six elements in place, in both layouts, with
integers modulo 3 and a matrix of its own for each pair, so that an element read after it was
overwritten shows.

### 3.6 Fairness

* `RopeXifProtocol!FairSpec`: `WF(ReadyCycle)`. The clock runs, and WB holds `result_ready` high until
  the result is there (`wb_stage.sv:237`: it does not depend on anything but the instruction in WB).
  Nothing is assumed of commits or of new instructions.
* `CreditsComeBack` has a condition of its own, `WF(DecidingCycle)`: the core decides the instructions
  it offloaded, which every pipeline that is not stalled for ever does in EX. An undecided
  instruction keeps its credit.
* `RopeSystem!FairSpec`: the clock runs, and in cycles that go on being possible the data bus answers
  and a division ends (`AnsweringCycle`). That the fetch side ever delivers anything, or that
  interrupts stop, is not assumed.
* `LsuPath!FairSpec`: `[]<><<Answers>>_clk`: infinitely many clock edges come with a bus that grants
  what is requested and answers what it has taken. `clk` changes in every cycle, so that a cycle in
  which no register changes counts as one.
* `Fetch!FairSpec`: `WF(ServingCycle)`: the clock runs, and unless the pc is set for ever there are
  cycles in which the controller wants instructions, IF takes them and the bus grants and answers.
  `FetchGoesOn` excludes what follows a pointer, where the buffer waits for the controller.

Every cycle is enabled in every reachable state, so deadlock checking is on in all runs.

## 4. Findings

Each is a run that is expected to be violated, on one property taken from a comment or a document of
the repository. They concern the two designs as they are wired together.

| run (cfg) | property | what the code does |
|---|---|---|
| `other_rotation` (`RopeXifOtherRotation.cfg`) | `ResultIsOwn` | After a resync, `recover_q` suppresses both checks for the next rotation, whichever it is. If the one the state was adopted from was withdrawn by a branch or an interrupt, another one is computed with its `m` and `i`. |
| `lost_write` (`SysLostWrite.cfg`) | `AlwaysWritesRd` | `xif_we` is only valid in the cycle of the request; an accepted rotation that had to wait in ID loses its register write. With `rf_we` the hazard check of the *next* instruction is lost as well: `OwnResult` fails with slow memory for the same reason. |
| `stale_operand` (`SysStaleOperand.cfg`) | `OwnResult` | Behind an unfinished division the operand on the issue channel is marked valid and is not. |
| `stuck` (`SysStuck.cfg`) | `RotationRetires` | The result of a rotation that was killed without a commit stays at the head of the FIFO; the next rotation waits in WB for ever, with interrupts blocked. |

Two causes lie behind `stuck`. A rotation that was accepted while EX is stalled (behind a slow load, or
a rotation waiting in WB) and is then killed in ID gets no commit, although
`cv32e40x_controller_fsm.sv:1458` says that every issue transaction has one: `NoOrphan` does not hold
with slow memory. And with a fetch bubble at the wrong moment two rotations have one id, because the id
is incremented only if IF delivers as the first one leaves ID (`cv32e40x_if_stage.sv:526`): in the
capture build with rotations back to back the kill of one may then meet the other.

A further instance is worth a note and has no run of its own: in the capture build with `load` and
`rot` back to back (4 ids, FIFO of 4, fast memory, no interrupts or bubbles) `OneTransaction` is
violated. A load in EX behind a rotation waiting in WB is granted and, not being able to leave EX,
requested again (`cv32e40x_load_store_unit.sv:552`). It disappears when rotations are kept apart.

## 5. Proofs

All theorems hold for every value of the constants, under the assumptions named in the modules;
most of those about core and coprocessor together have hypotheses on the constants besides (5.2).

### 5.1 The coprocessor (`RopeXifProofs`, `RopeXifProtocolProofs`)

For every set of ids, FIFO depth, number of pipeline registers, set of operands, build and core:

* `InductiveInvariant`: `Spec => []IInv`,
* `CreditsExact`, `FifoNeverOverflows`, `TagsNeverSlip`: `Spec => []CreditExact`, `[]NoOverflow`,
  `[]TagsAligned`;
* `OrderInvariant`: `Spec => []OInv`, and from it `TypesHold` (`TypeOK`), `NoCommitIsLost`
  (`CommitsSeen`), `ThetaIsCurrent` (`ThetaCurrent`) and `ResultsAreInOrder`: what is presented is
  the result of the oldest instruction waited for, and that one is committed;
* `ResultsAreOwn`: `OwnOperands` implies `Spec => []ResultIsOwn`;
* `CoprocOffloads`: `Spec => OffloadSpec`, the refinement of `XifOffload`.

Assumptions: `PrefetchAssumption`, `CoprocAssumption` (at least one id, a FIFO of at least one slot,
`NoEntry` different from every entry) and `ProtocolAssumption`.

`IInv` is the conjunction of the types of the registers, `TagsAligned`, `CreditExact` and
`credit <= FifoDepth`. None of the three properties is inductive alone. A push needs a free slot, else
the pointers overtake each other and `Occupancy` is no longer what it counts; there is a slot because
a result in the last stage is one of those the credits count besides the FIFO (`RoomToPush`), which
needs the exact count and its bound; the count stays exact because a result always leaves together
with its tag, so that it is either pushed or retired (`PushOrRetire`), which is `TagsAligned`; and
`credit_q`, which is as wide as a pointer, does not wrap because it stays within `0 .. FifoDepth`. The
one fact about a pipeline that is not arithmetic is `ShiftCount`: a shift changes the number of filled
stages by what enters and what leaves, by a bijection between the stages before and after. The step
lemma `StepInv` does not look at the core at all: it holds for every request, commit and
`result_ready` (`NextIsCycle` says that a step is a cycle for some of them), so the theorems hold of
the coprocessor under a core that does not follow the protocol, too.

**Order.** The coprocessor is seen as a row of places: slots of the FIFO from the head, stages of the
datapath from the last to the first, capture registers. `Held` are those that are filled, `Live` those
whose instruction is not killed, and `Followed` says that an increasing list of the live places holds
just what `outstanding` does. That it is a *list* (`Lists`) and not an equation is what the proof
needs: a cycle moves every place towards the head (`MovedContent`), keeps their order, and removes or
adds one (`ListsWithout`, a kill or a taken result; a new one goes behind all others), so it maps a
list to a list, and nothing has to be known of the one that `Contents` chooses. The other conjuncts of
`OInv` are what a step needs besides: one id for one place (`DistinctIds`), or a kill would hit two
and a list lose two places for one instruction; flags that say what the core decided
(`CommitsSeen`), or the head could be presented undecided; filled FIFO slots that hold entries
(`FifoFilled`), an empty capture register with the prefetch (`CaptureUnused`), and the prefetched word
(`ThetaCurrent`), which makes the word a rotation enters the datapath with that of its pair.

The order, the ids and the commits hold whatever the prefetch does. That the *operands* are the
instruction's own is the hypothesis `OwnOperands` at work: without the prefetch nothing is needed,
with it the value check has to be built in and the core has to offer the rotation of a resync again
(`UsePrefetch => UseValueCheck /\ SteadyRequests`). The run `other_rotation` is the counterexample
without the last part, and the negative test of the repository the one without the first.

**Refinement.** The queue of `XifOffload` is what the places show, read along the list. `Contents`
chooses an increasing list of the live places, so the proof first shows that there is only one
(`OneEnumeration`); then a cycle of the coprocessor is one of the queue: a pop presents and removes
the head, a kill removes an entry wherever it is, an acceptance appends, and the bound of the queue
holds because the held places are counted by the credits.

### 5.2 Core and coprocessor (`RopeSystemProofs`)

For every number of ids, FIFO depth, program, memory and interrupts, in either build:

* `CoreInvariant`: `Spec => []CoreInv`, and from it `CommitsAreFinal`: `Spec => CommitIsFinal`;
* `CoprocInvariant`: `Spec => []IInv`, the credits of 5.1 under this core. `StepInv` asks nothing of
  the core but inputs of the right type.

What else the two sides agree on does not hold of every build and program (section 4), so the rest is
proved under conditions on the constants that leave out what the findings are about, and more than
that: the capture build, and pipeline registers in the datapath, of which some hold with rotations kept
apart. They are hypotheses of the theorems, and the runs `sys_prefetch` and `sys_loads` are instances that meet them:

* `Direct`: the prefetch build with no pipeline registers and at least two ids. In the capture build a
  rotation waits in WB, and with it EX; then one that is accepted behind it waits in ID, loses its
  write (`lost_write`) or is killed untold (`stuck`).
* `NeverKilled` (no interrupts, no `branch`, `fence` or `illegal`) or `FastPath` (fast memory, no
  `div`). A rotation waits in ID behind a slow load or a division; if it may be killed there, its result
  is orphaned.
* `Agreeing`: the prefetch checks values, or has one pair.

With `DirectBuild == Direct /\ (NeverKilled \/ FastPath)`: `DirectInvariant`, and from it `NeverStallsWb`
(`ZeroWbStall`), `LoadsOnce` (`OneTransaction`) and `NothingOrphaned` (`NoOrphan`). With
`FastBuild == Direct /\ FastPath`, under every interrupt, branch, fence, exception and bubble:
`RotationsWrite` (`AlwaysWritesRd`), `CoreKeepsProtocol` (`KeepsProtocol`), and with `Agreeing` too
`ResultsAreOwn` (`OwnResult`).

**The pipeline alone.** `CommitIsFinal` is not inductive: what saves a rotation that was told to commit
and is still in EX is what it waits for. It was told in a cycle in which the controller neither halted
nor killed, so that no fence and no exception was in WB; and it stayed only because WB was not ready,
for a rotation or an outstanding load in it. Either keeps interrupts off, and nothing can take its
place in WB before the one in EX does (`CommittedInv`).

**What the coprocessor holds of the pipeline.** `HeldInOrder` is the heart of `DirectInv`: the slots of
the FIFO and the one stage of the datapath hold as many entries as the pipeline has accepted rotations;
the head is that of the oldest, what is in the datapath, or behind the head, that of the youngest. WB
thus finds its result in the cycle in which it comes to need it and never waits for a rotation. So a load leaves WB when it is answered, and the one in EX is either sent and behind one that
is unanswered, or not sent (`LoadsInv`): that is why no load is sent twice, although the code does not
remember that it was sent. A kill in EX breaks the count for one cycle: the entry of the killed rotation
is in the FIFO, and everything behind it was killed with it, so nothing is offered before it is drained
(`Draining`). A kill in ID would break it for good. On the fast path there is nothing accepted in ID
(`RegimeInv`), because EX is ready whenever the controller does not halt it (`FastEx`). The two
rotations in the pipeline differ in their ids (`IdsInv`), or the kill of one could hit the other.

**Whose result.** That an operand is finished needs `AlwaysWritesRd`: the stall behind a rotation in EX is
taken only if that one is known to write (`FreshOperand`). `DataInv` then follows the word from the
datapath to the head of the FIFO.

**The protocol.** `Pending` is what the registers hold; `PendingStep` shows that a cycle changes it as
`RopeXifProtocol` has it, that is, that a rotation enters when it is accepted, is marked when `commit_valid` is
given, leaves when its result is taken or when it is killed, and by nothing else; `OffersFreshId` and
`DecidesOldest` show that what the core drives is among what a core may drive. `Protocol`, an instance,
has operators of its own for the coprocessor, and `SameCoproc` states that they are the same.

### 5.3 The load/store path (`LsuPathProofs`)

For every set of accesses, and every behaviour of bus, interrupts and debugger, under `LsuAssumption`
(the depth is two, loads are not bufferable, an access has one or two transfers):

* `PathInvariant`: `Spec => []PathInv`, and from it `PathTypes` (`TypeOK`) and `FencesDrain`
  (`FenceDrains`);
* `PathIsPort`: `Spec => ImplementsDataPort`, the refinement of `DataPort`;
* `PipelineInvariant`: `Spec => []CycleInv`, and from it `AnswersAreOwn` (`AnswerIsOwn`),
  `NothingBegunIsKilled` (`KillsNothingBegun`) and `RequestsAreHeld` (`RequestHeld`).

`PathInv` says how the five counts of the path agree. The load/store unit counts what the filter still
has to answer and one for each gate that holds a transfer (`GatesInv`; a gate that waits is the second
of two, one that answers is alone). What the filter has answered but the bus has not are bufferable
transfers at the old end of the shift register (`FilterInv`), which is why no answer comes without a
transfer. What the filter counts towards the bus is on the bus or in the write buffer (`BufferInv`),
and what the unit counts is what the core waits for (`WaitInv`). A fence that has seen the unit idle
keeps it so, because it halts EX (`FenceInv`). Counters alone do not give the order. For the
refinement `OrderInv` adds that the transfers on the bus and in the buffer, oldest first (`BusAt`),
are what the core waits for first, offset by the early answers; that the shift register says which of
them are bufferable; and that what a gate holds is the newest. A step then maps to one of
`DataPort`: what is taken from EX passes exactly if `DataPort` lets it (`OnlyPassing`), an answer is
for the oldest and in time (`OldestAnswered`), and the bus is sent the oldest it is owed
(`OldestSent`).

`CycleInv` adds `PipeInv`, which relates the path to the pipeline. WB holds the access of the oldest
transfer waited for (`WbInv`). An access that is offered or has begun stays in EX, and what is in WB
then is nothing, or a load or store that is not blocked, so that no exception, fence or watchpoint in WB
can halt or kill it (`EngagedInv`); an interrupt, NMI or debug request looks at `trans_valid_q` and at
the counter itself. Debug is entered with nothing under way (`DebugInv`), which is why the kill that
comes a cycle after the halt hits nothing. `HalvesInv` follows the two halves of a split access: as
long as the first is waited for, the second is the one in EX, and once it is answered its data are in
`rdata_q` until the second is. `EngagedGoes` draws the conclusion the theorems share: the controller
lets go on what is offered or begun. For `RequestHeld` a request is at the bus interface in the write
buffer, which holds it, or comes from EX, which by the same lemma offers it again unchanged.

### 5.4 Instruction fetch (`FetchProofs`)

For every number of words and every set of memories that `Memories` may be, under `FetchAssumption`
(there is a word):

* `FetchInvariant`: `Spec => []FetchInv`;
* `CountIsRight`: `Spec => []CountIsExact`;
* `FetchIsStream`: `Spec => ImplementsStream`, the refinement of `FetchStream`.

`FetchInv` has one conjunct per question. The words in the FIFO are contiguous, and with the fetches
for the current path that are under way they are at most three (`FifoInv`). What the buffer counts as
outstanding is on the bus, in the bus interface or in the MPU, which answers when its fetch is the only
one left (`FlightInv`). The words in the FIFO, behind them those under way, behind these the next one
to be fetched follow each other on the path, and a word that may be fetched is what memory holds
(`PathInv`); the fetches of an abandoned path are the first `n_flush_q` of those under way, and nothing
is said of them. Before the first branch nothing is fetched, and a pointer is fetched alone
(`ModeInv`). The write side runs a small machine over the halfwords, aligned, in the upper half of a
word, or in the middle of an instruction; its state is the one that the buffered words lead to from
the pc, and `instr_cnt_q`, less the instruction handed over in the last cycle, is the number of
instructions that end in them (`CountInv`).

The conjuncts depend on each other in one place: that a third or fourth word finds room (`FifoInv`)
rests on the count, because a fetch is made only if no instruction is counted, or one and nothing is under way, and
`Filled` words hold at least `Filled - 1` instructions. A branch is proved once (`BranchCycle`), for it sets up all
conjuncts afresh. A cycle maps to `SetPc` if the pc is set, to `Deliver` if an instruction is
taken, and to `Idle` otherwise. `CountIsExact` counts by a recursive function over the halfwords of
the FIFO; there are six at most, so the function is written down value by value (`RestExists`,
`RestCounts`) and no induction is needed.

### 5.5 Rotation of a head (`RopeModelProofs`)

For every head size, set of values, rotation of a pair, and table of cosines and sines, under
`HeadDimAssumption` (the size is even and not zero) and the other assumptions of `RopeHead`:

* `HeadInvariant` and `HeadInPlace`: the C loop in place computes the golden vector in both layouts.
  The invariant says of every element that it is golden if its pair has been rotated and as given
  otherwise; it rests on each element belonging to one pair (`PairElements`, `ElementsPaired`).
* `LayoutsAreOne`: the interleaved rotation of a head is the half-split rotation of the permuted one.
* `HalfSplitIsTheirs`: over the integers the half-split rotation is the Hugging Face formula
  (which holds for exact arithmetic only; the code compares floats within a tolerance).

### 5.6 Phase, tables and arithmetic (`RopeModelProofs`)

What the bench compares line by line in 3.5 holds for every width, table and operand. `BenchInvariant`
says what the operands of a line are; each theorem then rests on constant lemmas about its operators.

* `SequenceIsExact` and `PhaseExact`: both modes of the phase generator hold the exact phase. A summand
  may be reduced modulo a turn first (`ReducedSum`), and the product of the hardware is as wide as its
  factors together (`HardwarePhase`).
* `LutFolds`: a turn is four quarters of as many buckets as the table has entries (`TurnDivides`); for
  a phase of quarter `q` and bucket `i`, both the Python and the slices of the hardware give entry and sign of
  the folded angle (`TableFolds`, `PathFolds`, `PathAnswers`).
* `RoundsToNearest`: `f32_to_bf16` is round-to-nearest-even and the test suite's reference. A pattern is taken
  apart into sign, field and significand (`Parts`); adding half a unit less one carries exactly when
  it has to (`CarryRounds`); the result lies between the midpoints around it, in its binade, across
  its end, and at infinity (`NearestMagnitude`).
* `QuarterTurns`: the three models turn exactly. Products, sums and the fused operation treat both halves of
  the number line alike (`ProductFlips`, `SumFlips`, `FmaAlike`), up to the sign of a zero and to
  NaNs, and so does narrowing (`NarrowedOpposite`); half a turn on, the table gives the other sign
  (`HalfTurnOn`).

That the units agree with the golden model's operations (`UnitsAgree`) is the subject of 5.7;
`InstructionFollowsUnits` shows what is left for the instruction to return the golden result:
unpacking, phase, both lookups, the operands of the six operations and their order, and packing.

`RoundMagnitude` chooses the length of a number in bits; that it exists is a minimum of a set of
naturals (`LeadingBit`). The prover knows a type for a power of two and nothing else: the laws of
`PowersOfTwo` are assumed up to the exponent a module declares (`PhasePowers`, `BitsAssumption`); they
hold of every exponent, and TLC evaluates them. The other assumptions say that the widths are those of a
format (`WidthAssumption`), that exact values fit in `MaxBits` (`BitsAssumption`, `FmaAssumption`), that
the table holds sines between 0 and 1 and the index of a pair fits its field (`SineAssumption`), and
that operands drawn are patterns and positions (`OperandsAssumption`).

### 5.7 The units round once (`FloatProofs`, `RopeUnitsProofs`)

For all operands, and all widths within the assumptions below:

* `UnitsRound` (`UnitsRoundOnce`): product, sum and difference, computed in FP32 and narrowed, are what
  FPnew's datapath gives for the operands `rope_bf16_unit` hands it, with subnormals flushed or not;
  a finite product is the pattern nearest to the exact one.
* `FmaRounds` (`FmaRoundsOnce`): the exact integer path, the FP64 shortcut where it is taken, and FPnew's
  aligned addition give one result, the nearest to the exact `a*b +- c` if the operands are finite.
* `InstructionRight` (`InstructionMatches`): the instruction returns the golden result in both variants.

Exact values are counted in a unit so small (`Unit`, a quarter of the smallest product's last place) that
every product, pattern and midpoint is a natural number of them. `Nearest(v, b, n)` says that v lies
between the midpoints around the magnitude n, on one only if n is even; it is `RoundsTo` without
negative exponents (`NearestRounds`), and at most one n satisfies it (`NearestUnique`). `Once` says of a
result that it is nearest to the exact value and has its sign. Two results that satisfy it are equal
(`OnceUnique`), so it is enough to show it of each way to compute one:

* **FPnew** (`FiniteRounds`, `UnitOnce`). Whichever operand is larger, after alignment and both
  normalisations the vector holds the exact value in units of its last bit, what was shifted out being
  one sticky bit that stands for less than a unit (`Scaled`, `VectorRounds`). Cancellation, a subnormal
  result, an addend far above the product (`FarVector`) and one far below it are cases of their own.
* **The integer path** (`ExactOnce`). Its two branches are rounding onto the grid of the binade and
  onto the subnormal grid; a carry out of either lands on the first pattern of the next.
* **Through FP32** (`MulOnce`, `AddOnce`). A value that is clear of every midpoint of two BF16 patterns by
  more than a fence, half a place of FP32 below it, or on it, is not moved onto or across one
  by rounding to FP32 first (`RoundedTwice`). Products of p digits and sums of two patterns are clear
  (`Clear`), since `LowBits` is twice p.
* **Through FP64** (`DoubleOnce`). With product and addend no further apart than `Binades` the sum is exact
  in FP64, and what is left is the detour through FP32; it is clear of the midpoints while `Binades` is
  at most `LowBits + ManBits - 1`.

Zeros, infinities and NaNs are compared case by case (`FmaAgrees`).

The assumptions are about widths only. `DetourAssumption` (`LowBits >= 2p`) and `ShortcutAssumption` are
what makes the detours safe. With the widths of BF16, FP32 and FP64 they read 16 >= 16 and Binades <= 22,
36 <= 53 and 155 <= 1023 for the 20 binades of the code: the proof needs what TLC found to be needed,
3p - 2 binades at most, as 3p - 1 gives wrong results (3.5). `FmaAssumption` makes `MaxBits` large enough
(any number from 925 on will do for the widths of the code); besides, FP64 reaches below the smallest
product of two patterns (-1074 <= -266) and FP32 does not (16 <= 134).

### 5.8 Only model-checked

* Core and coprocessor outside the conditions of 5.2: `OwnResult` and `KeepsProtocol` in the capture build
  with rotations kept apart are checked by `sys_capture` only.
* Liveness: `CommittedReturns`, `CreditsComeBack`, `RotationRetires`, `InterruptTaken`, `AccessEnds`,
  `FetchGoesOn`. What recursive functions compute for every input is out of the prover's reach.

## 6. What is not modelled

* In the core: sleep, CLIC pointers, jumps, push, pop and double moves, table jumps, `fence.i`,
  single step and the CSR-induced flush; the decoders, CSRs, triggers, interrupt controllers, ALU,
  multiplier, divider and register file. Debug entry and NMI are modelled where they meet the data
  side, not at the offload path, where their kills have the form of those of an interrupt.
* Of the data side: atomics with the alignment check, the memory channel of the extension interface
  (tied off in the wrapper), and which address has which attribute (PMA, trigger addresses).
* Of the fetch side: the privilege level that goes with a fetch.
* The three parts of the core are separate models: `CorePipeline` has its own abstraction of the
  load/store unit (aligned loads, one counter) and of fetch (any instruction or none), which are
  what `DataPort` and `FetchStream` promise; they are not composed in one state space.
* Dependences in `CorePipeline` reach back one instruction only: older producers are in WB or have
  retired, and the stall and forwarding conditions for them are the same expressions.
* `UseValueCheck = 0`, which the repository calls a negative test; `FifoDepth` not a power of two.
* Of the numerics: rounding modes and formats that the units do not use; the real-valued sine and
  frequencies, which the tables are given as; `characterize.py` (statistics of errors over random
  inputs), `find_m_near_45deg` (a search for test operands), `verify_encoding.py`, `conf.py`, file
  formats, random draws.

## 7. Plan

1. **Proofs**: the capture build with rotations kept apart (`OwnResult`, `KeepsProtocol`), where an
   invariant has to say how far apart they are; the prefetch build with slow memory and kills, for what
   holds there before the first orphan.
2. **Controller**: sleep, CLIC pointers, CSR flush, `fence.i`, single step, with the priorities as an
   abstract specification; debug entry at the offload path.
3. **Sequencer, divider, multiplier, interrupt controllers** as small machines; the interruption of
   a push or pop is the one listed hazard without a property.
