# Verification of the Markov load value predictor project

The repository implements a Markov load value predictor (LVP) in gem5 and
measures it. Five parts of it have state of their own and can go wrong in ways
a test hardly reaches: the predictor (two tables and a set of counters), the
places in the out-of-order (O3) CPU that call it, the CPU's renaming, reorder
buffer (ROB) and commit, on which the calls at commit rely, the branch
prediction unit with its speculative histories, and the Python supervisor that
runs hundreds of simulations in a pool. This directory models them in TLA+,
checks the models with TLC and proves their main properties with TLAPS.

## Inventory

| Part | Source | State | Operations |
| --- | --- | --- | --- |
| Predictor | `gem5-fresh/src/cpu/markov_lvp.{hh,cc}` | value history table (one entry per load PC: last value, ring of strides, pending prediction), Markov table (stride, confidence), eight counters | `predict`, `update` |
| Context hash | `markov_lvp.cc`, `hashContext` | none | hash of pc and strides, masked |
| Calls from the pipeline | `o3/iew.cc`, `o3/lsq_unit.cc`, `o3/dyn_inst.hh` | load queue, sequence numbers | dispatch, execute, writeback, retire, `commitLoad`, `squash` |
| Renaming, ROB, commit | `o3/rename.cc`, `rename_map.*`, `free_list.hh`, `rob.cc`, `commit.cc` | rename map, free list, history buffer, registers being freed, ROB and its squash iterator, commit status and map, signals between stages | rename, undo, free, ROB squash, squash sources, commit, trap |
| Branch prediction | `pred/bpred_unit.*`, `ras.*`, `simple_indirect.*`, `tage_base.*`, `tage.cc`, `o3/bac.cc`, `o3/decode.cc` | records of predictions, circular return stack, TAGE's direction buffer, path and folded histories, the indirect predictor's direction register and queue of targets, squash signals of decode and commit | `predict`, `squash` with and without correction, `update` |
| Supervisor | `run.py`, `launch.py`, `jobs.py` | run objects, gem5 processes, `info.json`, `results.zip`, SIGTERM handler | `run`, `dumpJson`, `saveResults`, handler |
| Machine configuration, plots, benchmarks | `gem5-config`, `plots.py`, `scripts.py`, `microbenchmark` | none | not modelled |

How they interact: a load that is not a microop asks for a prediction at
dispatch and trains the predictor at writeback; every load trains it at commit
and then asks again. On X86, the ISA the project measures, every load is a
microop, so only the commit calls remain. The supervisor's workers each run one
gem5 process at a time and interact only through signals and files. The branch
prediction unit is called by BAC, the stage before fetch: for a prediction when
fetch meets a branch, and a cycle after decode or commit has sent a squash or
the number of the last instruction committed.

What is hard here: loads write back out of order and are squashed at any time;
one load may train twice; a prediction may be replaced, or charged to another
load, before it is evaluated; the confidence counter is 8 bits wide and its
ceiling is not; a SIGTERM may arrive between any two steps of a run, in
particular before the handler is installed, while a file is being rewritten, or
after the run has ended. A branch changes six histories when it is predicted, on
a path that may be wrong; a squash undoes each of them in its own way, and a
mistake shows only as a worse prediction rate, which no test compares with
anything.

## Modules

| Module | Models |
| --- | --- |
| `MarkovLVP` | The predictor. The methods are operators on the tables (`PredictVHT`, `UpdateTable`, ...), so that a handler that calls both can compose them; `Predict` and `Update` are the calls as actions. |
| `ContextHash` | `hashContext`, with word width, multiplier and rotation as constants (64, 2654435761 and 5 in the code). It uses a recursive operator, so no theorem refers to it: `MarkovLVP` takes the hash as a constant operator into the index range. |
| `MarkovLVPHistory` | `MarkovLVP` with two history variables: the values loaded at each PC, and how often each stride trained each index. |
| `LVPCommitted` | What the predictor promises when it is trained at commit only: one atomic step per committed load. The abstract specification. |
| `LVPPipeline` | The predictor in the pipeline: load queue, dispatch, out-of-order completion and writeback, in-order retirement, `commitLoad`, squash. |
| `Rename` | The data structures of renaming and the operations on them, one per iteration of a loop in `rename.cc`. |
| `RenameROB` | A cycle of rename, IEW and commit, in that order, with the ROB: signals are read one cycle after they are written, a squash of the ROB takes several cycles. |
| `Gem5Run` | One worker of the pool: the `run()` loop step by step, the process, `dumpJson` in its three steps, SIGTERM. |
| `ReturnStack`, `TageHistory`, `IndirectHistory` | The three components of branch prediction whose state is speculative, as operators on one record each. |
| `BPredUnit` | The branch prediction unit, which composes them: `Predict`, `SquashHistory`, `Correct` and `CommitBranch` change all three and the list of records. |
| `BranchFrontEnd` | The unit in the pipeline: a cycle of BAC, fetch, decode and commit, in that order, with branches in flight and squash signals that are read one cycle after they are written. |
| `*Proofs` | The theorems. |
| `MC*` | Small instances for TLC. |

Correspondence of state. `vht[pc]` is the `VHTEntry`; an entry absent from the
`unordered_map` is one that is not valid, which is how `predict` treats it.
Values and strides are taken modulo `Word` (2^64), the confidence modulo
`ConfRange` (2^8). `loadQueue` is the LSQ's load queue, oldest first; a load's
`stage` stands for its progress, `memData` for the data it holds at the end of
its access; `lastTrained`, `askedBy` and `dispatchPreds` are history variables
that nothing else depends on. In `RenameROB`, `at` is the point reached within a cycle,
`commitInfo` what commit writes for the other stages, `toCommit` and `fromIEW`
the two ends of the wire from IEW, `historyBuffer` the history list with its
oldest entry first. In `Gem5Run`, `at` is the program counter of `run()`, `buffer` the
record being written, `Empty` a truncated file and `Torn` one that holds the
tail of a longer record after a shorter one.

In `BPredUnit`, `predHist` is the code's list with its oldest record first.
A history register is a function from bit positions to bits, 0 the newest; the
folded histories, unsigned numbers in the code, are the same, and
`FoldUpdate` and `FoldRestore` are the code's shifts and exclusive ors bit by
bit. A branch's sequence number stands for its address and for its return
address; a target is the branch and whether it is the predicted or the corrected
one. What TAGE's tables, the branch target buffer (BTB) and the target cache
answer is any answer. The variables `done`, `callers`, `kept` and `targets` are
history variables: what the components ought to remember of the path, that is,
of the committed branches followed by those in flight. `kept` counts the calls
that no deeper call has overwritten in the circular stack.

## Runs

| Run | What it shows | Result |
| --- | --- | --- |
| `lvp` | tables well formed; confidence within bounds, saturating, with hysteresis; counters consistent; the ring is the recent history; predictions are backed by `conf_threshold` observations | holds |
| `context_hash` | before the mask the hash loses nothing | holds |
| `pipeline_microop` | with microop loads the pipeline implements `LVPCommitted`; nothing that can be squashed has trained; each load is counted once; no prediction is lost | holds |
| `pipeline_mixed` | with both kinds of loads: queue discipline; a prediction is lost only to one issued at dispatch | holds |
| `loads_counted_once` | `totalLoads`, "Total loads seen by LVP", counts a load once | violated |
| `checked_at_next_commit` | a prediction made at commit is evaluated at "the next commit of the same PC" | violated |
| `rename_rob` | registers have one owner; the history chains back from the map; commit's map is the map after undoing everything uncommitted; nothing is freed while an unsquashed instruction can use it; no renamed instruction is lost on the way to the ROB | holds |
| `rename_live` | `getReg` finds a register; squashes spare what has committed; every squash of the ROB ends, registers come back, the ROB drains | holds |
| `branch_front_end` | after any mixture of predictions, squashes, corrections and commits: the direction, path and folded histories, the top of the return stack and the targets hashed are those of the path; one record per branch in flight; the record corrected is the mispredicted branch's; calls and returns commit with a record; an indirect branch records its target under the index of its context | holds |
| `run_supervisor` | with SIGTERMs anywhere: records of runs that no SIGTERM marked are exact, outcomes are true, one process per worker, saved records are final states, every run ends | holds |
| `run_saved_is_final` | nothing about a run changes after its results are saved | violated |
| `run_orphan` | no gem5 process outlives its worker | violated |

The four violations are disagreements between the code and what the repository
says about it. The first two need loads that are not microops, so they do not
affect the X86 measurements: `pipeline_microop` checks the same two properties
there and they hold. The last two concern `run.py`: the SIGTERM handler is
installed after the process is spawned and never removed. The end of the pool
sends SIGTERM to idle workers, so a sweep that ends normally may leave a
finished run whose `info.json` says `kill_reason: sigterm`.

### Bounds

* `lvp`: two PCs that collide in a table of two entries, 4 values, up to 6
  updates and 2 predictions. Six updates reach the ceiling `MaxConf` = 3 and a
  mismatch after it, and wrap a ring of depth 3; two predictions reach the
  overwriting of a pending one.
* `context_hash`: all pairs of strides and all addresses of a 4-bit word.
* `pipeline_*`: a queue of 2 loads, 6 loads (4 in the mixed run), 2 values.
  Two loads in flight are enough for every order of writeback and for a squash
  between any two steps; further loads refill the queue after a squash.
* `rename_rob`: 3 architectural registers, one of them never renamed, 5 more
  physical registers, 6 instructions, the first with one or three destinations.
  Squash width 1 and rename width 3 make a squash long compared with the refill
  of the front end: six instructions are the fewest with which one can arrive
  while an older squash goes on. Decode always delivers. `RefillDelay` is the
  number of empty cycles before it delivers again: the code has two stages of
  one cycle before rename, the run assumes only one, and `NoneDropped` fails
  with none.
* `rename_live`: 2 spare registers, 3 instructions with one or three
  destinations, one thread-context write, and rename may stop at any time. Two
  spare registers are enough to run out within one instruction.
* `branch_front_end`: a return stack of 2 entries, a direction buffer of 10 bits
  with `MaxHist` = 3, 2 branches in flight, 4 branches fetched in all, one
  conditional, one indirect call, one return and one microop that
  `getBranchType` calls `NoBranch` among their kinds (a direct call or jump does
  what an indirect one does, without the targets; the proofs are about all of
  `BranchType`, the kinds X86 has). Two entries wrap with two calls. The run starts with
  the buffer two bits from its end, so that it rolls over with a branch in
  flight; `RollbackBuffer` (1000 in the code) is 2, the number in flight, and
  `HistoryIsPath` fails with less. `SpeculativePathLength` is 2 for the same
  reason, and `TargetsRecovered` fails with 1: the code's comment that the
  history "cannot be recovered" beyond that is exact. The folded histories have
  an original length above and one below the compressed length.
* `run_*`: two runs, so that a handler can be stale, and a timeout of 2 polls.

The `rename_*` runs and `branch_front_end` check for deadlock: the clock always
ticks. In the others it is off because every bounded instance stops, and a sweep really ends.

### Fairness

`RenameROB` assumes that the clock ticks (weak fairness of a step), that the
oldest instruction is executed in the end, that an instruction with a fault does
not wait for stores for ever, and that the latency of a trap passes (strong
fairness: squashes may interrupt each). The first is the simulator's tick event;
the others are what the instruction queue, the store queue and the trap event
provide. `Gem5Run` assumes weak fairness of the steps of
the worker (the operating system schedules it) and of the death of a process
that was sent SIGKILL. It does not assume that gem5 ever exits. `BranchFrontEnd`
has no liveness property and assumes no fairness. Liveness is model-checked only:
it is out of reach of the prover.

## Proofs

All theorems hold for every value of the constants that satisfies the named
assumptions: `ParamAssumption` and `HashAssumption` (the constructor's
assertions, and that the masked hash is an index), `PipelineAssumption`,
`RenameAssumption` (the initial map and free list share out the physical
registers), `WidthAssumption`, `RunAssumption`, `RasAssumption`,
`TageAssumption` (the assertion of `TAGEBase::init`, and that the bits copied at
a rollover do not overlap), `IndirectAssumption` and `FrontEndAssumption` (no
more branches in flight than `RollbackBuffer`, which is the bound the comment in
`updateGHist` argues for).

* `LVPProofs`. About the predictor alone, `TypeCorrect` first, by cases on the
  two calls. On top of it `ConfidenceBounded` (a trained entry satisfies
  `ConfidenceOK` again), `PendingTheorem`, `AccountingTheorem` (with
  cardinalities of the set of pending PCs), and the action properties
  `HysteresisTheorem` and `SaturationTheorem`. The confidence theorems assume
  `MaxConf < ConfRange`: a `max_conf` above 255 makes the counter wrap, and they
  fail. `ContextTheorem`, about `MarkovLVPHistory`, rests on `RingShift`, the
  arithmetic of the write pointer modulo the depth. `PredictionTheorem` needs
  the stronger `ConfidenceBacked`: confidence never exceeds the number of
  observations.
* `LVPProofs`, about the pipeline. `QueueTheorem` is inductive with the type
  invariant, for any mix of loads. So is `LostOnlyToDispatchTheorem`, with
  `PendingHasStride`: three lemmas follow the number of lost predictions
  (neither evaluated nor pending) through `update()`, which loses none,
  `predict()`, which loses one when it finds one pending, and the two in a row
  that a commit makes, which lose none. The others are about microop loads. `CommitOnlyTheorem` maps each step of the
  pipeline to a step of `LVPCommitted` or to a stutter; `TrainedTheorem` adds
  that the last load trained is not younger than the last one dispatched;
  `ExactAccountingTheorem` follows from the refinement and the same property of
  `LVPCommitted`, whose invariant needs `PendingHasStride`.
  `LoadsCountedOnceTheorem` adds the loads still queued to those counted: a
  commit moves one load from the queue to the counter, a squash only shortens
  the queue. `CheckedAtNextCommitTheorem` is an action property. The last two
  fail for loads that are not microops, as the two violated runs show.
* `RenameROBProofs`. `OwnershipTheorem` and `HistoryChainTheorem` have one
  inductive invariant, `RNInv`. Ownership alone is not inductive: undoing an
  entry frees the register the entry introduced, which is right only if the map
  still holds it. `HistoryChain` says so, and says it of every entry because
  any of them may become the newest. One step per operation states how the four
  places of a register change; only four steps of a cycle touch them.
  `RRTypesTheorem` comes next, then invariants in layers, each inductive with
  the ones before it: `Base` (which signals and statuses go together at each point of a cycle, and that rename is stalled or refilling
  while the ROB squashes), `OrderInv` (the wires and the ROB hold instructions
  in program order, younger than the last one committed), `AgesInv` (the
  numbers that IEW reports are older than all that is on its way to the ROB), the
  marks of squashed and executed instructions, `ReportInv` (what IEW reports has
  not committed, and when commit takes it up it is in the ROB and cannot commit
  yet) and `DoneInv` (how the number that commit sends relates to the last one
  committed, with and without a squash), of which
  `SquashSparesCommittedTheorem` is a conjunct.
* `RenameHistoryProofs`. `HistoryInv` orders the history buffer; with `PendInv`,
  `UndoneInv` and `SquashInv` it says which entries a squash that is signalled or
  under way still has to undo, or has undone. `CoveredInv` gives
  `NoneDroppedTheorem`. `StrongInv` says of every live instruction that its
  registers are its entries of the history, in order, and that its sources are the map
  before its first entry.
* `RenameHeldProofs`. `StrongInv` is what makes a commit right: `CommitMapInv`,
  commit's map as the map before the oldest uncommitted entry, moves over the
  entries of the head of the ROB and no others. `CommitMapInHistoryTheorem` and
  `CommittedHeldTheorem` follow. `NoOwnershipHazardTheorem` is
  also about instructions that the ROB has not marked yet although rename has
  undone their entries, of which `StrongInv` says nothing. `HeldInv` says less
  of more instructions: the registers of each one in the ROB that is not marked
  are in the history, in the map or in `freeingInProgress`. `RegsLeftTheorem`
  counts the registers an instruction still needs; it is here because the facts
  about cardinalities are used here only.
* `Gem5RunProofs`. One inductive invariant, `RInv`, ties the worker's step to
  the state of the current run, its process, the buffer and the file; the first
  four theorems are its conjuncts. `InfoTheorem` adds `InfoInv`: a file may
  disagree with the record only of the run at hand, while it is being written,
  or of one that a SIGTERM marked. Both hold with SIGTERMs anywhere.
* `BranchRecordsProofs`. After the type invariant `BTypeOK`, the invariant
  `RecordsInv` follows a cycle: at each stage the signals that are on their way
  account for the difference between the records of the unit and the branches in
  the pipeline, `commitInfo` for the oldest records and a squash for the
  youngest. `RecordsTheorem`, `CorrectsTheorem` and `CommitsTheorem` follow.
  `RasInv` says that the stack, as far as it is kept, holds
  the callers, and that each record continues the one before it, so that undoing
  them from the newest goes back step by step; `StackApply` and `StackUndo` are
  the two lemmas about the circular buffer. `ReturnTheorem` follows.
* `BranchHistoryProofs`. `TargetInv` says that the queue is
  the list of targets without its first ones, all of which have at least
  `PathLength` committed targets after them; this needs at most
  `SpeculativePathLength` branches in flight, an assumption of `TargetsTheorem`
  and `IndexTheorem`.
  Then lemmas about the operators of `TageHistory` only: after a push the buffer
  holds the shifted history, after an undo the unshifted one, with a rollover in
  between or not. `HistInv` says that every register, also those saved in the
  records, holds the path up to where it was saved. It is proved here under
  `FoldsKeepUp`: one bit more or less leaves each folded history the parity of
  its window.
* `BranchFoldProofs`. `FoldsKept` discharges `FoldsKeepUp` (`FoldPush`,
  `FoldUndo`; the bit that enters and the bit that leaves are counted with
  `WindowShift`). `HistoryTheorem` and `FoldedTheorem` follow, and with
  `TargetInv` `IndexTheorem`.

Two assumptions of the rename proofs are about the code around the model.
`RefillDelay` is at least one cycle: the stages before rename take at least one
to deliver again after a squash, and `NoneDropped` is false without it. `None`, the
absence of an instruction, is not an instruction.

Only model-checked: the liveness properties (`RegistersReturned`, `Drains`,
`RunEnds`), because fairness and ENABLED are beyond the prover, and
`HashSeparates`, because the hash is a recursive operator. Only proved:
`PendingTheorem`, `PipelineTypes` and `BTypeCorrect`.

## Not modelled

Stores, transactional memory and the timing of memory accesses in the load
queue; the instruction queue beyond the order in which instructions complete. In
`RenameROB`: more than one thread or register class, pinned registers (X86 has
none) and the scoreboard; the reasons why rename stalls (it may stop at any
point); more than one execution per cycle; instructions that commit asks IEW to
execute (non-speculative ones), serialisation, interrupts, transactions.

In branch prediction: the contents of TAGE's tables, of the BTB and of the target
cache, which change the rate of correct predictions and no history; the
decoupled front end with its fetch target queue, which the measured machine does
not use; conditional indirect branches, conditional calls and conditional
returns, which X86 does not have;
the local, bi-mode and tournament predictors, whose histories are registers
saved and restored whole; the loop predictor of LTAGE, whose speculative counters
are off (`useSpeculation`); `takenOnlyHistory` (off). `usedEntries` of the return stack only
feeds debug output.

Also the multiprocessing pool (library code); machine configuration, plots and
benchmarks (no state); the rest of gem5, which the project does not change.

## Plan

1. In `RenameROB`: non-speculative instructions and serialisation, which wait
   for signals in both directions; the reasons why rename stalls.
2. The store side of the load/store queue and memory dependence prediction,
   composed with `LVPPipeline`.
3. Handshakes between the pipeline stages (stall, block, squash), with liveness,
   composed with `BranchFrontEnd`.
4. The decoupled front end: the fetch target queue holds predictions that no
   instruction has claimed yet, and a squash must undo those too.
