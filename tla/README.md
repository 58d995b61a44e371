# GEM-Active in TLA+

GEM-Active simulates a gate-level netlist on a GPU. A chain of host programs
builds an and-inverter graph of the netlist, cuts it into partitions and writes
a script; a CUDA kernel executes the script for every cycle of a VCD stimulus;
GEM-Active adds activity counters to the kernel and an option to skip partitions
whose inputs did not change. These modules model the chain from the parsed
netlist to the output waveform. Paths are relative to the repository.

## 1. Inventory

| Component | State | Operations | Hard behaviour | What makes it correct |
|---|---|---|---|---|
| GPU kernel (`csrc/kernel_v1_impl.cuh`, `kernel_v1.cu`) | state vectors of all cycles, SRAM words, previous signatures, five counters; per block its cycle, stage, part and shared memory | gather, sign, skip or evaluate, commit RAM, write out, count, grid barrier | blocks interleave between barriers; a skip trusts a hash of an earlier cycle; copy forward | every cycle is the dataflow value of the one before, pruned or not; counters add up; it ends |
| Universal vector (`eda-infra-rs/ulib/src/uvec.rs`) | a buffer and a valid flag per device, length, capacity, a lock per device | construct, resize, reserve, exclusive and shared access, clone, move out | readers on several threads copy lazily behind a flag tested without the lock | a valid device has what was written; a held slice never changes; no `unwrap` fails |
| Stimulus and result (`src/bin/cuda_test.rs`) | two timestamps, current bits, edge flags, delayed changes, rows, last values | value token, timestamp token, end of file, simulate, write | update-then-propagate emulated by a machine that propagates first; the row of one timestamp is labelled with another | rows, stamps and output are those of an event-driven simulator |
| Script flattening (`src/flatten.rs`) | maps of inputs, outputs and staged values; per partition its words, duplicates, enables | arrange on blocks, place endpoints, resolve reads, deal read rounds, assemble | one pin with several enables and polarities; positions decided by the first user; two ends that count bits from opposite sides | every endpoint is stored under its enable in a bit nobody else writes, and read from there in time |
| Level staging (`src/staging.rs`) | primary inputs and outputs of each stage | cut at levels | a pin needed by several later stages | every stage's inputs come from earlier ones |
| Replication-aided partitioning (`src/repcut.rs`) | hypergraph of endpoint groups | build edges, call mt-kahypar | cells shared by several groups; the last pin is left out of a loop (line 116) | every endpoint group in one partition |
| Boomerang mapping and merging (`src/pe.rs`) | hierarchy of a stage, resource use | map one stage, merge partitions | resource limits, retry, blacklist | mapped partitions compute their endpoints within the limits |
| Partition loop (`src/bin/cut_map_interactive.rs`) | partitions unmapped yet | split again, map | termination | every partition mapped in the end |
| And-inverter graph (`src/aig.rs`, `aigpdk.rs`) | drivers, literals, clock pins, endpoint groups | add gate, trace clocks, traverse | depth-first construction, shared gates, gated clocks | graph equals the netlist; topological order |
| Reference simulator (`src/bin/naive_sim.rs`) | pins that are 1, memories, edge monitors | start, propagate, latch at a timestamp | order of latching, propagating and reading memories; a first edge before anything has propagated | after it has settled it agrees with the netlist |
| FastFlow token reader (`vcd-ng/src/fastflow.rs`) | position, line, token | next line, next token, seek the first timestamp | a second reader of the same syntax, simpler than the parser; files cut short | the timestamps and bit changes that were written |
| VCD reader, writer, id codes (`vcd-ng/src`) | depth, next code; header, open scopes, position | write each command, parse the header, parse a command | codes that contain `#` and `$`; generated and chosen codes; unterminated commands | what was written is read |
| Netlist database (`netlistdb/src`) | names, pins, union-find set, nets | find the top, insert, descend, connect, assign, close | aliases in any order through hierarchy and constants; widths and slices in both directions | pins share a net exactly if the hierarchy ties them |
| Cell library (`aigpdk/`) | - | logic functions | set and reset, clock gates | the graph means what the library says |
| Verilog parser, logging, build macros, scripts | - | - | - | - |

How they interact. The front end (parser, netlist database, graph, staging,
partitioning, mapping) hands partitions to `flatten.rs`, by a file between two
programs. `flatten.rs` hands the kernel one script per block and stage, and the
driver the positions of inputs and outputs. The driver turns the VCD into
rows; `UVec` carries rows, scripts and counters between host and device; the
kernel reads row *n* and writes state *n + 1*, whose input bits are the next
row's; the driver reads the outputs back. Within the kernel, blocks share
global memory and meet only at the grid barrier after every stage.

`PROJECT.json` lists every component with what is modelled of it, and under
"hazards" each place where this code is hard to test.

## 2. Modules

| Module | Models |
|---|---|
| `GemScript` | the meaning of a flattened script: gather list, packed input, outputs with clock enables, RAM ports; its ASSUMEs say what a script promises |
| `DataflowSim` | abstract: the simulation fires each partition once a cycle, when its inputs are final, and notes its activity |
| `GemActive` | the kernel: blocks, stages, barrier, signature, skip, evaluation, counters |
| `GemActiveSafety` | its theorems |
| `UVector` | abstract: one vector that a thread obtains and releases |
| `UVec` | the per-device buffers, flags and locks |
| `UVecProofs` | its theorems |
| `Testbench` | the circuit as two functions, timestamps, edges |
| `EventSim` | abstract: an event-driven simulator that samples outputs |
| `VcdFeed` | the token loop and the output writer of `cuda_test.rs` |
| `VcdFeedProofs` | its theorems |
| `Flatten` | arrangement, allocation, placement and resolution in `flatten.rs` |
| `FlattenProofs` | its theorems |
| `GlobalRead` | dealing of reads into rounds, and the gather of the kernel and of the CPU executor |
| `GlobalReadProofs` | its theorems |
| `AigGraph` | and-inverter graphs: gates, values, endpoints |
| `Aig` | traversal and levels of graphs |
| `Hierarchy` | the executor's slots and words, and what `build_one` reserves of them |
| `Boomerang` | one boomerang stage of `pe.rs`: placement in the hierarchy, write-outs |
| `Executor` | the stages of a partition (`build_one`), their section of the script (`build_script`), and its execution, however a stage is built |
| `ExecutorProofs` | its theorems, and those of the code's way to build stages, `Boomerang` |
| `FoldProofs` | what holds of a fold by an invariant of its steps; that a function defined by recursion on a bounded rank exists |
| `Mapping` | the partition loop and merging, whatever the algorithms they call return |
| `Staging` | what they call: level staging, the hypergraph, mapping of a part onto the executor |
| `MappingProofs` | the theorems of `Mapping` |
| `Netlist` | the netlist database: from a hierarchical design to cells, pins, nets |
| `AigBuild` | from the netlist to the graph |
| `GateLevel` | the graph and `naive_sim` on the same timestamps |
| `VcdFile` | the VCD writer and both readers |
| `MC...` | instances for TLC |

`Staging` extends `Boomerang` and is `Mapping` with its parameters; `MCExecutor`
gives `Executor` the stages of `Boomerang`;
`GateLevel` extends `AigBuild`, which extends `Netlist`: each of these is a
composition, in which the later component runs on whatever the earlier one
really produced. Three refinements tie detailed modules to abstract ones:
`GemActive` to `DataflowSim`, `UVec` to `UVector`, `VcdFeed` to `EventSim`.
`Flatten` is checked against the assumptions that `GemScript` makes of a
script: disjoint words (`OneWriterPerBit`) and staged reads from earlier stages
(`ReadsInTime`).

### GemActive

A block's `cycle`, `stage` and `part` are the loop variables of
`simulate_v1_noninteractive_simple_scan` and the position in its script. `Load`
is the gather, signature exchange and decision to skip (kernel lines 83-167);
`Skip` copies the words forward and counts (169-186); `Execute` evaluates,
commits RAM, writes out and counts (188-420); `NextStage` and `NextCycle` are
the two exits of the grid barrier. A block's threads work in step between
`__syncthreads()` and are one process. Memory written by a block is visible
to others at once, which is more than CUDA gives before the barrier, and the
proof of `GatheredIsCurrent` shows that nothing is read before it. Words are
sets of bits; the boomerang logic is the function `Eval`, the RAM one bit wide;
signatures are the function `Sig`. `Gather` takes the type bit of a read as
documented; what the code makes of it is the subject of `GlobalRead`.

### UVec

Exclusive calls are one step, since `&mut` excludes readers; a shared access is
seven steps, from the test of the valid flag to the release of the lock, for
each thread. `Careful` says whether callers keep to calls that preserve
content. The steps follow the code where it departs from its comments: the host
box of `alloc_zeroed` has `len` elements, moving out yields `capacity`
elements, resizing within the capacity marks nothing.

### VcdFeed

`ChangeTo` is one bit of a change token, `Timestamp` a timestamp token,
`StopAtLimit` the break at `--max-cycles`, `EndOfFile` the end of the loop.
`level` and `flags` are the input and edge bits of `state`; `delayed` is
`delayed_bit_changes`; `rows` is `input_states` with `offsets_timestamps`.
`wire` is no variable of the program: it is the file itself as read so far.

### Flatten and GlobalRead

`Flatten` has one action for each iteration of the loops of
`build_flattened_script_v1`: `LayPart` puts a part on a block, `Allocate` gives
it its range of words, one action for each kind of endpoint places it,
`FinishPart` passes the assertion on the duplicates, `BuildPart` resolves what a
part reads, `Assemble` strings a stage's scripts together; `Panic` collects the
unwraps, panics and assertions. A word has `W` bits instead of 32, `RamPort` are
the bits of an SRAM's four permutation words that feed its ports, and a
partition is its list of written pins, endpoints and reads; what its boomerang
stages compute is the subject of `Executor`. `CircuitAssumption` says what the
assembler relies on: whole words are written out (`pe.rs` pads them), a pin has
one driver (`OneDriver`: each register and memory has a pin of its own in the
graph, and inputs have other pins), a pin is staged once and before the stages
that read it (`StagedOnce`, `StagedBeforeRead`: what `Mapping` shows of the
cuts). The limit of 8192 permuted bits (flatten.rs:354) is no part of the
model.
`GlobalRead` deals one word per `Deal`, in the order of the sorted slices
(`Precedes`), to the first thread around the circle with room for it; `Retry` is
a failed attempt, `Accept` a successful one with the numbering of the local
bits, `GatherRound` one round, on both machines. A local word has `W` bits; what
is shifted beyond them is lost. Addresses are unbounded integers, as pointers
are wider than a word; the constant `1 << 31` is the `int` the compiler gives
it (`IntShifted`).

### Boomerang and Executor

The hierarchy of a stage has `2^Levels` slots at level 0 (2^13 in the code) and
halves with each level. `PlaceBit`, `PurgeBit`, `FillWord` and the reversal of
the placement are the functions of `pe.rs` with the same names, on an explicit
hierarchy; ties that the code breaks by a random permutation are broken by any.
`MapStage` is one iteration of the loop in `build_one`, `Refuse` its early
returns; how a stage is built is the parameter `NextStage`, which the run binds
to `Boomerang`'s `BuildStage`. `Flatten` and `FlattenStage` are the assembler's loop
over the stages (`init_afters_writeouts`): `wos` lists the pins of the words
that are written out. `Load` lets the inputs of a cycle arrive, `RunStage` executes a
stage on the local state, with the permutation and the flag words that
`build_script` computes, and `StoreOutputs` is the duplicate and clock-enable
permutations with the final write. A bit of the state has the position the
kernel gives it, so slot *j* of a level is at the level's width plus *j*. Slots that
hold no pin read `stale`, either value, in the first stage and 0 later.

### Mapping and Staging

`Mapping` is the loop of `cut_map_interactive` and `process_partitions`. What
they call are parameters: `StagesOf` cuts a circuit into stages, `MapPart`
maps a part onto the executor, `ConeSize` counts the pins it needs, `Hypergraph` is
what the partitioner sees. `Staging` defines all four from the source
(`BuildStagedAigs` is the loop over `level_split` with all of `from_split` in
`FromSplit`; `MapOntoExecutor` runs `BuildOne`, the loop over `Boomerang`'s stages), and the run binds them.
So TLC checks the flow with the algorithms it has, and the theorems hold of the
flow with any.

`Split` cuts the graph; `Round` is one round of the loop: half the part size, the
hypergraph, an assignment to parts, an attempt to map each. `StartMerging`,
`SkipMerged`, `Merge` and `FinishStage` are `process_partitions`; `ReadParts`
enters there with a partition from a file. The partitioner is mt-kahypar, a library:
it may return any partition into parts that are not empty. The code tries merges
in parallel and takes the first in order that succeeds, which is a function of
the state.

### Netlist, AigBuild and GateLevel

`Netlist` works on a parsed design. `FindTop` picks the top module, then
`InsertLeaf`, `Descend`, `Assign` and `Return` walk the cells and assignments of
each module with an explicit call stack, as the recursion of `builder.rs` does;
`GiveUp` collects its error returns; `BuildGraph` numbers the nets, `AssignDirection`
finds the driver of each and moves it to the front. Contradictory port definitions
panic before that (`Contradictory`). The reference for the nets finds the bits
of an expression by place (`Places`), with operators of its own. `AigBuild` takes the cells
and pins in turn: `TraceClocks`, `BuildPins` (a depth-first search with the pins
on its stack), `PatchInputs` (registers and memories get their literals) and
`CountFanouts`; `Panic` collects the failed assertions. `GateLevel` then applies
timestamps with arbitrary new input levels: `Timestamp` computes the graph's next
state and, beside it, what `naive_sim` does with the same timestamp. Memories
have `DataWidth` bits per word and `2^AddrWidth` words, and one clock for both
ports, as `memlib_yosys.txt` line 7 says.

### VcdFile

A file is a sequence of symbols: single characters where a reader looks at
them, whole words otherwise. The actions of the writer append what `write.rs`
prints (`Render`), the codes included (`Code`, base 3 instead of 94); the file may
be cut short. Then the parser reads the header (`ParseHeader`) and its commands
(`ParseCommand`), and `NextToken` and `FirstTimestamp` are FastFlow. `said` is
the history of what was written. What is said of FastFlow is what its comment
says (fastflow.rs:11), for files without the two things of which it is not true
(`SaysString`, `SaysLines`; section 4).

## 3. Runs

| Run | Question | Instance |
|---|---|---|
| `kernel_pruned` | is pruning invisible? | 2 blocks, 2 stages, 3 cycles, a register with enable, a RAM, staged and old reads, all inputs; 22,272 states |
| `shared_slot_skip` | violation: a partition compared with its neighbour's signature | two partitions on a block |
| `uvec` | are the copies coherent? | 3 devices, 2 readers, capacity 1 or 2; 152,063 states |
| `vcdfeed` | is the stimulus that of an event-driven simulator? | a clock with both edges, a data pin, timestamps 0 to 5, at most 4 rows; 7,712 states |
| `flatten` | does every endpoint get its bit? | 5 endpoints on 2 pins with 3 enables in all orders over up to 3 partitions on 2 blocks, circuits with one and two RAMs, and some that panic; 59,178 states |
| `flatten_output` | violation: a register takes an output's position | the same |
| `global_read` | do inputs arrive where the script expects them? | all choices of bits from up to 5 words for 2 threads of 3 bits; 10,593 states |
| `gather_index` | violation: staged words on the GPU | the same |
| `boomerang` | does a partition compute and store its endpoints? | all graphs of 3 sources and up to 4 gates, chains, trees, ladders, on an executor of 8 slots in words of 2; 132,093 states |
| `cut_map` | does the flow keep every endpoint, and does it end? | circuits of up to 11 pins cut at no, one or two levels, parts of 3 endpoints and fewer; 16,246 states |
| `netlist` | do nets, graph and simulators mean what the netlist says? | 113 designs of each way of connecting, gate, register, clock path and memory, with all sequences of up to 3 input bits; 24,802 states |
| `vcd_file` | is what was written read, by FastFlow where it keeps to its documentation? | all files of up to 6 commands, with codes over 3 characters two of which are `#` and `$`, whole or cut by up to 3 symbols; 580,783 states |

What the properties say is stated above each of them. In short:

- `ImplementsDataflow`, `SkipIsInvisible`, `QuietIsSkipped`: pruning changes
  nothing and misses nothing. `CountersClose` relates the five counters.
- `InLockstep`, `GatheredIsCurrent`: no block runs ahead, and nothing a block
  has gathered changes before it writes. `Completes`: the launch ends.
- `Coherent`, `NoPanic`, `ImplementsVector`, `EveryReadReturns` for `UVec`;
  its `TypeOK` also says that every buffer has room for `capacity` elements.
- `ImplementsEventSim`, `DumpShowsSamples`, `StampsIncrease` for the stimulus
  and the output.
- `EndpointsServed`, `OneWriterPerBit`, `ReadsInTime`, `NoPanic` for the script;
  `EveryBitOnce`, `InputsArrive`, `PanicsWhenHalfFull` for its reads.
- `HierarchySound`, `NothingLost`, `EndpointsComputed`, `EndpointsStored`: the
  stages form a sound circuit, carry what is needed later, and the executor's
  result is the graph's value for every input. `StagesAdvance`: each stage makes
  progress.
- `StagesClose`, `RoundsKeepEndpoints`, `MergingKeepsEndpoints`: cutting,
  partitioning and merging share the endpoints and gates out, each to one place.
  `StopsForAReason`, `EverGoesOn`: the flow ends, and fails only where it must.
- `NetsAreConnections`, `RefusedForAReason`: the union-find set gives the nets
  that the hierarchy as a whole ties together, and refuses exactly the faulty
  designs. `LiteralsMeanPins`, `PanicsForAReason` for the graph;
  `RegistersAgree`, `NaiveFollows` for what is simulated.
- `WrittenIsRead`: header and commands survive the file; tokens do in files
  without string changes and texts of several lines, and up to a cut.

Why the bounds are enough. Three cycles are one of warm-up, one that records a
signature and one that may be skipped; two stages and two blocks give every
order of writers and readers around a barrier. Three devices and two readers
give two copies from one source at a time, which is the most that two threads
can do. Four rows with six timestamps have an unlabelled first row, idle
timestamps between rows and the limit. Four activations of one pin need more
than one duplicate word of two bits. Two threads of three bits with five words
reach all outcomes of dealing: success, retry with each size, failure.
Three levels of slots have one that is neither the inputs nor the top, and
words of two, with a limit of one (`Crowded`), have full, shared and left-alone
words; the larger graphs need up to three stages. `Division` 6 gives rounds of three
endpoints, then one; `MaxTrials` and `Stride` 1 stop the trials after two
batches. Two address and data bits distinguish the bits of a word and of an
address. Six commands are a header with a variable in a scope and two commands
behind it, or a body of four; codes of up to two characters are enough for one
code to be the prefix of another and for generated and given codes to meet. The
bounds `MaxTime`, `MaxLen`, `NumCycles`, `MaxSaid`, `MaxTexts` and `MaxLost` limit
what the program does not; `MaxInputs` keeps designs with more input bits from
being simulated, though they are built.

Fairness. The kernel is launched cooperatively, so that all blocks are resident
and each makes progress: weak fairness of each block's step. A thread
that has asked for a vector's data is not descheduled for ever: weak fairness
of each reader. No lock is assumed to be fair. The host flow is sequential: that
its loops end is stated without fairness, as action properties that every step
uses something up (`StagesAdvance`, `EverGoesOn`).

Deadlock is checked in all runs but `boomerang`, `cut_map`, `netlist` and
`vcd_file`, whose flows end, and three of which may stop at a panic or an error.

## 4. Findings

- A slot's signature is shared by all partitions on a block, so with more
  partitions than blocks a skip compares the wrong ones (`shared_slot_skip`).
- A register whose data literal is a primary output takes over the output's
  position with its own enable (`flatten_output`).
- The kernel subtracts a negative `1 << 31` from a pointer when it reads a
  staged word (`gather_index`). The C++ of the build gives the `int` its
  least value; the CPU executor, which clears the bit, does what is documented.

Seen while modelling, where nothing in the repository promises otherwise or the
models say so by a condition:

- Kernel and memory: the skip test is a 32-bit hash, conservative only without
  collisions; `reserve` moves a stale buffer and marks it valid (`Careful`
  callers do not); `alloc_zeroed` with more capacity than length leaves a short
  host box.
- Script: a register that latches constant 0 is read from the first input bit.
  Such registers are counted as activations of the pin 0 (flatten.rs:254) but
  passed over when endpoints are placed (line 449): two in one partition under
  different enables make the assertion at line 462 fail when the activation
  that is never placed needs a word of its own (`NoPanic` names this as one of
  the three reasons for a panic). A partition that reads no pin at all panics
  when its reads are dealt, since the loop over chunk sizes starts at 0
  (flatten.rs:117, `PanicsWhenHalfFull`).
- Stimulus: an input that changes twice at one timestamp stays toggled
  (`OneChangePerTime` leaves such files out); the edges of the file's last
  active timestamp are never simulated.
- Netlist: the table of net names is indexed by nets but is as long as there are
  names (builder.rs:531), so a design with more nets than names panics; ports of
  a module that declares a name with two widths are not caught.
- Graph: a memory is read with PORT_R_CLK, by the library with PORT_W_CLK
  (memlib_yosys_behavior_oneport.v:17), which is the same only with a single
  clock, as the designs of the run have it; with a clock gate whose register
  uses the falling edge, the enable is the one at the falling edge (such designs
  are left out of the run); a pulse of set or reset between two simulated
  timestamps is lost (`Timestamp` excludes it); inout ports stay 0; an `and` of
  equal inputs is kept, and listed twice among the fanouts.
- `naive_sim` latches values that have not been propagated at its first edge, and
  stale ones after inputs changed without a rising edge (`Settled`).
- VCD: FastFlow answers a string change with an error (fastflow.rs:133) and
  reads the continuation of a multi-line text as tokens, although its comment
  (lines 11-12) says that all other operations "are intentionally ignored and do
  not produce tokens"; `WrittenIsRead` leaves such files out. It drops the last
  byte of a line unseen (line 85), although the comment (line 14) says "We assert
  for newline characters": in a file cut short its last token may be wrong, and
  no property says otherwise. The parser accepts variables outside scopes,
  which the writer refuses.

## 5. Proofs

TLAPS checks the following for every value of the constants that satisfies the
ASSUMEs, which TLC evaluates in each run.

**Kernel.** The assumptions are those of `GemScript` (each partition in one
slot, disjoint output bits, staged reads from earlier stages, functions with
values in their range) and `ModeAssumption` (the two options).

- `TypeCorrect`: `TypeOK` is inductive.
- `Lockstep`: `InLockstep` is inductive together with `TypeOK`. The barrier
  opens only when every block waits at it.
- `GatheredStaysCurrent`: a block that has loaded a partition is in
  some stage; by lockstep all writers of what it gathered are either done with
  this cycle or in a stage that does not write it, so `GatheredIsCurrent` is
  kept by every step of another block.
- `SkippingIsInvisible`, under `FaithfulSignatures` (one partition per slot,
  no two inputs with one signature). `SkipIsInvisible` is not inductive: it says
  nothing of why the stored signature is the right one. The invariant `Inv`
  adds that the stored signature is that of the inputs in the last cycle the
  slot was loaded (`SignatureKept`), that the change flag is exact
  (`ChangeKnown`), that a decision to skip was made on it (`SkipDecision`), and
  that the enabled outputs of a finished partition are a function of the inputs
  it had (`OutputsSettled`). Without its first half `shared_slot_skip` is what
  happens; the second half is what a hash does not give.
- `PruningRefinesDataflow`: under the same condition the initial states map
  to those of `DataflowSim`, `Skip` and `Execute` map to `Fire`, everything else
  stutters. That a partition fires exactly once a cycle follows from its place
  in the order of its block (`FiresOnce`), that its inputs are final from
  lockstep (`FiresWhenReady`).
- `CountersAlwaysClose`, without any condition on signatures. A counted cycle is
  a skip or not; `CounterInv` says that the decision was made on the very flag
  that is counted (`SkipKnown`), and that cycle 0, the exception, is counted
  exactly when its slot has passed it (`FirstCounted`).
- `QuietPartitionsAreSkipped`, under `FaithfulSignatures`: `SkipKnown` and
  `ChangeKnown` together.

**UVec.** `UInv` joins the shape of the buffers, the content of the valid
devices, what the readers' positions imply about locks, and that copiers have a
source; one lemma for each call shows that it is kept. From it follow
`TypeCorrect`, `CoherentAlways` and `NeverPanics`, for any number of devices and
threads, for callers that keep the content.
`ImplementsOneVector`, under the same condition, is the refinement of `UVector`:
a reader that has its slice reads a valid device or an empty vector (`Held`), and
nobody copies to a valid device, so slices stay put.

**VcdFeed.** `StampsAlwaysIncrease`: the stamps written form, with those of the
rows not yet written, the pending label and the current time, one increasing
chain. `StampInv` says so: the first row and no other is without a stamp, stamps
of rows increase up to `lastActive`, and the dump is a prefix of the rows.
`StimulusIsEventDriven` is the refinement of `EventSim`: while a timestamp is read
the flags are the edges between the pins before it and the pins with the delayed
changes (`EdgesKnown`), and pushing a row does not disturb the registers
computed from the earlier rows (`RegistersOfPrefix`), an induction that
takes the least row where they would differ.

`DumpAlwaysShowsSamples`: what has been written out is what an event-driven
simulator samples. The invariant (`DumpShown`) describes the dump as a function
of the rows: the value a row writes is the one computed from the row before
it, unless the last row that wrote this pin wrote the same. That the values
computed from the rows are those sampled takes, again, the least row where they
would differ.

**Script.** For every circuit that satisfies `CircuitAssumption`, for every
number of blocks and size of word:

- `EveryBitHasOneWriter`. The ranges of state words and of SRAM words that
  `Allocate` has handed out are disjoint and below the sums (`AllocInv`), which
  needs that masonry puts each part in one place of one block (`LaidInv`).
  Inside a part, the bits handed out are those of the endpoints placed so far
  (`PosInv`): a first activation has the bit of its pin, the n-th other one
  the n-th bit from the end of the duplicates, and the duplicates handed out are
  no more than those counted in advance.
- `EveryEndpointServed`. Positions are handed out once and kept: an endpoint
  placed in the past (`DoneEnd`) is still served after any later step, since a
  second placement with the same key changes nothing and one with another key
  goes to another bit. `MapInv` says for each map that its last writer is the
  only one, by `OneDriver` and `StagedOnce`.
- `EveryReadInTime`. A pin that is looked up is in `inputMap`, and then stored
  by its driver, or only in `stagedMap`, and then staged by an earlier stage, by
  `StagedBeforeRead` (`ReadsInv`).
- `PanicsForAReason`. When a part is finished every key that is not the first of
  its pin has been placed, hence the number of duplicates placed is the number
  counted and the assertion at line 462 holds, unless a register of the constant
  0 was passed over. No induction over the endpoints is needed: the count is
  the cardinality of the set of keys placed.

**Reads.** For every choice of wanted bits, number of threads and size of word:

- `EveryBitHasOnePlace`. In every state of the dealing, the words not left to
  deal are in the rounds, once and with all their bits (`Genuine`, `Complete`,
  `Once`), and no thread has more bits than fit (`Fitting`). A local bit is the
  number of bits behind it, which differs from bit to bit and is less than
  their count (`RearShrinks`).
- `InputsAlwaysArrive`. After some rounds a bit is as high in the local word as
  there are bits gathered after it (`Behind`, `GatherInv`); a further round
  pushes it up by its own bits (`BehindEarlier`), and after the last round what
  is behind it in the gather is what `build_script` numbered before it. That no
  bit is shifted out of the word is `Fitting` again.
- `PanicsOnlyWhenHalfFull`. With single words the heaviest are dealt first
  (`FailInv`), so when a word fits nowhere each thread has one that is no
  lighter, and thus more than half its bits. The sum over the threads is an
  injection, not an induction (`HalfEach`, `DealtAreWanted`).

**Mapping.** For all circuits, all partitions that the partitioner may return, and
all functions `StagesOf`, `MapPart`, `ConeSize` and `Hypergraph`, under two
assumptions: a cut is a sequence of stages, each with some pins and some
endpoints (`MappingAssumption`), and a part of a stage takes a number of boomerang
stages (`CountAssumption`). Nothing is assumed of which parts map, not even that a
merged part is harder to map than its halves.

- `RoundsNeverLose`: the parts found so far and the list of what is left share
  the endpoint groups of the stage out, and the list is increasing, which is why
  staged pins stay in front. `RoundInv` says so, and that each part found maps. A round keeps it because the parts
  the partitioner makes share out the places of the list (`GatherFacts`,
  `Divided`), and the parts that map leave the others (`RoundShares`).
- `MergingNeverLoses`: the finished parts and those from the current one on
  share the groups out. `MergeInv` adds what the property needs in order to be
  kept: the part on record is the current one as it maps now (`Recorded`), every part
  that is left maps within the limit (`Mappable`), and so does every finished one.
  A merge moves groups between two of the lists and empties one
  (`PartAbsorbs`), which is then passed over (`MergedIsSkipped`). The results of
  earlier stages keep what held when they were recorded (`ResultInv`), sorted
  by `LongestFirst`, which is a permutation (`SortedFacts`, `LongestFirstFacts`).
- `StopsOnlyForAReason`: a part found by a round is mapped again when merging
  starts, with the same result (`RoundInv`), so only a file can be refused.
- `NoIdleRound`: a round at division 1 tries single groups, of which one maps or
  the flow stops (`RoundGoesOn`); above 1 the division shrinks. A merge empties a
  part that was not empty.

The inductive invariant of all four is `MappingInv` (`MappingAlways`).

**Executor.** For every acyclic graph, number of levels, size of word and way to
build stages (`NextStage`), as long as the stages built are sound and lose
nothing (`HierarchySound /\ NothingLost`). This splits the correctness of a
partition: the mapper, full of heuristics, has only to produce stages of the
right shape, and assembler and executor do the rest.

- `ComputesTheGraph`. The places of a stage are computed upwards from the ones
  shuffled in; the last place that is wrong, if there were one, would have right
  ones below it (`StageComputes`). So a stage leaves a right state if the one
  before did, and writes out right words. `ExecInv` says that, and that the words
  of stage *k* come after the same number of others (`Offsets`) in the
  assembler's list and in what is written: that is why a pin has its value at the
  position where it is looked up. `Invariance` shows it inductive.
- `StoresTheGraph` adds that no two activations share an output bit
  (`OutputsApart`): first ones are at their pins, copies behind all words written
  out, and the n-th copy is n bits below the end (`Numbered`), which the
  assembler's assertion keeps within the words reserved (`Accepted`). So the last
  endpoint to write a bit has the literal and enable of every other one there.
  That values are defined at all, for the recursive functions of the graph
  (`ValuesExist`), of a stage (`BitsExist`) and of the widths (`WidthsExist`), takes
  in each case the least argument for which they would not be.

**Mapper.** The same with `NextStage` the code's way to build a stage
(`BuiltAsCoded`, which the run's configuration satisfies, and which only names the
parameter), hence for every acyclic graph without gates over a constant
(`PartitionAssumption`) and every list of endpoints:

- `MapsSoundly` and `LosesNothing`: the stages of `BuildStage` are sound and lose
  nothing. `NothingLost` is not inductive: a stage shuffles in what the last one
  has, but which pins it will need is known only when it is built. `MapInv` adds
  that whatever the stages still to come need and do not compute is in the
  hierarchy of the last one (`Needed`, `AtHand`), that each pin of an endpoint is
  still to be realized or in a word that is written out, and that the words
  written and those reserved stay within the limit. The proof follows a stage
  through the code:
  - The graph to work on is in topological order (`DfsOrders`, `TopoOrders`), and
    levels rise along it (`LevelsAre`, `SubgraphOk`).
  - A pin is put in an empty slot together with what it needs below; a slot
    below an empty one is empty, so nothing is overwritten and each
    level stays consistent with the next (`NeedsFit`, `PlaceKeeps`). Taking
    it back after an overflow restores the hierarchy slot by slot
    (`PurgeUndoes`).
  - A pin counts as done only when it is in a word that goes out (`Filling`,
    `SlotFilled`, `EndpointsPushed`); the last stage also writes the words of
    those higher up (`AllCovered`). `swap_remove` takes out exactly the pins
    done (`AllRemoved`).
  - The pins necessary on level 1 are all placed or the stage is refused
    (`NecessaryIs`, `RestPlaced`); reverse levels reach every input of a gate
    still to do (`ReverseReaches`), so what a later stage asks for and does not
    compute was necessary (`Carried`: the highest such pin that is not would be
    an input of a higher one).
- `AlwaysAdvances`: `StagesAdvance`. A stage that realizes nothing new has empty
  upper levels and no gate due, and a gate of level 1 exists below each
  endpoint of a higher level (`NoGateDue`), so each pin left is due and known;
  level 1 is then empty and has a word with room (`SpacesOpen`), and no pin is
  left alone because all of them may be done (`EndpointsDone`). With a
  crowding limit of 0 no word would have room; hence `CrowdedAssumption`.
- `CodeComputes` and `CodeStores`: with the theorems above, `EndpointsComputed` and
  `EndpointsStored` hold of the code's mapper, assembler and executor without any
  condition on the stages.

The mapper is made of folds and of functions defined by recursion on a level or
a pin. `FoldProofs` has the two inductions they need, with the step, the
invariant and the body as constant operators: `FoldKeeps` (a property of the
start that each step keeps holds of the end) and `RecursionExists` (a function
whose body looks only at arguments of lower rank exists). Both take the least
counterexample, so no induction theorem with an operator parameter is cited;
each use is an INSTANCE that names its step and invariant.

Only model-checked:

- liveness: `Completes`, `EveryReadReturns`;
- `StagesClose`: level staging uses a sum over uses and a repeated removal that
  the proofs do not treat;
- the netlist database and the graph (`Netlist`, `AigBuild`, `GateLevel`), which
  reach RECURSIVE operators, with which tlapm has no SMT backend;
- the VCD file (`VcdFile`): `WrittenIsRead` needs an invariant of the
  parser for each command and each way a file may be cut, which is not written.

## 6. Not modelled

- Threads of a block: they meet at `__syncthreads()` and touch words of their own.
- The encoding of a script's sections as words and its padding (flatten.rs): the
  models hold the permutations and flags themselves.
- Driver options, matching of VCD names to ports, headers, logs, the report.
- Streams and completion order of CUDA copies, raw device pointers.
- The mt-kahypar partitioner (any partition), the parser's grammar, generated
  bindings, scripts.
- Of VCD: operations on bit vectors as values, look-up of scopes and variables
  by path, the spelling of types and units, the refilling of FastFlow's buffer
  by the linereader crate.
- Of the netlist database: the sharing of hierarchical names and look-up by name.
- The test drivers of single phases, which call what is modelled.

## 7. Plan

Done: the kernel, `UVec`, the stimulus, each with its proofs; the script and its
reads; the flow from the parsed netlist through graph, staging, partitioning and
merging to the boomerang stages and their execution; the VCD file.

Left, most important first:

1. The executor of `Executor` in place of the function `Eval` in `GemActive`, for
   one small script from end to end.
2. Bit vectors in the VCD reader, name look-up in the netlist database.
