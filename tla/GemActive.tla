----------------------------- MODULE GemActive -----------------------------
(***************************************************************************)
(* The CUDA simulation kernel with GEM-Active profiling and pruning        *)
(* (src/csrc/kernel_v1_impl.cuh).                                          *)
(*                                                                         *)
(* Every thread block walks the cycles and, in each cycle, the major       *)
(* stages; in a stage it executes the partitions of its slot one after the *)
(* other, then waits at the grid barrier.  For a partition it gathers the  *)
(* inputs, compares their signature with the one stored for the slot, and  *)
(* either copies the old outputs forward (skip) or evaluates.  Blocks      *)
(* interleave freely between barriers; inside a block the threads are      *)
(* synchronised by __syncthreads, so a partition is two steps: Load, and   *)
(* Skip or Execute.                                                        *)
(***************************************************************************)
EXTENDS GemScript

CONSTANTS
  EnableProfile,  \* enable_profile
  EnablePrune,    \* enable_prune
  Sig(_),         \* the block signature of the packed inputs
  ZeroSig         \* what d_prev_signatures is cleared to

(* The host never prunes without profiling (cuda_test.rs). *)
ASSUME ModeAssumption ==
  /\ EnableProfile \in BOOLEAN
  /\ EnablePrune \in BOOLEAN
  /\ EnablePrune => EnableProfile

VARIABLES
  states,    \* states_noninteractive
  ram,       \* sram_data
  prevSig,   \* d_prev_signatures, one entry per slot
  profile,   \* the five d_partition_* counter arrays, one entry per slot
  cycle,     \* cycle_i of each block
  stage,     \* stage_i of each block
  part,      \* position of each block in the script of its slot
  loaded     \* the block's shared memory between gather and writeout

vars == <<states, ram, prevSig, profile, cycle, stage, part, loaded>>

NotLoaded == [packed |-> <<>>, full |-> FALSE, changed |-> FALSE, skip |-> FALSE]

NoCounts == [cycles |-> 0, inputChanged |-> 0, outputChanged |-> 0,
             toggles |-> 0, skipped |-> 0]

Init ==
  /\ \E stimulus \in [0 .. NumCycles -> SUBSET InputBit] :
       states = [c \in 0 .. NumCycles |-> [x \in Bit |-> x \in stimulus[c]]]
  /\ ram = [x \in SramBit |-> [a \in Addr |-> FALSE]]
  /\ prevSig = [k \in Slot |-> ZeroSig]
  /\ profile = [k \in Slot |-> NoCounts]
  /\ cycle = [b \in Block |-> 0]
  /\ stage = [b \in Block |-> 0]
  /\ part = [b \in Block |-> 1]
  /\ loaded = [b \in Block |-> NotLoaded]

----------------------------------------------------------------------------
Here(b)    == <<stage[b], b>>                \* profile_idx of the block now
Current(b) == Script[Here(b)][part[b]]
Running(b) == cycle[b] < NumCycles

AtEnd(b)   == part[b] > Len(Script[Here(b)]) \* after is_last_part, or a dummy script
Profiled(b) == EnableProfile /\ cycle[b] >= Warmup

(* Mutants: SRAM partitions are skipped too; warmup off by one. *)
CanSkipSram(b, sig, prev) ==
  EnablePrune /\ cycle[b] > 0 /\ cycle[b] >= Warmup /\ sig = prev

CanSkipLate(b, sig, prev) ==
  EnablePrune /\ cycle[b] > Warmup /\ Srams[Current(b)] = {} /\ sig = prev

CanSkip(b, sig, prev) ==
  /\ EnablePrune
  /\ cycle[b] > 0
  /\ cycle[b] >= Warmup
  /\ Srams[Current(b)] = {}
  /\ sig = prev

(* Gather the inputs, form the signature, exchange it with the stored one. *)
Load(b) ==
  /\ Running(b)
  /\ ~AtEnd(b)
  /\ ~loaded[b].full
  /\ LET packed == Gather(Current(b), states[cycle[b]], states[cycle[b] + 1])
         sig    == Sig(packed)
         prev   == prevSig[Here(b)]
         signed == EnableProfile \/ EnablePrune
     IN  /\ loaded' = [loaded EXCEPT ![b] =
                         [packed  |-> packed,
                          full    |-> TRUE,
                          changed |-> signed /\ sig # prev,
                          skip    |-> signed /\ CanSkip(b, sig, prev)]]
         /\ prevSig' = IF signed THEN [prevSig EXCEPT ![Here(b)] = sig] ELSE prevSig
  /\ UNCHANGED <<states, ram, profile, cycle, stage, part>>

NextPart(b) ==
  /\ part' = [part EXCEPT ![b] = @ + 1]
  /\ loaded' = [loaded EXCEPT ![b] = NotLoaded]
  /\ UNCHANGED <<prevSig, cycle, stage>>

(* Mutant: a skipped cycle is not counted as a cycle. *)
CountSkipOnly(b) ==
  profile' = IF Profiled(b)
             THEN [profile EXCEPT ![Here(b)].skipped = @ + 1]
             ELSE profile

CountSkip(b) ==
  profile' = IF Profiled(b)
             THEN [profile EXCEPT ![Here(b)] =
                     [cycles        |-> @.cycles + 1,
                      inputChanged  |-> @.inputChanged,
                      outputChanged |-> @.outputChanged,
                      toggles       |-> @.toggles,
                      skipped       |-> @.skipped + 1]]
             ELSE profile

(* Mutant: a skipped partition leaves its part of the new state untouched. *)
NoCopy(p, before, after) == after

CopyForward(p, before, after) == Overwrite(after, p, before)

Skip(b) ==
  /\ loaded[b].full
  /\ loaded[b].skip
  /\ LET c == cycle[b]
     IN  states' = [states EXCEPT ![c + 1] = CopyForward(Current(b), states[c], @)]
  /\ CountSkip(b)
  /\ NextPart(b)
  /\ UNCHANGED ram

CountRun(b, toggled) ==
  profile' = IF Profiled(b)
             THEN [profile EXCEPT ![Here(b)] =
                     [cycles        |-> @.cycles + 1,
                      inputChanged  |-> @.inputChanged
                                          + One(cycle[b] > 0 /\ loaded[b].changed),
                      outputChanged |-> @.outputChanged + One(toggled # 0),
                      toggles       |-> @.toggles + toggled,
                      skipped       |-> @.skipped]]
             ELSE profile

Execute(b) ==
  /\ loaded[b].full
  /\ ~loaded[b].skip
  /\ LET p   == Current(b)
         c   == cycle[b]
         in  == loaded[b].packed
         new == Evaluate(p, in, states[c], ram)
     IN  /\ states' = [states EXCEPT ![c + 1] = Overwrite(@, p, new)]
         /\ ram' = CommitRam(p, in, ram)
         /\ CountRun(b, Toggled(p, states[c], new))
  /\ NextPart(b)

(* Mutants: a block counts as arrived once it has entered the stage; a     *)
(* block that has left the barrier no longer counts.                       *)
ReachedOnEntry(a, c, s) ==
  cycle[a] > c \/ (cycle[a] = c /\ stage[a] >= s)

ReachedOnlyWaiting(a, c, s) ==
  cycle[a] = c /\ stage[a] = s /\ AtEnd(a)

(* this_grid().sync(): block a has reached the barrier that ends stage s   *)
(* of cycle c, or is past it.                                              *)
Reached(a, c, s) ==
  \/ cycle[a] > c
  \/ cycle[a] = c /\ stage[a] > s
  \/ cycle[a] = c /\ stage[a] = s /\ AtEnd(a)

(* Mutant: the grid barrier is missing. *)
ReleasedAlone(b) == Running(b) /\ AtEnd(b)

Released(b) ==
  /\ Running(b)
  /\ AtEnd(b)
  /\ \A a \in Block : Reached(a, cycle[b], stage[b])

NextStage(b) ==
  /\ Released(b)
  /\ stage[b] + 1 < NumStages
  /\ stage' = [stage EXCEPT ![b] = @ + 1]
  /\ part' = [part EXCEPT ![b] = 1]
  /\ UNCHANGED <<states, ram, prevSig, profile, cycle, loaded>>

(* Mutant: the stage loop is not restarted with the next cycle. *)
NextCycleKeepsStage(b) ==
  /\ Released(b)
  /\ stage[b] + 1 = NumStages
  /\ cycle' = [cycle EXCEPT ![b] = @ + 1]
  /\ stage' = [stage EXCEPT ![b] = @ + 1]
  /\ part' = [part EXCEPT ![b] = 1]
  /\ UNCHANGED <<states, ram, prevSig, profile, loaded>>

NextCycle(b) ==
  /\ Released(b)
  /\ stage[b] + 1 = NumStages
  /\ cycle' = [cycle EXCEPT ![b] = @ + 1]
  /\ stage' = [stage EXCEPT ![b] = 0]
  /\ part' = [part EXCEPT ![b] = 1]
  /\ UNCHANGED <<states, ram, prevSig, profile, loaded>>

Finished == \A b \in Block : cycle[b] = NumCycles

(* The kernel returns; nothing happens after that. *)
Terminated == Finished /\ UNCHANGED vars

Step(b) == Load(b) \/ Skip(b) \/ Execute(b) \/ NextStage(b) \/ NextCycle(b)

Next == (\E b \in Block : Step(b)) \/ Terminated

Spec == Init /\ [][Next]_vars

(* A cooperative launch keeps every block resident, so each makes progress. *)
FairSpec == Spec /\ \A b \in Block : WF_vars(Step(b))

----------------------------------------------------------------------------
SigValue == {ZeroSig} \cup {Sig(in) : in \in UNION {PackedInput(p) : p \in Part}}
Counts   == [cycles : Nat, inputChanged : Nat, outputChanged : Nat,
             toggles : Nat, skipped : Nat]
Shared   == [packed : Seq(BOOLEAN), full : BOOLEAN, changed : BOOLEAN, skip : BOOLEAN]

(* Type correctness of the kernel's buffers and of each block's position.  *)
TypeOK ==
  /\ states \in [0 .. NumCycles -> StateVector]
  /\ ram \in [SramBit -> Memory]
  /\ prevSig \in [Slot -> SigValue]
  /\ profile \in [Slot -> Counts]
  /\ cycle \in [Block -> 0 .. NumCycles]
  /\ stage \in [Block -> Stage]
  /\ part \in [Block -> Nat \ {0}]
  /\ loaded \in [Block -> Shared]
  /\ \A b \in Block :
       /\ part[b] <= Len(Script[Here(b)]) + 1
       /\ loaded[b].full =>
            /\ Running(b)
            /\ ~AtEnd(b)
            /\ loaded[b].packed \in PackedInput(Current(b))

(* Block k[2] is past position i of slot k in cycle c. *)
Past(c, k, i) ==
  LET b == k[2]
  IN  \/ cycle[b] > c
      \/ cycle[b] = c /\ stage[b] > k[1]
      \/ cycle[b] = c /\ stage[b] = k[1] /\ part[b] > i

(* The <<cycle, partition>> pairs whose outputs have been written. *)
Completed ==
  {cp \in (0 .. NumCycles - 1) \X Part :
     \E k \in Slot : \E i \in 1 .. Len(Script[k]) :
       Script[k][i] = cp[2] /\ Past(cp[1], k, i)}

(* No block runs into the next stage while another still works in this     *)
(* one: when a block works in a stage, all blocks have finished every      *)
(* earlier stage and every earlier cycle.  This is what grid().sync() buys *)
(* the staged reads of output_state.                                       *)
InLockstep ==
  \A a, b \in Block :
    \/ cycle[a] > cycle[b]
    \/ cycle[a] = cycle[b] /\ stage[a] >= stage[b]
    \/ cycle[a] = cycle[b] /\ stage[a] + 1 = stage[b] /\ AtEnd(a)
    \/ /\ cycle[a] + 1 = cycle[b]
       /\ stage[b] = 0
       /\ stage[a] = NumStages - 1
       /\ AtEnd(a)

(* The inputs a block gathered into shared memory are still the bits of    *)
(* the state arrays when it writes out, whatever the other blocks did      *)
(* meanwhile: nothing a partition reads is written during its stage.       *)
GatheredIsCurrent ==
  \A b \in Block :
    loaded[b].full =>
      loaded[b].packed = Gather(Current(b), states[cycle[b]], states[cycle[b] + 1])

(* A partition about to be skipped would write exactly the bits that are   *)
(* copied forward: skipping is invisible in the waveform (README           *)
(* "Conservative Event Pruning").                                          *)
SkipIsInvisible ==
  \A b \in Block :
    loaded[b].full /\ loaded[b].skip =>
      LET p == Current(b)
          c == cycle[b]
      IN  /\ Srams[p] = {}
          /\ \A x \in Outs[p] :
               WriteOut(p, x, Gather(p, states[c], states[c + 1]), states[c][x], ram)
                 = states[c][x]

(* For a slot with one SRAM-free partition the counters close: under       *)
(* pruning every counted cycle is either skipped or saw its inputs change, *)
(* except cycle 0, which has no predecessor (README "Per-Partition         *)
(* Activity Profiling").                                                   *)
CountersClose ==
  EnablePrune =>
    \A k \in Slot :
      Len(Script[k]) = 1 /\ Srams[Script[k][1]] = {} =>
        profile[k].cycles =
          profile[k].skipped + profile[k].inputChanged
            + One(Warmup = 0 /\ profile[k].cycles > 0)

(* Pruning is effective: past the warmup an SRAM-free partition whose      *)
(* gathered inputs equal those of the previous cycle is never executed     *)
(* (docs/gem_active.md "Pruning safety rules").                            *)
QuietIsSkipped ==
  [][\A b \in Block :
       LET p == Current(b)
           c == cycle[b]
       IN  /\ EnablePrune
           /\ Execute(b)
           /\ c > 0 /\ c >= Warmup
           /\ Srams[p] = {}
           => Gather(p, states[c], states[c + 1]) # Gather(p, states[c - 1], states[c])]_vars

(* A partition is skipped only if its own inputs equal those it had in the *)
(* previous cycle (README.md "Conservative Event Pruning").                *)
SkipNeedsOwnInputsUnchanged ==
  [][\A b \in Block :
       LET p == Current(b)
           c == cycle[b]
       IN  Skip(b) =>
             Sig(Gather(p, states[c], states[c + 1]))
               = Sig(Gather(p, states[c - 1], states[c]))]_vars

(* Every block leaves the last barrier: no block waits for ever. *)
Completes == <>Finished

(* The kernel implements the dataflow semantics: the same waveform, the    *)
(* same memories and the same activity counters as if every partition had  *)
(* been evaluated in every cycle.                                          *)
Dataflow == INSTANCE DataflowSim WITH
  done <- Completed,
  activity <- [k \in Slot |->
                 [cycles        |-> profile[k].cycles,
                  inputChanged  |-> profile[k].inputChanged,
                  outputChanged |-> profile[k].outputChanged,
                  toggles       |-> profile[k].toggles]]

ImplementsDataflow == Dataflow!Spec
============================================================================
