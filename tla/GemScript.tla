----------------------------- MODULE GemScript -----------------------------
(***************************************************************************)
(* The flattened script a GEM simulation executes, as the kernel reads it. *)
(*                                                                         *)
(* src/flatten.rs cuts the circuit into major stages and spreads the       *)
(* partitions of each stage over the thread blocks; a partition gathers    *)
(* state bits, evaluates its and-inverter logic, runs its SRAM ports and   *)
(* writes its own range of output bits under clock enables.  This module   *)
(* holds what is fixed during a run: who owns what, who reads what, and    *)
(* the circuit's functions.  A state word is abstracted to its bits.       *)
(***************************************************************************)
EXTENDS Integers, Sequences, FiniteSets

CONSTANTS
  Block,        \* thread blocks of the cooperative grid
  NumStages,    \* num_major_stages
  NumCycles,    \* number of simulated cycles (timestamps fed by the host)
  Warmup,       \* --profile-warmup-cycles
  Part,         \* partitions
  Bit,          \* bits of one state vector: input bits and partition outputs
  Addr,         \* SRAM addresses
  Script,       \* Script[<<stage, block>>]: the partitions in that slot, in order
  Reads,        \* Reads[p]: the gather list, [bit, staged] entries
  Outs,         \* Outs[p]: the bits partition p writes (io_offset, num_ios)
  Srams,        \* Srams[p]: those of Outs[p] that are SRAM read ports
  Eval(_, _),   \* Eval(x, in): value the boomerang stages compute for bit x
  ClkEn(_, _),  \* ClkEn(x, in): clock enable of output bit x
  RAddr(_, _), WAddr(_, _), WEn(_, _), WData(_, _)  \* ports of SRAM x

Stage == 0 .. NumStages - 1
Slot  == Stage \X Block

ASSUME RunAssumption ==
  /\ NumStages \in Nat \ {0}
  /\ NumCycles \in Nat
  /\ Warmup \in Nat
  /\ Block # {}

(* A partition is placed exactly once, owns its output bits alone, and     *)
(* gathers from the output state only bits an earlier stage produces.      *)
ASSUME ScriptAssumption ==
  /\ Script \in [Slot -> Seq(Part)]
  /\ \A k, l \in Slot : \A i \in 1 .. Len(Script[k]), j \in 1 .. Len(Script[l]) :
       Script[k][i] = Script[l][j] => k = l /\ i = j
  /\ \A p \in Part : \E k \in Slot : \E i \in 1 .. Len(Script[k]) : Script[k][i] = p

ASSUME OutsAssumption ==
  /\ Outs \in [Part -> SUBSET Bit]
  /\ Srams \in [Part -> SUBSET Bit]
  /\ \A p \in Part : Srams[p] \subseteq Outs[p] /\ IsFiniteSet(Outs[p])
  /\ \A p, q \in Part : p # q => Outs[p] \cap Outs[q] = {}

Entry == [bit : Bit, staged : BOOLEAN]

ASSUME ReadsAssumption ==
  /\ Reads \in [Part -> Seq(Entry)]
  /\ \A k \in Slot : \A i \in 1 .. Len(Script[k]) :
       LET p == Script[k][i]
       IN  \A n \in 1 .. Len(Reads[p]) :
             Reads[p][n].staged =>
               \E l \in Slot : \E j \in 1 .. Len(Script[l]) :
                 /\ l[1] < k[1]
                 /\ Reads[p][n].bit \in Outs[Script[l][j]]

PackedInput(p) == [1 .. Len(Reads[p]) -> BOOLEAN]

ASSUME CircuitAssumption ==
  \A p \in Part : \A x \in Outs[p], in \in PackedInput(p) :
    /\ Eval(x, in) \in BOOLEAN
    /\ ClkEn(x, in) \in BOOLEAN
    /\ x \in Srams[p] =>
         /\ WEn(x, in) \in BOOLEAN
         /\ WData(x, in) \in BOOLEAN
         /\ RAddr(x, in) \in Addr
         /\ WAddr(x, in) \in Addr

StateVector == [Bit -> BOOLEAN]
Memory      == [Addr -> BOOLEAN]
InputBit    == Bit \ UNION {Outs[p] : p \in Part}
SramBit     == UNION {Srams[p] : p \in Part}

SlotOf(p) == CHOOSE k \in Slot : \E i \in 1 .. Len(Script[k]) : Script[k][i] = p

----------------------------------------------------------------------------
(* The packed inputs of a partition: entry (idx, mask) of the gather list  *)
(* reads the state before the cycle, or, when bit 31 of idx is set, the    *)
(* state the cycle is producing.                                           *)
Gather(p, before, after) ==
  [n \in 1 .. Len(Reads[p]) |->
     IF Reads[p][n].staged THEN after[Reads[p][n].bit]
                           ELSE before[Reads[p][n].bit]]

(* The value offered to output bit x: the SRAM read result for a RAM port, *)
(* the evaluated logic otherwise.                                          *)
NewBit(p, x, in, memory) ==
  IF x \in Srams[p] THEN memory[x][RAddr(x, in)] ELSE Eval(x, in)

(* wo = (old & ~clken) | (new & clken) *)
WriteOut(p, x, in, old, memory) ==
  IF ClkEn(x, in) THEN NewBit(p, x, in, memory) ELSE old

(* A state vector with the bits of partition p replaced by new[x]. *)
Overwrite(state, p, new) ==
  [x \in Bit |-> IF x \in Outs[p] THEN new[x] ELSE state[x]]

(* The bits of p written by one execution, given the state before it. *)
Evaluate(p, in, before, memory) ==
  [x \in Outs[p] |-> WriteOut(p, x, in, before[x], memory)]

(* Each RAM the partition owns commits its write port.  The read above and *)
(* the old word both come from the memory before the write.                *)
CommitRam(p, in, memory) ==
  [x \in SramBit |->
     IF x \in Srams[p] /\ WEn(x, in)
     THEN [memory[x] EXCEPT ![WAddr(x, in)] = WData(x, in)]
     ELSE memory[x]]

(* popcount of old ^ new over the partition's outputs *)
Toggled(p, before, after) == Cardinality({x \in Outs[p] : before[x] # after[x]})

One(condition) == IF condition THEN 1 ELSE 0
============================================================================
