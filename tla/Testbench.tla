----------------------------- MODULE Testbench -----------------------------
(***************************************************************************)
(* The circuit and the input waveform a testbench is made of.  Pins,       *)
(* registers and outputs are Boolean; a set of them holds those that are 1.*)
(* The circuit itself is the subject of GemScript and GemActive; here it   *)
(* is two functions.                                                       *)
(***************************************************************************)
EXTENDS Naturals, Sequences

CONSTANTS
  Pin,          \* input ports of the circuit
  Watched,      \* <<pin, direction>> pairs: the clock edges registers use
  Reg,          \* registers
  Output,       \* output ports
  MaxTime,      \* bound: the last timestamp of a waveform
  MaxCycles,    \* --max-cycles
  Latch(_,_,_), \* registers after edges, from registers and pins before them
  Out(_,_)      \* outputs set, from registers and pins

Direction == {"posedge", "negedge"}

ASSUME CircuitAssumption ==
  /\ Watched \subseteq Pin \X Direction
  /\ \A q \in SUBSET Reg, ins \in SUBSET Pin :
       /\ Out(q, ins) \subseteq Output
       /\ \A e \in SUBSET Watched : Latch(q, ins, e) \subseteq Reg
ASSUME BoundAssumption == MaxTime \in Nat /\ MaxCycles \in Nat \ {0}

(* Timestamps are u64 and u64::MAX stands for none. *)
Time == 0 .. MaxTime
Never == MaxTime + 1

EdgesBetween(old, new) ==
  {e \in Watched : \/ e[2] = "posedge" /\ e[1] \in new \ old
                   \/ e[2] = "negedge" /\ e[1] \in old \ new}
============================================================================
