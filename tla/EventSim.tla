------------------------------ MODULE EventSim ------------------------------
(***************************************************************************)
(* What the simulation of an input waveform promises: an event-driven      *)
(* simulator.  Registers latch, at the edges of a timestamp, what their    *)
(* inputs were before it; then the circuit sees the timestamp's values.    *)
(* The outputs are sampled just before each timestamp that has an edge,    *)
(* and belong to the one before it that had one.  The time at which the    *)
(* simulation starts counts as such a timestamp.                           *)
(***************************************************************************)
EXTENDS Testbench

VARIABLES
  time,     \* the timestamp whose changes are being read
  before,   \* pins that were 1 when it began
  wire,     \* pins that are 1 now
  latched,  \* registers that are 1
  label,    \* the last earlier timestamp that had an edge
  samples,  \* stamped outputs
  open      \* the waveform has not ended

vars == <<time, before, wire, latched, label, samples, open>>

Init ==
  /\ time = 0 /\ label = Never
  /\ before = {} /\ wire = {} /\ latched = {}
  /\ samples = <<>>
  /\ open = TRUE

Change ==
  /\ open
  /\ wire' \in SUBSET Pin
  /\ UNCHANGED <<time, before, latched, label, samples, open>>

HasEdge == samples = <<>> \/ EdgesBetween(before, wire) # {}

Sample ==
  /\ samples' = Append(samples, [stamp |-> label, out |-> Out(latched, before)])
  /\ latched' = Latch(latched, before, EdgesBetween(before, wire))

Advance ==
  /\ open
  /\ time' \in {t \in Time : t > time}
  /\ before' = wire
  /\ IF HasEdge
     THEN Sample /\ label' = time /\ Len(samples') < MaxCycles
     ELSE UNCHANGED <<latched, label, samples>>
  /\ UNCHANGED <<wire, open>>

(* The waveform ends, or the cycle limit is reached. *)
Stop ==
  /\ open
  /\ open' = FALSE
  /\ \/ UNCHANGED <<latched, samples>>
     \/ HasEdge /\ Sample /\ Len(samples') >= MaxCycles
  /\ UNCHANGED <<time, before, wire, label>>

Next == Change \/ Advance \/ Stop

Spec == Init /\ [][Next]_vars
============================================================================
