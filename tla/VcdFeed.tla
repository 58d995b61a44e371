------------------------------ MODULE VcdFeed ------------------------------
(***************************************************************************)
(* The host side of cuda_test: it reads the input VCD token by token,      *)
(* turns it into rows of input bits, one per simulated cycle, has them     *)
(* simulated, and writes the output VCD.  A row holds the pins as they     *)
(* were before the timestamp, whose own changes wait in                    *)
(* delayed_bit_changes, and the edge flags of the timestamp.               *)
(***************************************************************************)
EXTENDS Testbench

CONSTANT OneChangePerTime  \* no pin of the file changes twice at one timestamp

VARIABLES
  wire,          \* the file: pins whose last value read is 1
  vcdTime,       \* vcd_time
  lastActive,    \* vcd_time_last_active
  active,        \* last_vcd_time_active
  level,         \* state: bits of the pins
  flags,         \* state: edge flags of clock_pin2aigpins
  delayed,       \* delayed_bit_changes
  rows,          \* input_states and offsets_timestamps
  phase,         \* what main is doing
  results,       \* outputs the kernel left for each cycle
  next,          \* the writer's position in offsets_timestamps
  dump,          \* the output VCD: timestamps with the values changed there
  lastVal        \* last_val: outputs and what was last written for them

reading == <<wire, vcdTime, lastActive, active, level, flags, delayed>>
writing == <<results, next, dump, lastVal>>
vars == <<reading, rows, phase, writing>>

Value == {"0", "1", "x"}
Row == [level : SUBSET Pin, flags : SUBSET Watched, stamp : Time \cup {Never}]

Init ==
  /\ wire = {} /\ level = {} /\ flags = {} /\ delayed = {}
  /\ vcdTime = 0 /\ lastActive = Never /\ active = TRUE
  /\ rows = <<>> /\ results = <<>> /\ dump = <<>> /\ next = 1
  /\ lastVal = [o \in {} |-> FALSE]
  /\ phase = "read"

----------------------------------------------------------------------------
Toggle(A, B) == (A \ B) \cup (B \ A)

(* The edge flags a change of pin p raises, given the old values.          *)
Raised(p) ==
  {e \in Watched : e[1] = p /\ e[2] = IF p \in level THEN "negedge" ELSE "posedge"}

(* The value is compared with the one before the timestamp; x and z are 0. *)
Unchanged(p, v) == (v = "1") <=> (p \in level)

(* One bit of a change token for a matched input port.                     *)
ChangeTo(p, v) ==
  /\ phase = "read"
  /\ OneChangePerTime => p \notin delayed \/ ((v = "1") <=> p \in wire)
  /\ wire' = IF v = "1" THEN wire \cup {p} ELSE wire \ {p}
  /\ IF Unchanged(p, v)
     THEN UNCHANGED <<active, flags, delayed>>
     ELSE /\ flags' = flags \cup Raised(p)
          /\ active' = (active \/ Raised(p) # {})
          /\ delayed' = delayed \cup {p}
  /\ UNCHANGED <<vcdTime, lastActive, level, rows, phase, writing>>

RowWithChanges ==
  Append(rows, [level |-> Toggle(level, delayed), flags |-> flags, stamp |-> lastActive])

NewRow == Append(rows, [level |-> level, flags |-> flags, stamp |-> lastActive])

LimitReached(n) == n >= MaxCycles

LabelWhenIdle == IF active THEN lastActive ELSE vcdTime

NextLabel == IF active THEN vcdTime ELSE lastActive

(* A timestamp token closes the one before it; one that repeats vcd_time   *)
(* is passed over.                                                         *)
Timestamp(t) ==
  /\ phase = "read"
  /\ t > vcdTime
  /\ ~ (active /\ LimitReached(Len(NewRow)))
  /\ rows' = IF active THEN NewRow ELSE rows
  /\ flags' = IF active THEN {} ELSE flags
  /\ lastActive' = NextLabel
  /\ vcdTime' = t
  /\ active' = FALSE
  /\ level' = Toggle(level, delayed)
  /\ delayed' = {}
  /\ UNCHANGED <<wire, phase, writing>>

(* "reached maximum cycles, stop reading input vcd"                        *)
StopAtLimit ==
  /\ phase = "read"
  /\ \E t \in Time : t > vcdTime
  /\ active /\ LimitReached(Len(NewRow))
  /\ rows' = NewRow
  /\ flags' = {}
  /\ phase' = "simulate"
  /\ UNCHANGED <<wire, vcdTime, lastActive, active, level, delayed, writing>>

EndOfFile ==
  /\ phase = "read"
  /\ phase' = "simulate"
  /\ UNCHANGED <<reading, rows, writing>>

----------------------------------------------------------------------------
(* The kernel reads a row and the registers before it, and leaves both the *)
(* outputs and the next registers.                                         *)
Registers(rs) ==
  LET after[n \in 0 .. Len(rs)] ==
        IF n = 0 THEN {} ELSE Latch(after[n - 1], rs[n].level, rs[n].flags)
  IN  after

Outputs(rs) == [n \in 1 .. Len(rs) |-> Out(Registers(rs)[n - 1], rs[n].level)]

Simulate ==
  /\ phase = "simulate"
  /\ results' = Outputs(rows)
  /\ phase' = "write"
  /\ UNCHANGED <<reading, rows, next, dump, lastVal>>

DifferingFromZero(vals) ==
  {o \in Output : IF o \in DOMAIN lastVal THEN lastVal[o] # vals[o] ELSE vals[o]}

(* Outputs that differ from what was last written; at first nothing was    *)
(* (last_val is 2), so all do.                                             *)
Differing(vals) == {o \in Output : o \notin DOMAIN lastVal \/ lastVal[o] # vals[o]}

WriteStamp ==
  /\ phase = "write" /\ next <= Len(rows)
  /\ rows[next].stamp # Never
  /\ LET vals == [o \in Output |-> o \in results[next]]
     IN  /\ dump' = Append(dump, [stamp |-> rows[next].stamp,
                                  values |-> [o \in Differing(vals) |-> vals[o]]])
         /\ lastVal' = vals
  /\ next' = next + 1
  /\ UNCHANGED <<reading, rows, phase, results>>

SkipUnstamped ==
  /\ phase = "write" /\ next <= Len(rows)
  /\ rows[next].stamp = Never
  /\ next' = next + 1
  /\ UNCHANGED <<reading, rows, phase, results, dump, lastVal>>

Finish ==
  /\ phase = "write" /\ next > Len(rows)
  /\ phase' = "done"
  /\ UNCHANGED <<reading, rows, writing>>

Done == phase = "done" /\ UNCHANGED vars

Next ==
  \/ \E p \in Pin, v \in Value : ChangeTo(p, v)
  \/ \E t \in Time : Timestamp(t)
  \/ StopAtLimit
  \/ EndOfFile
  \/ Simulate
  \/ WriteStamp
  \/ SkipUnstamped
  \/ Finish
  \/ Done

Spec == Init /\ [][Next]_vars

----------------------------------------------------------------------------
(* The rows are those of an event-driven simulator: each active timestamp  *)
(* gives one row, with exactly its edges, the pins before it and the stamp *)
(* of the active timestamp before it.                                      *)
Samples ==
  [n \in 1 .. Len(rows) |-> [stamp |-> rows[n].stamp, out |-> Outputs(rows)[n]]]

Events == INSTANCE EventSim
  WITH time <- vcdTime, before <- level, wire <- Toggle(level, delayed),
       latched <- Registers(rows)[Len(rows)], label <- lastActive,
       samples <- Samples, open <- phase = "read"

ImplementsEventSim == Events!Spec

With(old, new) ==
  [o \in DOMAIN new \cup DOMAIN old |-> IF o \in DOMAIN new THEN new[o] ELSE old[o]]

(* What a reader of the entries has seen of the outputs after each.        *)
Shown(entries) ==
  LET shown[n \in 0 .. Len(entries)] ==
        IF n = 0 THEN [o \in {} |-> FALSE] ELSE With(shown[n - 1], entries[n].values)
  IN  shown

(* The first sample has no timestamp and is not shown; at each timestamp   *)
(* of the output VCD a reader sees the sample that belongs there, although *)
(* only changes are written; and in the end every stamped sample is there. *)
DumpShowsSamples ==
  /\ \A n \in 1 .. Len(Samples) : Samples[n].stamp = Never <=> n = 1
  /\ phase = "done" => Len(dump) = IF rows = <<>> THEN 0 ELSE Len(Samples) - 1
  /\ \A n \in 1 .. Len(dump) :
       /\ dump[n].stamp = Samples[n + 1].stamp
       /\ Shown(dump)[n] = [o \in Output |-> o \in Samples[n + 1].out]

(* Timestamps of the output VCD increase strictly, as the format demands,  *)
(* and lie before the last timestamp read.                                 *)
StampsIncrease ==
  /\ \A n \in 1 .. Len(dump) : dump[n].stamp < vcdTime
  /\ \A m, n \in 1 .. Len(dump) : m < n => dump[m].stamp < dump[n].stamp
============================================================================
