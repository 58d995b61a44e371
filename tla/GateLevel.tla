----------------------------- MODULE GateLevel -----------------------------
(***************************************************************************)
(* A design once it is built, timestamp by timestamp: the graph that GEM   *)
(* simulates, and naive_sim, which runs on the netlist, read the same      *)
(* input file.  Registers take the values from before the timestamp.       *)
(***************************************************************************)
EXTENDS AigBuild

CONSTANT MaxInputs  \* designs with more input bits are built, not simulated

VARIABLES
  ones,    \* the driving pins that are 1: input ports, registers, memory
           \* outputs, and the latches of clock gates, at their outputs
  memory,  \* the bits <<cell, address, bit>> that are 1
  naive    \* [runs, topo, circ (pins that are 1), memory, seen (the inputs
           \* when it last propagated, or <<>>)]

simVars == <<ones, memory, naive>>
vars == <<buildVars, simVars>>

NotStarted == [runs |-> FALSE, topo |-> <<>>, circ |-> {}, memory |-> {}, seen |-> <<>>]
Init == BuildInit /\ ones = {} /\ memory = {} /\ naive = NotStarted

InputPorts == {p \in Pins : IsPort(p) /\ ~IsInput(p)}
GivenPorts == {p \in InputPorts : db.dir[p] = "O"}
ClockGatePins == {p \in Pins : ~IsInput(p) /\ TypeOf(db.cell[p]) = "CKLNQD"}
Registers == {c \in Cells : IsRegister(c)}
Memories == {c \in Cells : IsMemory(c)}
Levels == ones \cap InputPorts

----------------------------------------------------------------------------
(* The edges of a timestamp; it is simulated if one of them is watched.    *)
Edges(before, after) ==
  {<<p, 0>> : p \in after \ before} \cup {<<p, 1>> : p \in before \ after}
Watched == {<<d.a, d.b>> : d \in {d \in ToSet(aig.drivers) : d.kind = "clock"}}

Address(bits) == FoldLeft(LAMBDA n, i : n + IF bits[i] THEN 2^(i - 1) ELSE 0, 0, Upto(Len(bits)))
Overwritten(mem, c, addr, enabled, data) ==
  {b \in mem : ~(b[1] = c /\ b[2] = addr /\ b[3] \in enabled)} \cup {<<c, addr, k>> : k \in enabled \cap data}

(* What the endpoints of the graph store.                                  *)
GraphBits(graph, lits) == [i \in DOMAIN lits |-> LitValue(aig.drivers, graph, lits[i])]
GraphSet(graph, lits) == {i \in DOMAIN lits : LitValue(aig.drivers, graph, lits[i])}

StoredRegisters(graph) ==
  {RegisterPin(e.cell) : e \in {e \in ToSet(aig.dffs) :
     IF LitValue(aig.drivers, graph, e.en) THEN LitValue(aig.drivers, graph, e.d) ELSE RegisterPin(e.cell) \in ones}}
ReadBits(graph, e) ==
  LET addr == Address(GraphBits(graph, e.raddr))
  IN  {DataPins(e.cell)[k] : k \in {k \in 1 .. DataWidth :
         IF LitValue(aig.drivers, graph, e.ren) THEN <<e.cell, addr, k>> \in memory ELSE DataPins(e.cell)[k] \in ones}}
StoredMemory(graph) ==
  FoldLeft(LAMBDA mem, e : Overwritten(mem, e.cell, Address(GraphBits(graph, e.waddr)),
                                       GraphSet(graph, e.wen), GraphSet(graph, e.wdata)),
           memory, aig.srams)

----------------------------------------------------------------------------
(* The same of the netlist.  The latch of a clock gate follows its enable  *)
(* while its clock is low; reset goes before set; a memory reads what was  *)
(* there before it writes.  Both its ports have the same clock             *)
(* (memlib_yosys.txt:7): the library reads with PORT_W_CLK, the graph with *)
(* PORT_R_CLK.                                                             *)
At(v, c, name, otherwise) == IF CellPin(c, name) = 0 THEN otherwise ELSE NetValue(v, CellPin(c, name))
BitsAt(v, c, name, n) == [i \in 1 .. n |-> LET p == BitPins(c, name, n)[i] IN p # 0 /\ NetValue(v, p)]
BitSet(v, c, name) == {k \in 1 .. DataWidth : BitsAt(v, c, name, DataWidth)[k]}

LatchesAfter(v) ==
  {p \in ClockGatePins : IF At(v, db.cell[p], "CP", FALSE) THEN p \in v ELSE At(v, db.cell[p], "E", FALSE)}

Rises(v, then, c, name) == ~At(v, c, name, FALSE) /\ At(then, c, name, FALSE)

RegistersAfter(v, then) ==
  {RegisterPin(c) : c \in {c \in Registers :
     /\ At(v, c, "R", TRUE)
     /\ IF ~At(v, c, "S", TRUE) THEN TRUE
        ELSE IF Rises(v, then, c, "CLK") THEN At(v, c, "D", FALSE) ELSE RegisterPin(c) \in v}}
OutputsAfter(v, mem, then) ==
  UNION {{DataPins(c)[k] : k \in {k \in 1 .. DataWidth :
            IF Rises(v, then, c, "PORT_W_CLK")
            THEN <<c, Address(BitsAt(v, c, "PORT_R_ADDR", AddrWidth)), k>> \in mem
            ELSE DataPins(c)[k] \in v}} : c \in Memories}
MemoryAfter(v, mem, then) ==
  FoldSet(LAMBDA c, m : Overwritten(m, c, Address(BitsAt(v, c, "PORT_W_ADDR", AddrWidth)),
                                    BitSet(v, c, "PORT_W_WR_EN"), BitSet(v, c, "PORT_W_WR_DATA")),
          mem, {c \in Memories : Rises(v, then, c, "PORT_W_CLK")})

(* The levels and latches right after the timestamp, the registers as they *)
(* were.                                                                   *)
Between(v, after) == (v \ (InputPorts \cup ClockGatePins)) \cup after \cup LatchesAfter(v)
NetAfter(v, mem, then) ==
  [ones |-> (then \cap (InputPorts \cup ClockGatePins)) \cup RegistersAfter(v, then) \cup OutputsAfter(v, mem, then),
   memory |-> MemoryAfter(v, mem, then)]

----------------------------------------------------------------------------
(* naive_sim.  It watches the ports that clock registers and memories, and *)
(* takes no clock gates; only its own cells count.                         *)
NaiveCells == {c \in Cells \ {1} : TypeOf(c) \in {"DFF", "$__RAMGEM_SYNC_"}}
NaiveClockPins ==
  {p \in UNION {ToSet(PinsNamed(c, {"CLK", "PORT_R_CLK", "PORT_W_CLK"})) : c \in NaiveCells} : ~IsConstant(p)}
PosedgeMonitor == {Root(p) : p \in NaiveClockPins}

NaiveBefore(p) ==
  IF IsInput(p) THEN IF IsConstant(p) THEN <<>> ELSE <<Root(p)>>
  ELSE PinsNamed(db.cell[p], {"A", "B"})

RECURSIVE NaiveDfs(_, _)
NaiveDfs(t, p) ==
  IF p \in t.vis THEN t
  ELSE LET u == FoldLeft(LAMBDA s, q : NaiveDfs(s, q), [t EXCEPT !.vis = @ \cup {p}], NaiveBefore(p))
       IN  [u EXCEPT !.order = Append(@, p)]

NaiveInputs == {"D", "PORT_R_ADDR", "PORT_W_WR_EN", "PORT_W_ADDR", "PORT_W_WR_DATA"}
NaiveTopo ==
  LET inputs == (InputPorts \ PosedgeMonitor)
                \cup UNION {ToSet(PinsNamed(c, {"Q", "PORT_R_RD_DATA"})) : c \in NaiveCells}
      from == SelectSeq(CellPins(1), LAMBDA p : IsInput(p))
              \o FoldLeft(LAMBDA s, c : IF c \in NaiveCells THEN s \o PinsNamed(c, NaiveInputs) ELSE s,
                          <<>>, Upto(Len(db.cells)))
  IN  FoldLeft(LAMBDA t, p : NaiveDfs(t, p), [order |-> <<>>, vis |-> inputs], from).order

Supported == \A p \in PosedgeMonitor : IsPort(p)

StartNaive ==
  /\ phase = "built" /\ Cardinality(InputPorts) <= MaxInputs
  /\ naive' = [NotStarted EXCEPT !.runs = Supported, !.topo = NaiveTopo,
                                 !.circ = {p \in Pins : IsConstant(p) /\ ConstantOf(p) = 1}]
  /\ phase' = "simulate"
  /\ UNCHANGED <<design, build, calls, db, aig, at, ones, memory>>

(* A clock that is also logic is in the order, and then no gate is found.  *)
OnlyGates == \A p \in ToSet(naive.topo) :
               IsInput(p) \/ TypeOf(db.cell[p]) \in {"AND2_00_0", "AND2_01_0", "AND2_10_0", "AND2_11_0",
                                                     "AND2_11_1", "INV", "BUF"}

PutBit(circ, p, bit) == IF bit THEN circ \cup {p} ELSE circ \ {p}
Propagated(circ) ==
  FoldLeft(LAMBDA s, p :
             LET c == db.cell[p]
             IN  CASE IsInput(p) -> IF IsConstant(p) THEN s ELSE PutBit(s, p, Root(p) \in s)
                   [] OTHER -> PutBit(s, p, GateValue(TypeOf(c), CellPin(c, "A") \in s, CellPin(c, "B") \in s)),
           circ, naive.topo)

NaiveBits(circ, c, name, n) == [i \in 1 .. n |-> BitPins(c, name, n)[i] \in circ]
NaiveSet(circ, c, name) == {k \in 1 .. DataWidth : NaiveBits(circ, c, name, DataWidth)[k]}

(* Mutant: the inputs are propagated before the registers latch. *)
LatchSettled(circ) ==
  LET settled == Propagated(circ)
  IN  FoldSet(LAMBDA c, s : PutBit(s, RegisterPin(c), CellPin(c, "D") \in settled), settled,
              {c \in NaiveCells : TypeOf(c) = "DFF"})
NaiveLatch(circ) ==
  FoldSet(LAMBDA c, s : PutBit(s, RegisterPin(c), CellPin(c, "D") \in s), circ,
          {c \in NaiveCells : TypeOf(c) = "DFF"})

NaiveRead(circ, mem) ==
  FoldSet(LAMBDA c, s :
            (s \ ToSet(DataPins(c)))
            \cup {DataPins(c)[k] : k \in {k \in 1 .. DataWidth :
                    <<c, Address(NaiveBits(circ, c, "PORT_R_ADDR", AddrWidth)), k>> \in mem}},
          circ, NaiveCells \cap Memories)
NaiveWrite(circ, mem) ==
  FoldSet(LAMBDA c, m : Overwritten(m, c, Address(NaiveBits(circ, c, "PORT_W_ADDR", AddrWidth)),
                                    NaiveSet(circ, c, "PORT_W_WR_EN"), NaiveSet(circ, c, "PORT_W_WR_DATA")),
          mem, NaiveCells \cap Memories)

(* The values of a timestamp, and, when the next one comes, the registers  *)
(* and the logic if a clock rose.  The clock ports are then set to 0.      *)
NaiveTimestamp(before, after) ==
  LET circ == (naive.circ \ (before \ after)) \cup (after \ before)
      rises == (after \ before) \cap PosedgeMonitor # {}
  IN  CASE ~naive.runs -> naive
        [] naive.runs /\ rises /\ ~OnlyGates -> [naive EXCEPT !.runs = FALSE]
        [] naive.runs /\ rises /\ OnlyGates ->
             [naive EXCEPT !.circ = Propagated(NaiveRead(NaiveLatch(circ), naive.memory)) \ PosedgeMonitor,
                           !.memory = NaiveWrite(circ, @), !.seen = <<after>>]
        [] OTHER -> [naive EXCEPT !.circ = circ \ PosedgeMonitor]

----------------------------------------------------------------------------
(* A timestamp with new levels of the inputs; inout ports stay 0.  Set     *)
(* and reset come and go with edges that are simulated.                    *)
Forced == \E c \in Registers : TypeOf(c) = "DFFSR"
ClockPorts == {e[1] : e \in Watched}

Timestamp ==
  /\ phase = "simulate"
  /\ \E after \in SUBSET GivenPorts :
       /\ Forced /\ Edges(Levels, after) \cap Watched = {} => after \ ClockPorts = Levels \ ClockPorts
       /\ \E edges \in {Edges(Levels, after)} : \E graph \in {GraphOnes(ones, edges)} :
            IF edges \cap Watched = {}
            THEN ones' = Between(ones, after) /\ UNCHANGED memory
            ELSE /\ ones' = after \cup LatchesAfter(ones) \cup StoredRegisters(graph)
                            \cup UNION {ReadBits(graph, e) : e \in ToSet(aig.srams)}
                 /\ memory' = StoredMemory(graph)
       /\ naive' = NaiveTimestamp(Levels, after)
  /\ UNCHANGED buildVars

Next ==
  \/ BuildNext /\ UNCHANGED simVars
  \/ StartNaive \/ Timestamp

Spec == Init /\ [][Next]_vars

----------------------------------------------------------------------------
(* A timestamp takes the registers, memory outputs and memories of the     *)
(* graph where it takes those of the netlist, as the cell library          *)
(* describes them: with clocks inverted and gated, enables that depend on  *)
(* registers, set and reset, several clocks, and whether the timestamp is  *)
(* simulated or passed over (aig.rs:497-554, aigpdk.v).                    *)
RegistersAgree ==
  [][phase = "simulate" /\ phase' = phase =>
       \A net \in {NetAfter(ones, memory, Between(ones, ones' \cap InputPorts))} :
         /\ \A p \in StatePins : NetValue(ones', p) = NetValue(net.ones, p)
         /\ memory' = net.memory]_vars

(* naive_sim may be used to check GEM: once it has propagated, and as long *)
(* as inputs change only with the one clock that all registers have, its   *)
(* registers and memories take the next values of the netlist, and the     *)
(* outputs it writes are those of the netlist (naive_sim.rs:392-544).      *)
OneClock ==
  /\ Cardinality(PosedgeMonitor) = 1
  /\ \A c \in Cells : IsRegister(c) \/ IsMemory(c) =>
       c \in NaiveCells /\ \A p \in ToSet(PinsNamed(c, {"CLK", "PORT_R_CLK", "PORT_W_CLK"})) : ~IsConstant(p)
NaiveState(v) == ((naive.circ \cap StatePins) \ InputPorts) \cup v
Settled == naive.seen # <<>> /\ \A inputs \in ToSet(naive.seen) : inputs \ PosedgeMonitor = Levels \ PosedgeMonitor
NaiveFollows ==
  [][phase = "simulate" /\ naive.runs /\ naive'.runs /\ OneClock /\ Settled
     /\ (ones' \ ones) \cap PosedgeMonitor # {} =>
       \A v \in {NaiveState(Levels)} :
       \A net \in {NetAfter(v, naive.memory, Between(v, ones' \cap InputPorts))} :
         /\ \A p \in Pins : p \notin InputPorts /\ (p \in StatePins \/ (IsPort(p) /\ IsInput(p))) =>
              ((p \in naive'.circ) <=> NetValue(net.ones, p))
         /\ naive'.memory = net.memory]_vars
============================================================================
