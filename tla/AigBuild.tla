------------------------------ MODULE AigBuild ------------------------------
(***************************************************************************)
(* From a netlist to an and-inverter graph: the clocks of the registers    *)
(* are traced back to ports, each logic pin gets a literal, registers and  *)
(* memories get their enables, and compressed rows list the fanouts.  The  *)
(* graph is [drivers, lit, dffs, srams, outputs] with, while it is built,  *)
(* the pins visited and on the stack, the literal last returned and        *)
(* whether all assertions held.                                            *)
(***************************************************************************)
EXTENDS Netlist

VARIABLES
  aig,
  at   \* the cell or pin whose turn it is

buildVars == <<netVars, aig, at>>

NoAig == [drivers |-> <<>>, ok |-> TRUE]
NoFanouts == [start |-> <<>>, items |-> <<>>]
BuildInit == NetInit /\ aig = NoAig /\ at = 1

----------------------------------------------------------------------------
Cells == DOMAIN db.cells
Pins == DOMAIN db.names
TypeOf(c) == db.cells[c].type
PinName(p) == db.names[p][2]
IsRegister(c) == c > 1 /\ TypeOf(c) \in {"DFF", "DFFSR"}
IsMemory(c) == c > 1 /\ TypeOf(c) = "$__RAMGEM_SYNC_"
IsPort(p) == db.cell[p] = 1
IsInput(p) == db.dir[p] = "I"

CellPins(c) == IterSet(db.cellPins, c)
PinsNamed(c, names) == SelectSeq(CellPins(c), LAMBDA p : PinName(p) \in names)
CellPin(c, name) == LET ps == PinsNamed(c, {name}) IN IF ps = <<>> THEN 0 ELSE Last(ps)

(* The bits 0 to n - 1 of a memory's port, 0 for one left open. *)
BitPins(c, name, n) ==
  [i \in 1 .. n |-> SelectInSeq(db.names, LAMBDA k : k = <<db.cells[c].hier, name, <<i - 1>>>>)]

Root(p) == db.netPins.items[db.netPins.start[db.net[p]] + 1]
IsConstant(p) == db.net[p] \in {db.zero, db.one}
ConstantOf(p) == IF db.net[p] = db.zero THEN 0 ELSE 1

----------------------------------------------------------------------------
Broken(a) == [a EXCEPT !.ok = FALSE, !.out = Free]
Returned(a, l) == [a EXCEPT !.out = l]

AddPin(a, driver) == [a EXCEPT !.drivers = Append(@, driver), !.out = 2 * Len(a.drivers) + 2]

(* One pin for equal gates, and one for each edge of a clock. *)
Shared(a, driver) ==
  LET p == SelectInSeq(a.drivers, LAMBDA d : d = driver)
  IN  IF p = 0 THEN AddPin(a, driver) ELSE Returned(a, 2 * p)

AddAnd(a, x, y) ==
  CASE ~a.ok \/ x < 0 \/ y < 0 -> Broken(a)
    [] x = 0 \/ y = 0 -> Returned(a, 0)
    [] x = 1 -> Returned(a, y)
    [] y = 1 -> Returned(a, x)
    [] OTHER -> Shared(a, AndGate(Min({x, y}), Max({x, y})))

(* x or not y, which is how an active low input y forces a 1. *)
OrNot(a, x, y) ==
  LET b == AddAnd(a, Flip(x), y) IN IF b.ok THEN Returned(b, Flip(b.out)) ELSE b

----------------------------------------------------------------------------
(* A clock pin back to its port, with the polarity of the edge on the way. *)
(* A trace that meets a pin again would not end.                           *)
ClockGates == {"INV", "BUF", "CKLNQD"}
ClockIn(c) == CellPin(c, IF TypeOf(c) = "CKLNQD" THEN "CP" ELSE "A")

Gated(a, c, ignore) ==
  IF TypeOf(c) # "CKLNQD" \/ ignore \/ ~a.ok THEN a
  ELSE AddAnd(a, a.out, a.lit[CellPin(c, "E")])

RECURSIVE TraceClockPin(_, _, _, _, _)
TraceClockPin(a, p, negedge, ignore, seen) ==
  LET c == db.cell[p]
  IN  CASE ~a.ok \/ p \in seen -> Broken(a)
        [] IsInput(p) /\ IsConstant(p) -> Returned(a, 0)
        [] IsInput(p) /\ ~IsConstant(p) -> TraceClockPin(a, Root(p), negedge, ignore, seen \cup {p})
        [] ~IsInput(p) /\ IsPort(p) -> Shared(a, [kind |-> "clock", a |-> p, b |-> IF negedge THEN 1 ELSE 0])
        [] OTHER ->
             IF \/ TypeOf(c) \notin ClockGates \/ ClockIn(c) = 0
                \/ TypeOf(c) = "CKLNQD" /\ CellPin(c, "E") = 0
             THEN Broken(a)
             ELSE Gated(TraceClockPin(a, ClockIn(c), negedge # (TypeOf(c) = "INV"), ignore, seen \cup {p}),
                        c, ignore)

TraceCell(a, c) ==
  IF ~IsRegister(c) /\ ~IsMemory(c) THEN a
  ELSE FoldLeft(LAMBDA b, p : TraceClockPin(b, p, FALSE, TRUE, {}), a,
                PinsNamed(c, {"CLK", "PORT_R_CLK", "PORT_W_CLK"}))

----------------------------------------------------------------------------
(* Literals of pins, depth first.                                          *)
Entry(a, c) == SelectInSeq(a.dffs, LAMBDA e : e.cell = c)
DffOf(a, c) ==
  IF Entry(a, c) # 0 THEN a ELSE [a EXCEPT !.dffs = Append(@, [cell |-> c, d |-> 0, en |-> 0, q |-> 0])]
SetDff(a, c, name, l) ==
  LET b == DffOf(a, c) IN [b EXCEPT !.dffs[Entry(b, c)][name] = l]

Zeros(n) == [i \in 1 .. n |-> 0]
EmptySram(c) ==
  [cell |-> c, ren |-> 0, raddr |-> Zeros(AddrWidth), rdata |-> Zeros(DataWidth),
   waddr |-> Zeros(AddrWidth), wen |-> Zeros(DataWidth), wdata |-> Zeros(DataWidth)]
Block(a, c) == SelectInSeq(a.srams, LAMBDA e : e.cell = c)
SramOf(a, c) == IF Block(a, c) # 0 THEN a ELSE [a EXCEPT !.srams = Append(@, EmptySram(c))]

(* A pin is entered; a register has its own graph pin by then. *)
Enter(a, p) ==
  LET b == [a EXCEPT !.vis = @ \cup {p}, !.stack = @ \cup {p}]
      q == AddPin(b, [kind |-> "dff", a |-> db.cell[p], b |-> 0])
  IN  IF ~IsInput(p) /\ IsRegister(db.cell[p]) THEN SetDff(q, db.cell[p], "q", Pin(q.out)) ELSE b

(* Mutant: the second input of a gate is not visited first. *)
BeforeFirst(p) ==
  IF IsInput(p) THEN IF IsConstant(p) THEN <<>> ELSE <<Root(p)>>
  ELSE IF IsPort(p) \/ IsMemory(db.cell[p]) THEN <<>>
  ELSE PinsNamed(db.cell[p], IF IsRegister(db.cell[p]) THEN {"S", "R"} ELSE {"CP", "E", "A"})

(* The pins that need a literal before this one. *)
Before(p) ==
  LET c == db.cell[p]
  IN  CASE IsInput(p) -> IF IsConstant(p) THEN <<>> ELSE <<Root(p)>>
        [] ~IsInput(p) /\ (IsPort(p) \/ IsMemory(c)) -> <<>>
        [] ~IsInput(p) /\ IsRegister(c) -> PinsNamed(c, {"S", "R"})
        [] ~IsInput(p) /\ TypeOf(c) = "CKLNQD" -> PinsNamed(c, {"CP"}) \o PinsNamed(c, {"E"})
        [] OTHER -> PinsNamed(c, {"A"}) \o PinsNamed(c, {"B"})

LitOf(a, c, name, otherwise) == IF CellPin(c, name) = 0 THEN otherwise ELSE a.lit[CellPin(c, name)]

(* Mutant: set has priority over reset. *)
SetFirst(a, c, q) ==
  LET b == AddAnd(a, q, LitOf(a, c, "R", 1)) IN OrNot(b, b.out, LitOf(a, c, "S", 1))
(* An output of a register is forced by its set and reset, reset last.     *)
ForcedOutput(a, c, q) ==
  LET b == OrNot(a, q, LitOf(a, c, "S", 1)) IN AddAnd(b, b.out, LitOf(a, c, "R", 1))

Inversions(type) ==
  CASE type = "AND2_00_0" -> <<0, 0, 0>> [] type = "AND2_01_0" -> <<0, 1, 0>>
    [] type = "AND2_10_0" -> <<1, 0, 0>> [] type = "AND2_11_0" -> <<1, 1, 0>>
    [] type = "AND2_11_1" -> <<1, 1, 1>>
Xor(l, iv) == IF iv = 1 THEN Flip(l) ELSE l

GateOutput(a, c) ==
  LET x == LitOf(a, c, "A", Free)
      iv == Inversions(TypeOf(c))
      b == AddAnd(a, Xor(x, iv[1]), Xor(LitOf(a, c, "B", Free), iv[2]))
  IN  CASE CellPin(c, "A") = 0 -> Broken(a)
        [] TypeOf(c) = "INV" -> Returned(a, Flip(x))
        [] TypeOf(c) = "BUF" -> Returned(a, x)
        [] OTHER -> IF b.ok THEN Returned(b, Xor(b.out, iv[3])) ELSE b

(* The literal of a memory's read bit; its graph pin goes in the block.    *)
ReadBit(a, c, p) ==
  LET b == SramOf(AddPin(a, [kind |-> "sram", a |-> c, b |-> 0]), c)
  IN  [b EXCEPT !.srams[Block(b, c)].rdata[db.names[p][3][1] + 1] = Pin(b.out)]

Outcome(a, p) ==
  LET c == db.cell[p]
  IN  CASE IsInput(p) -> Returned(a, IF IsConstant(p) THEN ConstantOf(p) ELSE a.lit[Root(p)])
        [] ~IsInput(p) /\ IsPort(p) -> AddPin(a, [kind |-> "input", a |-> p, b |-> 0])
        [] ~IsInput(p) /\ IsRegister(c) -> ForcedOutput(a, c, 2 * a.dffs[Entry(a, c)].q)
        [] ~IsInput(p) /\ IsMemory(c) -> ReadBit(a, c, p)
        [] ~IsInput(p) /\ TypeOf(c) = "CKLNQD" ->
             IF Len(PinsNamed(c, {"CP", "E"})) < 2 THEN Broken(a) ELSE Returned(a, Free)
        [] OTHER -> IF TypeOf(c) = "LATCH" THEN Broken(a) ELSE GateOutput(a, c)

(* Constants driven to an output port are no primary outputs.              *)
Leave(a, p) ==
  LET output == IsInput(p) /\ IsPort(p) /\ ~IsConstant(p) /\ ~Contains(a.outputs, a.out)
  IN  [a EXCEPT !.stack = @ \ {p}, !.lit[p] = a.out,
                !.outputs = IF output THEN Append(@, a.out) ELSE @]

RECURSIVE Dfs(_, _)
Dfs(a, p) ==
  CASE ~a.ok -> a
    [] a.ok /\ p \in a.stack -> Broken(a)
    [] a.ok /\ p \in a.vis \ a.stack -> a
    [] OTHER -> LET b == FoldLeft(LAMBDA s, q : Dfs(s, q), Enter(a, p), Before(p))
                IN  IF b.ok THEN Leave(Outcome(b, p), p) ELSE b

----------------------------------------------------------------------------
(* The data and enable of a register: either edge or forcing loads it.     *)
ClockEnable(a, c, name) ==
  IF CellPin(c, name) = 0 THEN Returned(a, 0) ELSE TraceClockPin(a, CellPin(c, name), FALSE, FALSE, {})

Checked(a, c) == IF a.ok /\ a.dffs[Entry(a, c)].q = 0 THEN Broken(a) ELSE a
PatchData(a, c, s, r, clken) ==
  LET d == OrNot(a, LitOf(a, c, "D", 0), s)
      en == OrNot(d, clken, s)
      data == AddAnd(en, d.out, r)
      enable == OrNot(data, en.out, r)
  IN  Checked(SetDff(SetDff(enable, c, "d", data.out), c, "en", enable.out), c)
PatchRegister(a, c) ==
  LET b == ClockEnable(a, c, "CLK")
  IN  IF b.ok THEN PatchData(b, c, LitOf(a, c, "S", 1), LitOf(a, c, "R", 1), b.out) ELSE b

Lits(a, pins) == FoldLeft(LAMBDA s, p : Append(s, IF p = 0 THEN 0 ELSE a.lit[p]), <<>>, pins)

(* Mutant: a memory writes whether or not it is clocked. *)
WriteAlways(a, lits, clken) == <<a, lits>>

(* The write enables of a memory include its write clock. *)
WriteEnables(a, lits, clken) ==
  FoldLeft(LAMBDA s, l : LET b == AddAnd(s[1], l, clken) IN <<b, Append(s[2], b.out)>>, <<a, <<>>>>, lits)

PatchSram(a, c, ren, wens) ==
  [wens[1] EXCEPT !.srams[Block(a, c)] =
     [@ EXCEPT !.ren = ren, !.raddr = Lits(a, BitPins(c, "PORT_R_ADDR", AddrWidth)),
               !.waddr = Lits(a, BitPins(c, "PORT_W_ADDR", AddrWidth)), !.wen = wens[2],
               !.wdata = Lits(a, BitPins(c, "PORT_W_WR_DATA", DataWidth))]]
PatchMemory(a, c) ==
  LET r == ClockEnable(SramOf(a, c), c, "PORT_R_CLK")
      w == ClockEnable(r, c, "PORT_W_CLK")
  IN  IF ~w.ok THEN w
      ELSE PatchSram(w, c, r.out, WriteEnables(w, Lits(w, BitPins(c, "PORT_W_WR_EN", DataWidth)), w.out))

PatchCell(a, c) ==
  IF IsRegister(c) THEN PatchRegister(a, c) ELSE IF IsMemory(c) THEN PatchMemory(a, c) ELSE a

----------------------------------------------------------------------------
StartAig ==
  /\ phase = "netlist"
  /\ aig' = [drivers |-> <<>>, lit |-> FoldLeft(LAMBDA s, p : Append(s, Free), <<>>, Upto(Len(db.names))),
             dffs |-> <<>>, srams |-> <<>>, outputs |-> <<>>, vis |-> {}, stack |-> {},
             fanouts |-> NoFanouts, out |-> Free, ok |-> TRUE]
  /\ phase' = "trace"
  /\ UNCHANGED <<design, build, calls, db, at>>

(* One turn of a loop over cells or pins, or its end. *)
Turn(loop, last, result, next) ==
  /\ phase = loop /\ aig.ok
  /\ IF at > last
     THEN phase' = next /\ at' = 1 /\ UNCHANGED aig
     ELSE aig' = result /\ at' = at + 1 /\ UNCHANGED phase
  /\ UNCHANGED <<design, build, calls, db>>

TraceClocks == Turn("trace", Len(db.cells), TraceCell(aig, at), "pins")
BuildPins == Turn("pins", Len(db.names), Dfs(aig, at), "patch")
PatchInputs == Turn("patch", Len(db.cells), PatchCell(aig, at), "fanouts")

Panic ==
  /\ phase \in {"trace", "pins", "patch"} /\ ~aig.ok
  /\ phase' = "panicked"
  /\ UNCHANGED <<design, build, calls, db, aig, at>>

(* The gates that use each pin, filled in forwards. *)
Uses(drivers) ==
  LET uses(i) == IF drivers[i].kind # "and" THEN <<>>
                 ELSE SelectSeq(<<<<Pin(drivers[i].a), i>>, <<Pin(drivers[i].b), i>>>>, LAMBDA u : u[1] # 0)
  IN  FoldLeft(LAMBDA s, i : s \o uses(i), <<>>, Upto(Len(drivers)))

FanoutRows(n, uses) ==
  LET csr == CsrFrom(n, [k \in DOMAIN uses |-> uses[k][1]], Upto(Len(uses)))
  IN  [csr EXCEPT !.items = FoldLeft(LAMBDA s, k : Append(s, uses[k][2]), <<>>, @)]

CountFanouts ==
  /\ phase = "fanouts"
  /\ aig' = [aig EXCEPT !.fanouts = FanoutRows(Len(aig.drivers), Uses(aig.drivers)), !.vis = {}, !.out = Free]
  /\ phase' = "built"
  /\ UNCHANGED <<design, build, calls, db, at>>

BuildNext ==
  \/ NetNext /\ UNCHANGED <<aig, at>>
  \/ StartAig \/ TraceClocks \/ BuildPins \/ PatchInputs \/ Panic \/ CountFanouts

----------------------------------------------------------------------------
(* The cells of the library, by what they do: the value of a pin when the  *)
(* ports, registers, memory outputs and clock gate latches in ones are 1.  *)
GateValue(type, a, b) ==
  CASE type = "AND2_00_0" -> a /\ b [] type = "AND2_01_0" -> a /\ ~b
    [] type = "AND2_10_0" -> ~a /\ b [] type = "AND2_11_0" -> ~(a \/ b)
    [] type = "AND2_11_1" -> a \/ b [] type = "INV" -> ~a [] type = "BUF" -> a

RECURSIVE NetValue(_, _)
NetValue(ones, p) ==
  LET c == db.cell[p]
      low(name) == CellPin(c, name) # 0 /\ ~NetValue(ones, CellPin(c, name))
      high(name) == CellPin(c, name) # 0 /\ NetValue(ones, CellPin(c, name))
  IN  CASE IsInput(p) -> IF IsConstant(p) THEN ConstantOf(p) = 1 ELSE NetValue(ones, Root(p))
        [] ~IsInput(p) /\ (IsPort(p) \/ IsMemory(c)) -> p \in ones
        [] ~IsInput(p) /\ IsRegister(c) -> ~low("R") /\ (low("S") \/ p \in ones)
        [] ~IsInput(p) /\ TypeOf(c) = "CKLNQD" -> p \in ones /\ high("CP")
        [] OTHER -> GateValue(TypeOf(c), high("A"), high("B"))

(* The graph's sources that are 1, and those of the edges that happened.   *)
RegisterPin(c) == CellPin(c, "Q")
DataPins(c) == BitPins(c, "PORT_R_RD_DATA", DataWidth)
IsOne(ones, edges, i) ==
  LET d == aig.drivers[i]
  IN  CASE d.kind = "input" -> d.a \in ones
        [] d.kind = "clock" -> <<d.a, d.b>> \in edges
        [] d.kind = "dff" -> RegisterPin(d.a) \in ones
        [] d.kind = "sram" -> DataPins(d.a)[SelectInSeq(aig.srams[Block(aig, d.a)].rdata, LAMBDA r : r = i)] \in ones
        [] OTHER -> FALSE
GraphOnes(ones, edges) == {i \in DOMAIN aig.drivers : IsOne(ones, edges, i)}

StatePins == {p \in Pins : ~IsInput(p) /\ (IsPort(p) \/ IsRegister(db.cell[p]) \/ IsMemory(db.cell[p]))}

RECURSIVE Backward(_, _)
Backward(step, pins) ==
  LET more == pins \cup UNION {step[p] : p \in pins} IN IF more = pins THEN pins ELSE Backward(step, more)

(* The pins a clock pin is traced along. *)
ClockStep(p) ==
  CASE IsInput(p) -> IF IsConstant(p) THEN {} ELSE {Root(p)}
    [] ~IsInput(p) /\ TypeOf(db.cell[p]) \in ClockGates -> {ClockIn(db.cell[p])} \ {0}
    [] OTHER -> {}
(* The pins that carry a gated clock: they have no literal. *)
CarriesGated(p) == \E q \in Backward([r \in Pins |-> ClockStep(r)], {p}) : ~IsInput(q) /\ TypeOf(db.cell[q]) = "CKLNQD"

(* Whatever the inputs, registers and memory outputs are, the literal of a *)
(* logic pin has the value the netlist gives the pin, set and reset        *)
(* included; only what a gated clock drives has none.  No two gates are    *)
(* equal, each has its inputs before it ("AIG pins are guaranteed to have  *)
(* topological order", aig.rs:108), and the fanouts list a gate once for   *)
(* each of its two inputs, which may be the same.                          *)
LiteralsMeanPins ==
  phase = "built" /\ at = 1 =>
    /\ \A ones \in SUBSET StatePins : \A graph \in {GraphOnes(ones, {})} : \A p \in Pins :
         IF aig.lit[p] < 0 THEN CarriesGated(p)
         ELSE LitValue(aig.drivers, graph, aig.lit[p]) = NetValue(ones, p)
    /\ \A i \in DOMAIN aig.drivers : IsAnd(aig.drivers, i) =>
         /\ aig.drivers[i].a <= aig.drivers[i].b /\ \A q \in Fanins(aig.drivers, i) : q < i
         /\ \A k \in DOMAIN aig.drivers : aig.drivers[k] = aig.drivers[i] => k = i
    /\ \A i \in DOMAIN aig.drivers :
         \A users \in {IterSet(aig.fanouts, i)} :
           /\ ToSet(users) = {k \in DOMAIN aig.drivers : i \in Fanins(aig.drivers, k)}
           /\ \A k \in ToSet(users) : Cardinality({j \in DOMAIN users : users[j] = k})
                                       = Cardinality({v \in {"a", "b"} : Pin(aig.drivers[k][v]) = i})
    /\ ToSet(aig.outputs) = {aig.lit[p] : p \in {p \in Pins : IsPort(p) /\ IsInput(p) /\ ~IsConstant(p)}}

----------------------------------------------------------------------------
ClockPins == UNION {ToSet(PinsNamed(c, {"CLK", "PORT_R_CLK", "PORT_W_CLK"})) :
                      c \in {c \in Cells : IsRegister(c) \/ IsMemory(c)}}
ClockPath == Backward([p \in Pins |-> ClockStep(p)], ClockPins)

Needed(type) ==
  CASE type = "CKLNQD" -> {"CP", "E"} [] type \in {"INV", "BUF"} -> {"A"} [] type \in {"DFF", "DFFSR"} -> {"Q"}
    [] type \in {"$__RAMGEM_SYNC_", "LATCH"} -> {} [] OTHER -> {"A", "B"}

(* A loop, or a net without driver, which is one from a pin to itself; a   *)
(* latch; a clock that comes from other logic; a gated clock used as data; *)
(* a pin that has to be connected.                                         *)
Unbuildable ==
  \/ \E feeds \in {[p \in Pins |-> ToSet(Before(p))]} : \E p \in Pins : p \in Backward(feeds, feeds[p])
  \/ \E c \in Cells \ {1} : TypeOf(c) = "LATCH" \/ \E name \in Needed(TypeOf(c)) : CellPin(c, name) = 0
  \/ \E p \in ClockPath : ~IsInput(p) /\ ~IsPort(p) /\ TypeOf(db.cell[p]) \notin ClockGates
  \/ \E p \in Pins \ ClockPath : IsInput(p) /\ CarriesGated(p)

(* Building the graph panics only for a netlist it cannot take, and none   *)
(* with a loop, a latch or a clock from other logic gets through           *)
(* (aig.rs:318, 388, 465); it never recurses without end otherwise.        *)
PanicsForAReason ==
  /\ phase = "panicked" /\ db.dir # <<>> => Unbuildable
  /\ phase = "built" /\ at = 1 =>
       \A feeds \in {[p \in Pins |-> ToSet(Before(p))]} : \A p \in Pins : p \notin Backward(feeds, feeds[p])
=============================================================================
