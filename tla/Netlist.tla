------------------------------ MODULE Netlist ------------------------------
(***************************************************************************)
(* netlistdb: a hierarchical structural Verilog design is flattened into   *)
(* cells and logic pins, a union-find set joins the logic pins into nets,  *)
(* and compressed rows list the pins of each cell and net.  A design is    *)
(*   [modules |-> [name -> module], top |-> a name or ""]                  *)
(* a module [defs, ports, cells, assigns] with                             *)
(*   defs     <<[name, width, type]>>, a width is <<>> or <<left, right>>  *)
(*   ports    <<[name, conn, expr]>>, conn for .name({expr})               *)
(*   cells    <<[name, macro, pins |-> <<<<pin, expr>>>>]>>                *)
(*   assigns  <<<<left expr, right expr>>>>                                *)
(* and an expression is a sequence of [kind |-> "full" | "bit" | "slice" | *)
(* "lit"] parts, a lone part being a sequence of one.                      *)
(***************************************************************************)
EXTENDS Aig

CONSTANTS
  Designs,     \* parsed designs
  AddrWidth,   \* AIGPDK_SRAM_ADDR_WIDTH
  DataWidth    \* the word width of a memory

VARIABLES
  design,  \* the design being built
  build,   \* the flattened names, their types and sets, and the cells
  calls,   \* the calls of build_modules under way: [hier, module, at]
  db,      \* the finished netlist
  phase    \* "top", "flatten", "directions", then "netlist"; "refused" is an
           \* error, "panicked" a panic

netVars == <<design, build, calls, db, phase>>

----------------------------------------------------------------------------
(* Expressions.  A bit of one is a name with an index <<i>> or <<>>, or a  *)
(* constant 0, 1, 2 (x) or 3 (z); -1 stands for no constant.               *)
Var(name, at) == [name |-> name, at |-> at, const |-> -1]
Literal(c) == [name |-> "", at |-> <<>>, const |-> c]
IsVar(bit) == bit.const = -1

(* The indices of a range, from its left end to its right one.  Mutant:    *)
(* from the lower one to the higher one.                                   *)
RangeUpwards(l, r) == [i \in 1 .. Max({l - r, r - l}) + 1 |-> <<Min({l, r}) + i - 1>>]
RangeBits(l, r) ==
  IF l <= r THEN [i \in 1 .. r - l + 1 |-> <<l + i - 1>>] ELSE [i \in 1 .. l - r + 1 |-> <<l - i + 1>>]
EnumInWidth(w) == IF w = <<>> THEN <<<<>>>> ELSE RangeBits(w[1], w[2])

DefsOf(m, name) == {i \in DOMAIN m.defs : m.defs[i].name = name}
DefWidth(m, name) ==
  LET vectors == {i \in DefsOf(m, name) : m.defs[i].width # <<>>}
  IN  IF vectors = {} THEN <<>> ELSE m.defs[Max(vectors)].width

(* A later wire definition does not hide that a name is a port, and a name *)
(* cannot be two kinds of port.                                            *)
DefType(m, name) ==
  LET ports == {i \in DefsOf(m, name) : m.defs[i].type # "wire"}
  IN  IF ports = {} THEN "wire" ELSE m.defs[Min(ports)].type
Conflicting(m) ==
  \E d, e \in {d \in ToSet(m.defs) : d.type # "wire"} : d.name = e.name /\ d.type # e.type

SliceBits(e) == RangeBits(e.l, e.r)

Vars(name, indices) == [i \in DOMAIN indices |-> Var(name, indices[i])]
EvalPart(m, e) ==
  CASE e.kind = "full"  -> Vars(e.name, EnumInWidth(DefWidth(m, e.name)))
    [] e.kind = "bit"   -> <<Var(e.name, <<e.at>>)>>
    [] e.kind = "slice" -> Vars(e.name, SliceBits(e))
    [] e.kind = "lit"   -> [i \in DOMAIN e.bits |-> Literal(e.bits[i])]
EvalExpr(m, expr) == FoldLeft(LAMBDA bits, e : bits \o EvalPart(m, e), <<>>, expr)

(* A port has the width of its definition; a named connection is a vector  *)
(* from 0 if it has several bits, or a single one that comes of a vector.  *)
PortWidth(m, port) ==
  LET n == Len(EvalExpr(m, port.expr))
      vector == \E e \in ToSet(port.expr) : \/ e.kind = "slice"
                                            \/ e.kind = "full" /\ DefWidth(m, e.name) # <<>>
  IN  IF ~port.conn THEN DefWidth(m, port.name)
      ELSE IF n > 1 \/ vector THEN <<n - 1, 0>> ELSE <<>>

----------------------------------------------------------------------------
(* The cell library. *)
Outputs == {"Y", "Q", "PORT_R_RD_DATA"}
LeafWidth(pin) ==
  CASE pin \in {"PORT_R_ADDR", "PORT_W_ADDR"} -> <<AddrWidth - 1, 0>>
    [] pin \in {"PORT_R_RD_DATA", "PORT_W_WR_EN", "PORT_W_WR_DATA"} -> <<DataWidth - 1, 0>>
    [] OTHER -> <<>>
LibraryPins(type) ==
  CASE type \in {"INV", "BUF"} -> {"A", "Y"}
    [] type \in {"AND2_00_0", "AND2_01_0", "AND2_10_0", "AND2_11_0", "AND2_11_1"} -> {"A", "B", "Y"}
    [] type \in {"DFF", "LATCH"} -> {"CLK", "D", "Q"}
    [] type = "DFFSR" -> {"CLK", "D", "S", "R", "Q"}
    [] type = "CKLNQD" -> {"CP", "E", "Q"}
    [] type = "$__RAMGEM_SYNC_" -> {"PORT_R_CLK", "PORT_R_ADDR", "PORT_R_RD_DATA", "PORT_W_CLK",
                                    "PORT_W_ADDR", "PORT_W_WR_EN", "PORT_W_WR_DATA"}
    [] OTHER -> {}
LeafDirection(type, pin, at) ==
  CASE pin \notin LibraryPins(type) \/ (at = <<>>) # (LeafWidth(pin) = <<>>) -> "panic"
    [] OTHER -> IF pin \in Outputs THEN "O" ELSE "I"

----------------------------------------------------------------------------
(* The disjoint set: a sequence of fathers that grows as nodes are named,  *)
(* and the nodes that stand for the constants 0 and 1.                     *)
RECURSIVE Leader(_, _)
Leader(fa, u) == IF fa[u] = u THEN u ELSE Leader(fa, fa[u])

RECURSIVE Ancestors(_, _)
Ancestors(fa, u) == IF fa[u] = u THEN {u} ELSE {u} \cup Ancestors(fa, fa[u])

Grown(fa, n) == fa \o FoldLeft(LAMBDA s, i : Append(s, i), <<>>, [i \in 1 .. n - Len(fa) |-> Len(fa) + i])

(* Path compression: all nodes on the way now point to the leader. *)
Find(fa, u) ==
  LET grown == IF Len(fa) < u THEN Grown(fa, u) ELSE fa
      leader == Leader(grown, u)
  IN  FoldSet(LAMBDA v, f : [f EXCEPT ![v] = leader], grown, Ancestors(grown, u))

(* Mutant: a node, not its leader, is hung below the other one. *)
MergedBelow(fa, a, b) ==
  LET found == Find(Find(fa, a), b) IN [found EXCEPT ![a] = Leader(found, b)]

Merged(fa, a, b) ==
  LET found == Find(Find(fa, a), b) IN [found EXCEPT ![Leader(found, a)] = Leader(found, b)]

Join(b, i, k) == [b EXCEPT !.fa = Merged(@, i, k)]

(* x counts as 0, and z says nothing. *)
AssignLiteral(b, i, c) ==
  CASE c \in {0, 2} -> IF b.zero = <<>> THEN [b EXCEPT !.zero = <<i>>] ELSE Join(b, i, b.zero[1])
    [] c = 1        -> IF b.one = <<>> THEN [b EXCEPT !.one = <<i>>] ELSE Join(b, i, b.one[1])
    [] OTHER        -> b

----------------------------------------------------------------------------
(* Logic pins are keyed by hierarchy, name and index. *)
IdOf(b, key) == SelectInSeq(b.names, LAMBDA k : k = key)
GetOrInsert(b, key) ==
  IF IdOf(b, key) # 0 THEN b
  ELSE [b EXCEPT !.names = Append(@, key), !.types = Append(@, "Others")]

(* A wire may be used without a definition, by cells and by assignments,   *)
(* though only a cell makes it a net.                                      *)
Use(b, key, type) ==
  LET used == GetOrInsert(b, key)
  IN  IF type = "LeafCellPin" \/ used.types[IdOf(used, key)] = "Others"
      THEN [used EXCEPT !.types[IdOf(used, key)] = type] ELSE used

(* Connect a logic pin that exists with a bit of an expression.            *)
Attach(b, key, h, bit, type) ==
  LET id == IdOf(b, key)
      used == Use(b, <<h, bit.name, bit.at>>, type)
  IN  IF IsVar(bit) THEN Join(used, id, IdOf(used, <<h, bit.name, bit.at>>))
      ELSE AssignLiteral(b, id, bit.const)

Failed(b) == [b EXCEPT !.ok = FALSE]
Try(b, key, h, bit, type) ==
  IF ~b.ok \/ IdOf(b, key) = 0 THEN Failed(b) ELSE Attach(b, key, h, bit, type)

Keys(h, name, width) ==
  LET indices == EnumInWidth(width) IN [i \in DOMAIN indices |-> <<h, name, indices[i]>>]

(* Declare the wires and ports of a module, then its named connections,    *)
(* which must name what is declared; a connection declares its own port.   *)
Declared(b, h, m) ==
  LET bits == FoldLeft(LAMBDA s, d : s \o Keys(h, d.name, d.width), <<>>, m.defs)
      wired == FoldLeft(LAMBDA s, key : [GetOrInsert(s, key) EXCEPT !.types[IdOf(GetOrInsert(s, key), key)] = "Net"],
                        b, bits)
      named(s, port) ==
        FoldLeft(LAMBDA t, pair :
                   LET key == <<h, port.name, pair[1]>>
                       own == GetOrInsert(t, key)
                   IN  IF IsVar(pair[2]) /\ IdOf(own, <<h, pair[2].name, pair[2].at>>) = 0
                       THEN Failed(own) ELSE Try(own, key, h, pair[2], "Others"),
                 s, Zip(EnumInWidth(PortWidth(m, port)), EvalExpr(m, port.expr)))
  IN  FoldLeft(named, wired, SelectSeq(m.ports, LAMBDA p : p.conn))

----------------------------------------------------------------------------
(* The definitions of all modules are read first.  The top module is       *)
(* given, the only one, or the only unreferenced one; no module may        *)
(* contain itself.                                                         *)
Modules(d) == DOMAIN d.modules
Submodules(d, ms) == {c.macro : c \in UNION {ToSet(d.modules[x].cells) : x \in ms}} \cap Modules(d)
RECURSIVE Below(_, _)
Below(d, ms) == IF Submodules(d, ms) \subseteq ms THEN ms ELSE Below(d, ms \cup Submodules(d, ms))

Tops(d) ==
  IF d.top # "" THEN {d.top} \cap Modules(d)
  ELSE IF Cardinality(Modules(d)) = 1 THEN Modules(d)
  ELSE Modules(d) \ Submodules(d, Modules(d))

Recursive(d, top) == \E x \in Below(d, {top}) : x \in Below(d, Submodules(d, {x}))

Unbuilt == [names |-> <<>>, types |-> <<>>, fa |-> <<>>, zero |-> <<>>, one |-> <<>>,
            cells |-> <<>>, ok |-> TRUE]
NoDb == [cells |-> <<>>, dir |-> <<>>]

NetInit ==
  /\ design \in Designs
  /\ build = Unbuilt /\ calls = <<>> /\ db = NoDb /\ phase = "top"

Call(h, name) == [hier |-> h, module |-> name, at |-> 1]
TopName == CHOOSE top \in Tops(design) : TRUE
TopModule == design.modules[TopName]

Contradictory == \E name \in Modules(design) : Conflicting(design.modules[name])
FindTop ==
  /\ phase = "top"
  /\ IF \/ Contradictory
        \/ Cardinality(Tops(design)) # 1 \/ \E top \in Tops(design) : Recursive(design, top)
     THEN phase' = (IF Contradictory THEN "panicked" ELSE "refused") /\ UNCHANGED <<build, calls>>
     ELSE /\ phase' = "flatten"
          /\ calls' = <<Call(<<>>, TopName)>>
          /\ build' = Declared([Unbuilt EXCEPT !.cells = <<[hier |-> <<>>, type |-> TopName]>>],
                               <<>>, TopModule)
  /\ UNCHANGED <<design, db>>

----------------------------------------------------------------------------
(* build_modules: the cells of the innermost call in turn, then its        *)
(* assignments.                                                            *)
ModuleOf(call) == design.modules[call.module]
CellOf(call) == ModuleOf(call).cells[call.at]
IsLeaf(cell) == cell.macro \notin Modules(design)
Inside(call) == Append(call.hier, CellOf(call).name)
Advanced(cs) == [cs EXCEPT ![Len(cs)].at = @ + 1]

Here == Last(calls)
Flattening == phase = "flatten" /\ build.ok /\ calls # <<>>
AtCell == Here.at <= Len(ModuleOf(Here).cells)

(* The indices a cell's port is enumerated with; a leaf's port is a scalar *)
(* when the expression has one bit.                                        *)
PinBits(cell, pin, bits) ==
  IF ~IsLeaf(cell)
  THEN LET m == design.modules[cell.macro]
           port == SelectInSeq(m.ports, LAMBDA p : p.name = pin)
       IN  EnumInWidth(IF port = 0 THEN <<>> ELSE PortWidth(m, m.ports[port]))
  ELSE EnumInWidth(IF Len(bits) = 1 THEN <<>> ELSE LeafWidth(pin))

Connected(b, call) ==
  LET cell == CellOf(call)
      one(s, pin) ==
        LET bits == EvalExpr(ModuleOf(call), pin[2])
        IN  FoldLeft(LAMBDA t, pair :
                       LET key == <<Inside(call), pin[1], pair[1]>>
                       IN  Try(IF IsLeaf(cell) THEN Use(t, key, "LeafCellPin") ELSE t,
                               key, call.hier, pair[2], "Net"),
                     s, Zip(PinBits(cell, pin[1], bits), bits))
  IN  FoldLeft(one, b, cell.pins)

InsertLeaf ==
  /\ Flattening /\ AtCell /\ IsLeaf(CellOf(Here))
  /\ build' = Connected([build EXCEPT !.cells = Append(@, [hier |-> Inside(Here), type |-> CellOf(Here).macro])],
                        Here)
  /\ calls' = Advanced(calls)
  /\ UNCHANGED <<design, db, phase>>

Descend ==
  /\ Flattening /\ AtCell /\ ~IsLeaf(CellOf(Here))
  /\ build' = Declared(build, Inside(Here), design.modules[CellOf(Here).macro])
  /\ calls' = Append(calls, Call(Inside(Here), CellOf(Here).macro))
  /\ UNCHANGED <<design, db, phase>>

(* Mutant: the longer side of an assignment is cut. *)
AssignedAnyway(b, h, left, right) ==
  FoldLeft(LAMBDA s, pair :
         LET i == IF IsVar(pair[1]) THEN 1 ELSE 2
             key == <<h, pair[i].name, pair[i].at>>
         IN  IF ~IsVar(pair[i]) THEN Failed(s)
             ELSE Try(Use(s, key, "Others"), key, h, pair[3 - i], "Others"),
         b, Zip(left, right))

(* Both sides must have the same number of bits, and not both constants.   *)
Assigned(b, h, left, right) ==
  IF Len(left) # Len(right) THEN Failed(b)
  ELSE FoldLeft(LAMBDA s, pair :
         LET i == IF IsVar(pair[1]) THEN 1 ELSE 2
             key == <<h, pair[i].name, pair[i].at>>
         IN  IF ~IsVar(pair[i]) THEN Failed(s)
             ELSE Try(Use(s, key, "Others"), key, h, pair[3 - i], "Others"),
         b, Zip(left, right))

AssignAt == Here.at - Len(ModuleOf(Here).cells)
Assign ==
  /\ Flattening /\ ~AtCell /\ AssignAt <= Len(ModuleOf(Here).assigns)
  /\ LET a == ModuleOf(Here).assigns[AssignAt]
     IN  build' = Assigned(build, Here.hier, EvalExpr(ModuleOf(Here), a[1]), EvalExpr(ModuleOf(Here), a[2]))
  /\ calls' = Advanced(calls)
  /\ UNCHANGED <<design, db, phase>>

Finished == Flattening /\ ~AtCell /\ AssignAt > Len(ModuleOf(Here).assigns)

(* Back from a submodule the cell's ports, which exist by now, are         *)
(* connected.                                                              *)
Return ==
  /\ Finished /\ Len(calls) > 1
  /\ build' = Connected(build, calls[Len(calls) - 1])
  /\ calls' = Advanced(Front(calls))
  /\ UNCHANGED <<design, db, phase>>

GiveUp ==
  /\ phase = "flatten" /\ ~build.ok
  /\ phase' = "refused"
  /\ UNCHANGED <<design, build, calls, db>>

----------------------------------------------------------------------------
(* Compressed rows: start has, for each set and one more, the number of    *)
(* items before its own; they are filled in backwards.                     *)
Upto(n) == FoldLeft(LAMBDA s, i : Append(s, i), <<>>, [i \in 1 .. n |-> i])

CsrFrom(n, inset, order) ==
  FoldLeft(LAMBDA c, i : [start |-> [c.start EXCEPT ![inset[i]] = @ - 1],
                          items |-> [c.items EXCEPT ![c.start[inset[i]]] = i]],
           [start |-> FoldLeft(LAMBDA s, k : Append(s, Cardinality({i \in DOMAIN inset : inset[i] <= k})),
                               <<>>, Upto(n + 1)),
            items |-> inset], order)
Csr(n, inset) == CsrFrom(n, inset, Reverse(Upto(Len(inset))))
IterSet(csr, k) == SubSeq(csr.items, csr.start[k] + 1, csr.start[k + 1])

(* Nets are numbered by their leaders.                                     *)
Nets(fa) == SelectSeq(Upto(Len(fa)), LAMBDA i : fa[i] = i)
NetOf(fa, i) == IdOf([names |-> Nets(fa)], Leader(fa, i))
Constant(fa, at) == IF at = <<>> THEN 0 ELSE NetOf(fa, at[1])

TopKeys == FoldLeft(LAMBDA s, port : s \o Keys(<<>>, port.name, PortWidth(TopModule, port)), <<>>, TopModule.ports)

(* The pins, their cells and nets.  The table of net names is as long as   *)
(* there are names, but is indexed by nets.                                *)
Graph(b) ==
  LET fa == IF Len(b.fa) < Len(b.names) THEN Grown(b.fa, Len(b.names)) ELSE b.fa
      typed == FoldLeft(LAMBDA t, key : [t EXCEPT ![IdOf(b, key)] = "TopPort"], b.types, TopKeys)
      ids == SelectSeq(Upto(Len(b.names)), LAMBDA i : typed[i] \in {"TopPort", "LeafCellPin"})
      named == SelectSeq(Upto(Len(b.names)), LAMBDA i : typed[i] \in {"TopPort", "Net"})
      pinNet == FoldLeft(LAMBDA s, i : Append(s, NetOf(fa, i)), <<>>, ids)
      pinCell == FoldLeft(LAMBDA s, i : Append(s, SelectInSeq(b.cells, LAMBDA c : c.hier = b.names[i][1])), <<>>, ids)
  IN  [cells |-> b.cells, names |-> FoldLeft(LAMBDA s, i : Append(s, b.names[i]), <<>>, ids),
       net |-> pinNet, cell |-> pinCell, dir |-> <<>>,
       cellPins |-> Csr(Len(b.cells), pinCell), netPins |-> Csr(Len(Nets(fa)), pinNet),
       zero |-> Constant(fa, b.zero), one |-> Constant(fa, b.one),
       named |-> \A i \in ToSet(named) : NetOf(fa, i) <= Len(named)]

BuildGraph ==
  /\ Finished /\ Len(calls) = 1
  /\ IF \E key \in ToSet(TopKeys) : IdOf(build, key) = 0
     THEN phase' = "refused" /\ UNCHANGED db
     ELSE \E graph \in {Graph(build)} :
            /\ db' = graph
            /\ phase' = IF graph.zero # 0 /\ graph.zero = graph.one THEN "refused"
                        ELSE IF ~graph.named THEN "panicked" ELSE "directions"
  /\ calls' = <<>> /\ build' = Unbuilt
  /\ UNCHANGED design

(* An input port drives its net; an inout port has no direction that is    *)
(* known.  A literal, or a pin the library has not, is a panic.            *)
PortDirection(bit) ==
  CASE ~IsVar(bit) -> "panic"
    [] IsVar(bit) /\ DefsOf(TopModule, bit.name) = {} -> "none"
    [] OTHER -> CASE DefType(TopModule, bit.name) = "input"  -> "O"
                  [] DefType(TopModule, bit.name) = "output" -> "I"
                  [] DefType(TopModule, bit.name) = "inout"  -> "U"
                  [] OTHER -> "none"

PortDirections ==
  FoldLeft(LAMBDA s, port :
             s \o LET pairs == Zip(EnumInWidth(PortWidth(TopModule, port)), EvalExpr(TopModule, port.expr))
                  IN  [i \in DOMAIN pairs |-> <<<<<<>>, port.name, pairs[i][1]>>, PortDirection(pairs[i][2])>>],
           <<>>, TopModule.ports)

Directions ==
  LET ports == PortDirections
  IN  FoldLeft(LAMBDA s, p :
                 Append(s, IF db.cell[p] > 1 THEN LeafDirection(db.cells[db.cell[p]].type, db.names[p][2], db.names[p][3])
                           ELSE ports[SelectInSeq(ports, LAMBDA d : d[1] = db.names[p])][2]),
               <<>>, Upto(Len(db.names)))

Drivers(dir, n) == {i \in db.netPins.start[n] + 1 .. db.netPins.start[n + 1] : dir[db.netPins.items[i]] = "O"}

Swapped(s, i, k) == [s EXCEPT ![i] = s[k], ![k] = s[i]]

(* The one driver of a net goes first; nets without a driver are only      *)
(* warned about.                                                           *)
DriverFirst(dir, items, n) ==
  IF Drivers(dir, n) = {} THEN items
  ELSE Swapped(items, db.netPins.start[n] + 1, Max(Drivers(dir, n)))

AssignDirection ==
  /\ phase = "directions"
  /\ LET dir == Directions
         nets == Upto(Len(db.netPins.start) - 1)
         bad == SelectInSeq(PortDirections, LAMBDA d : d[2] \in {"none", "panic"})
     IN  IF \/ bad # 0 \/ "panic" \in ToSet(dir)
            \/ \E n \in ToSet(nets) : Cardinality(Drivers(dir, n)) > 1
         THEN /\ phase' = IF \/ \E p \in DOMAIN dir : dir[p] = "panic" /\ db.cell[p] > 1
                             \/ bad # 0 /\ PortDirections[bad][2] = "panic"
                          THEN "panicked" ELSE "refused"
              /\ UNCHANGED db
         ELSE /\ phase' = "netlist"
              /\ db' = [db EXCEPT !.dir = dir,
                          !.netPins.items = FoldLeft(LAMBDA s, n : DriverFirst(dir, s, n), @, nets)]
  /\ UNCHANGED <<design, build, calls>>

NetNext == FindTop \/ InsertLeaf \/ Descend \/ Assign \/ Return \/ GiveUp \/ BuildGraph \/ AssignDirection

----------------------------------------------------------------------------
(* What is connected, said of the hierarchy as a whole: the instances of   *)
(* the design, and the pairs of bits each of them ties together.           *)
RECURSIVE Instances(_, _)
Instances(h, name) ==
  {<<h, name>>} \cup UNION {Instances(Append(h, c.name), c.macro) :
                              c \in {c \in ToSet(design.modules[name].cells) : ~IsLeaf(c)}}
AllInstances == Instances(<<>>, TopName)

(* The bits of an expression are counted from 0 at its left end, and a bit *)
(* is found by its place alone: in a range by counting from the left       *)
(* bound, in a concatenation by the sizes of the parts before.             *)
Span(range) ==
  IF range = <<>> THEN 1 ELSE 1 + Max({range[1] - range[2], range[2] - range[1]})
IndexAt(range, i) ==
  IF range = <<>> THEN <<>> ELSE IF range[1] < range[2] THEN <<range[1] + i>> ELSE <<range[1] - i>>
Indices(range) == {IndexAt(range, i) : i \in 0 .. Span(range) - 1}

RangeOf(m, name) ==
  LET ranges == {d.width : d \in {d \in ToSet(m.defs) : d.name = name}} \ {<<>>}
  IN  IF ranges = {} THEN <<>> ELSE CHOOSE range \in ranges : TRUE
PartRange(m, e) == CASE e.kind = "full" -> RangeOf(m, e.name) [] e.kind = "slice" -> <<e.l, e.r>> [] OTHER -> <<>>
PartSize(m, e) == IF e.kind = "lit" THEN Len(e.bits) ELSE Span(PartRange(m, e))
Size(m, expr) == FoldLeft(LAMBDA n, e : n + PartSize(m, e), 0, expr)

(* z is connected with nothing, and x is 0. *)
ConstantNode(c) == <<<<>>, "", <<c>>>>
IsNamed(node) == node[2] # ""
PartNode(h, m, e, i) ==
  CASE e.kind = "lit" /\ e.bits[i + 1] = 3  -> <<h, "", <<>>>>
    [] e.kind = "lit" /\ e.bits[i + 1] # 3  -> ConstantNode(IF e.bits[i + 1] = 1 THEN 1 ELSE 0)
    [] e.kind = "bit"                       -> <<h, e.name, <<e.at>>>>
    [] OTHER                                -> <<h, e.name, IndexAt(PartRange(m, e), i)>>

(* What is at each place. *)
Places(h, m, expr) ==
  UNION {{<<Size(m, SubSeq(expr, 1, j - 1)) + i, PartNode(h, m, expr[j], i)>> : i \in 0 .. PartSize(m, expr[j]) - 1} :
           j \in DOMAIN expr}

(* A named port of several bits, or of one bit of a vector or a slice,     *)
(* counts them down to 0.                                                  *)
PortRange(m, port) ==
  CASE ~port.conn -> RangeOf(m, port.name)
    [] port.conn /\ Size(m, port.expr) = 1
       /\ \A e \in ToSet(port.expr) : e.kind # "slice" /\ PartRange(m, e) = <<>> -> <<>>
    [] OTHER -> <<Size(m, port.expr) - 1, 0>>
PinRange(m, c, pin) ==
  IF IsLeaf(c) THEN IF Size(m, pin[2]) = 1 THEN <<>> ELSE LeafWidth(pin[1])
  ELSE LET macro == design.modules[c.macro]
           ports == {port \in ToSet(macro.ports) : port.name = pin[1]}
       IN  IF ports = {} THEN <<>> ELSE PortRange(macro, CHOOSE port \in ports : TRUE)

(* A pin, a port or a side of an assignment is tied place by place. *)
Ties(h, name, range, places) ==
  {<<<<h, name, IndexAt(range, x[1])>>, x[2]>> : x \in {x \in places : x[1] < Span(range)}}
PinTies(h, m, c) ==
  UNION {Ties(Append(h, c.name), pin[1], PinRange(m, c, pin), Places(h, m, pin[2])) : pin \in ToSet(c.pins)}
AssignTies(h, m, a) ==
  {<<x[2], y[2]>> : <<x, y>> \in {<<x, y>> \in Places(h, m, a[1]) \X Places(h, m, a[2]) : x[1] = y[1]}}
PortTies(h, m, port) == Ties(h, port.name, PortRange(m, port), Places(h, m, port.expr))
PortBits(h, m, port) == {<<h, port.name, index>> : index \in Indices(PortRange(m, port))}

TiesOf(h, m) ==
  UNION {PinTies(h, m, c) : c \in ToSet(m.cells)}
  \cup UNION {AssignTies(h, m, a) : a \in ToSet(m.assigns)}
  \cup UNION {PortTies(h, m, port) : port \in {p \in ToSet(m.ports) : p.conn}}
AllTies == {t \in UNION {TiesOf(x[1], design.modules[x[2]]) : x \in AllInstances} : t[2][2] # "" \/ t[2][3] # <<>>}

RECURSIVE Island(_, _)
Island(ties, nodes) ==
  LET more == nodes \cup {t[2] : t \in {t \in ties : t[1] \in nodes}}
                    \cup {t[1] : t \in {t \in ties : t[2] \in nodes}}
  IN  IF more = nodes THEN nodes ELSE Island(ties, more)

LeafPins == {t[1] : t \in UNION {UNION {PinTies(x[1], design.modules[x[2]], c) :
               c \in {c \in ToSet(design.modules[x[2]].cells) : IsLeaf(c)}} : x \in AllInstances}}
DriverNodes ==
  {k \in LeafPins : k[2] \in Outputs}
  \cup {PortDirections[i][1] : i \in {i \in DOMAIN PortDirections : PortDirections[i][2] = "O"}}

(* Two pins are on the same net exactly if the hierarchy ties them         *)
(* together through wires, ports and assignments, however deep, the bits   *)
(* of what is tied paired up by their places from the left; the nets       *)
(* tied to 0 and 1 are the constant nets; each net lists each of its pins  *)
(* once, its driver first; the pins are those of the leaf cells and of the *)
(* top module (builder.rs:165-360, 470-620, 640-700).                      *)
NetIs(p, island) ==
  LET row == IterSet(db.netPins, db.net[p])
  IN  /\ {q \in DOMAIN db.net : db.net[q] = db.net[p]} = {q \in DOMAIN db.net : db.names[q] \in island}
      /\ (db.net[p] = db.zero) <=> (ConstantNode(0) \in island)
      /\ (db.net[p] = db.one) <=> (ConstantNode(1) \in island)
      /\ IsInjective(row) /\ ToSet(row) = {q \in DOMAIN db.net : db.net[q] = db.net[p]}
      /\ \A k \in DOMAIN row : db.dir[row[k]] = "O" => k = 1
NetsAreConnections ==
  phase = "netlist" =>
    \A ties \in {AllTies} :
      /\ \A p \in DOMAIN db.names : NetIs(p, Island(ties, {db.names[p]}))
      /\ ToSet(db.names) = LeafPins \cup UNION {PortBits(<<>>, TopModule, port) : port \in ToSet(TopModule.ports)}

----------------------------------------------------------------------------
(* The bits that a module declares; those of its named ports; and those    *)
(* its cells and assignments use.                                          *)
DefinedBits(h, m) == UNION {{<<h, d.name, index>> : index \in Indices(d.width)} : d \in ToSet(m.defs)}
NamedPorts(m) == {k \in DOMAIN m.ports : m.ports[k].conn}
NamedBits(h, m) == UNION {PortBits(h, m, m.ports[k]) : k \in NamedPorts(m)}
UsedBits(h, m) ==
  {x[2] : x \in UNION ({Places(h, m, pin[2]) : pin \in UNION {ToSet(c.pins) : c \in ToSet(m.cells)}}
                       \cup UNION {{Places(h, m, a[1]), Places(h, m, a[2])} : a \in ToSet(m.assigns)})}

(* The bits of the named ports up to place i of port k. *)
NamedBefore(h, m, k, i) ==
  UNION {PortBits(h, m, m.ports[j]) : j \in NamedPorts(m) \cap 1 .. k - 1}
  \cup {<<h, m.ports[k].name, IndexAt(PortRange(m, m.ports[k]), n)>> : n \in 0 .. i}

Mismatched(h, m) ==
  \E a \in ToSet(m.assigns) :
    \/ Size(m, a[1]) # Size(m, a[2])
    \/ \E tie \in AssignTies(h, m, a) : ~IsNamed(tie[1]) /\ ~IsNamed(tie[2])
Undeclared(h, m) ==
  \/ \E k \in NamedPorts(m) : \E x \in Places(h, m, m.ports[k].expr) :
       IsNamed(x[2]) /\ x[2] \notin DefinedBits(h, m) \cup NamedBefore(h, m, k, x[1])
  \/ \E c \in {c \in ToSet(m.cells) : ~IsLeaf(c)} : \E tie \in PinTies(h, m, c) :
       LET inside == Append(h, c.name)
           macro == design.modules[c.macro]
       IN  tie[1] \notin DefinedBits(inside, macro) \cup NamedBits(inside, macro) \cup UsedBits(inside, macro)

Faulty ==
  \/ Cardinality(Tops(design)) # 1 \/ Recursive(design, TopName)
  \/ \E x \in AllInstances : Mismatched(x[1], design.modules[x[2]]) \/ Undeclared(x[1], design.modules[x[2]])
  \/ \E i \in DOMAIN PortDirections : PortDirections[i][2] = "none"
  \/ \E ties \in {AllTies} :
       \/ ConstantNode(1) \in Island(ties, {ConstantNode(0)})
       \/ \E driver \in DriverNodes : Cardinality(Island(ties, {driver}) \cap DriverNodes) > 1

(* A netlist is refused exactly if the design has no top module of its own *)
(* or is recursive, assigns bits of different numbers, connects what is    *)
(* not declared, has ports without a direction, shorts 0 and 1, or drives  *)
(* a net twice, in whatever order its modules are built                    *)
(* (builder.rs:165-360, 470-540, 640-700).                                 *)
RefusedForAReason ==
  /\ phase = "refused" => Faulty
  /\ phase = "netlist" => ~Faulty
============================================================================
