----------------------------- MODULE MCNetlist -----------------------------
(***************************************************************************)
(* Small designs: hierarchies with the ways of connecting Verilog has and  *)
(* the ways of getting it wrong, then gates, registers, clock paths and    *)
(* memories in combination.                                                *)
(***************************************************************************)
EXTENDS GateLevel

Full(n) == <<[kind |-> "full", name |-> n]>>
BitOf(n, i) == <<[kind |-> "bit", name |-> n, at |-> i]>>
Slice(n, l, r) == <<[kind |-> "slice", name |-> n, l |-> l, r |-> r]>>
Lit(bits) == <<[kind |-> "lit", bits |-> bits]>>

Def(type, n) == [name |-> n, type |-> type, width |-> <<>>]
Vector(type, n, l, r) == [name |-> n, type |-> type, width |-> <<l, r>>]
Defs(type, names) == [i \in DOMAIN names |-> Def(type, names[i])]
PlainPort(n) == [name |-> n, conn |-> FALSE, expr |-> Full(n)]
NamedPort(n, expr) == [name |-> n, conn |-> TRUE, expr |-> expr]
Plain(names) == [i \in DOMAIN names |-> PlainPort(names[i])]
Cell(n, macro, pins) == [name |-> n, macro |-> macro, pins |-> pins]
Body(ports, defs, cells, assigns) == [ports |-> ports, defs |-> defs, cells |-> cells, assigns |-> assigns]
Alone(m) == [modules |-> [top |-> m], top |-> ""]

(* pins A, B and Y of a gate *)
Gate2(n, macro, a, b, y) == Cell(n, macro, <<<<"A", a>>, <<"B", b>>, <<"Y", y>>>>)
Gate1(n, macro, a, y) == Cell(n, macro, <<<<"A", a>>, <<"Y", y>>>>)

----------------------------------------------------------------------------
(* A module with inverted input, used from another one. *)
Inner == Body(<<NamedPort("p", Slice("v", 1, 0)), PlainPort("o")>>,
              <<Vector("input", "v", 1, 0), Def("output", "o")>>,
              <<Gate1("g", "INV", BitOf("v", 1), Full("w")), Gate2("h", "AND2_00_0", Full("w"), BitOf("v", 0), Full("o"))>>,
              <<>>)
AB == Defs("input", <<"a", "b">>)
Outer(expr, defs, assigns) ==
  Body(Plain(<<"a", "b", "y">>), AB \o <<Def("output", "y")>> \o defs,
       <<Cell("u", "inner", <<<<"p", expr>>, <<"o", Full("y")>>>>)>>, assigns)
Nested(m) == [modules |-> [top |-> m, inner |-> Inner], top |-> ""]

Twice == Body(Plain(<<"a", "b", "y">>), AB \o <<Def("output", "y")>>,
              <<Cell("u", "inner", <<<<"p", Full("a") \o Full("b")>>, <<"o", Full("m")>>>>),
                Cell("v", "inner", <<<<"o", Full("y")>>, <<"p", Full("m") \o Lit(<<1>>)>>>>)>>, <<>>)

Assigns(assigns) ==
  Alone(Body(Plain(<<"a", "b", "y", "z">>),
             AB \o <<Def("output", "y"), Vector("wire", "n", 0, 2), Def("wire", "y"), Def("output", "z")>>,
             <<Gate1("g", "BUF", BitOf("n", 1), Full("y"))>>, assigns))

(* Ports of the inner module that are connected with names it does not     *)
(* declare: the port itself, one named before, and one named after.        *)
Aliased(ports) ==
  [modules |-> [top |-> Outer(Full("a") \o Full("b"), <<>>, <<>>),
                inner |-> [Inner EXCEPT !.ports = ports \o @,
                                        !.cells = Append(@, Gate1("k", "BUF", Full("s"), Full("t")))]], top |-> ""]

Hierarchies ==
  {Nested(Outer(Full("a") \o Full("b"), <<>>, <<>>)),
   Nested(Outer(Full("n"), <<Vector("wire", "n", 2, 3)>>, <<<<Slice("n", 3, 2), Full("a") \o Full("b")>>>>)),
   Nested(Outer(Slice("n", 0, 1), <<Vector("wire", "n", 3, 0)>>, <<<<Slice("n", 0, 1), Full("b") \o Full("a")>>>>)),
   Nested(Outer(Lit(<<1, 0>>), <<>>, <<>>)), Nested(Outer(Lit(<<2>>) \o Full("a"), <<>>, <<>>)),
   Nested(Outer(Full("a") \o Lit(<<3>>), <<>>, <<>>)), Nested(Twice),
   [Nested(Twice) EXCEPT !.top = "inner"], [Nested(Twice) EXCEPT !.top = "missing"],
   [modules |-> [top |-> Twice, inner |-> Inner, other |-> Inner], top |-> ""],
   [modules |-> [top |-> Twice, inner |-> Inner, other |-> Inner], top |-> "top"],
   [modules |-> [top |-> [Inner EXCEPT !.cells = Append(@, Cell("r", "top", <<>>))], inner |-> Inner], top |-> "top"],
   Nested(Body(Plain(<<"a", "y">>), AB \o <<Def("output", "y")>>,
               <<Cell("u", "inner", <<<<"q", Full("a")>>, <<"o", Full("y")>>>>)>>, <<>>))}
  \cup {Aliased(ports) : ports \in
     {<<NamedPort("s", Full("s"))>>, <<NamedPort("s", Full("v")), NamedPort("r", BitOf("s", 1))>>,
      <<NamedPort("r", Full("s")), NamedPort("s", Full("v"))>>}}
  \cup {Nested(Outer(Full("a") \o Full("b"), <<Def(type, "b")>>, <<>>)) : type \in {"wire", "output"}}
  \cup {Assigns(as) : as \in
     {<<<<Full("n"), Full("a") \o Full("b") \o Full("z")>>, <<Full("z"), Full("a")>>>>,
      <<<<Full("n"), Lit(<<0, 1, 2>>)>>, <<Full("z"), BitOf("n", 2)>>>>,
      <<<<Full("n"), Lit(<<1, 1, 3>>)>>, <<Lit(<<0>>), Full("z")>>>>,
      <<<<Full("n"), Full("a") \o Full("b")>>, <<Full("z"), Full("a")>>>>,
      <<<<Full("y"), Full("a")>>, <<Slice("n", 1, 2), Full("b") \o Full("a")>>, <<Full("z"), Full("b")>>>>,
      <<<<Full("n"), Lit(<<0, 0, 0>>)>>, <<Full("z"), Lit(<<1>>)>>, <<Full("z"), BitOf("n", 0)>>>>,
      <<<<Full("z"), Full("a")>>, <<Lit(<<1>>), Lit(<<1>>)>>>>, <<<<Full("z"), Full("a")>>>>,
      <<<<BitOf("n", 1), Full("a")>>, <<Full("z"), Full("b")>>, <<BitOf("n", 1), Full("b")>>>>,
      <<<<Slice("n", 0, 1), Full("i") \o Full("a")>>, <<Full("z"), Full("i")>>, <<Full("i"), Full("b")>>>>}}
  \cup {Alone(Body(ports, AB \o <<Def("output", "y"), Def("inout", "x"), Vector("input", "v", 3, 3)>>,
                   <<Gate1("g", "INV", Full("a"), Full("y"))>>, <<>>)) : ports \in
     {Plain(<<"a", "b", "x", "y">>), Plain(<<"a", "b", "y", "nowhere">>),
      Plain(<<"a", "y">>) \o <<NamedPort("c", Full("b"))>>, Plain(<<"a", "y">>) \o <<NamedPort("c", Full("nowhere"))>>,
      Plain(<<"a", "y">>) \o <<NamedPort("c", Full("c"))>>, Plain(<<"a", "y">>) \o <<NamedPort("c", Full("v"))>>,
      Plain(<<"a", "y">>) \o <<NamedPort("c", Lit(<<1>>))>>,
      Plain(<<"a", "y">>) \o <<NamedPort("c", Full("b") \o Full("a"))>>}}

----------------------------------------------------------------------------
(* Logic with the ports clk, a and b, the outputs y and z, and wires.      *)
Wired(cells) ==
  Alone(Body(Plain(<<"clk", "a", "b", "y", "z">>), Defs("input", <<"clk", "a", "b">>) \o Defs("output", <<"y", "z">>),
             cells, <<>>))

(* A register from d to y, its clock on the wire ck; the other output. *)
Dff(n, ck, d, q) == Cell(n, "DFF", <<<<"CLK", ck>>, <<"D", d>>, <<"Q", q>>>>)
Dffsr(n, ck, d, s, r, q) == Cell(n, "DFFSR", <<<<"R", r>>, <<"CLK", ck>>, <<"S", s>>, <<"D", d>>, <<"Q", q>>>>)
Gater(n, cp, e, q) == Cell(n, "CKLNQD", <<<<"E", e>>, <<"CP", cp>>, <<"Q", q>>>>)
Other(expr) == Gate1("o", "BUF", expr, Full("z"))

Ands == {"AND2_00_0", "AND2_01_0", "AND2_10_0", "AND2_11_0", "AND2_11_1"}
Combinational ==
  {Wired(<<Gate2("g", type, Full("a"), x, Full("y")), Gate2("h", more, x, Full("a"), Full("z"))>>) :
     type \in Ands, more \in {"AND2_00_0", "AND2_11_1"}, x \in {Full("b"), Full("a"), Lit(<<1>>), Lit(<<0>>)}}

Toggling(type) ==
  Wired(<<Dff("r", Full("clk"), Full("d"), Full("y")), Gate2("g", type, Full("y"), Full("a"), Full("d")), Other(Full("d"))>>)

(* Ways from clk to ck, with the registers q and b at hand. *)
ClockPaths ==
  {<<Gate1("c", "BUF", Full("clk"), Full("ck"))>>, <<Gate1("c", "INV", Full("clk"), Full("ck"))>>,
   <<Gater("c", Full("clk"), Full("b"), Full("ck"))>>,
   <<Gater("c", Full("clk"), Full("y"), Full("ck"))>>,
   <<Gate1("i", "INV", Full("clk"), Full("nck")), Gater("c", Full("nck"), Full("e"), Full("ck")),
     Gate2("e", "AND2_11_0", Full("y"), Full("b"), Full("e"))>>,
   <<Gater("c", Full("clk"), Full("a"), Full("ck1")), Gate1("m", "BUF", Full("ck1"), Full("ck2")),
     Gater("k", Full("ck2"), Full("b"), Full("ck"))>>}

Steps == <<Gate2("g", "AND2_01_0", Full("a"), Full("y"), Full("d")), Other(Full("d"))>>
Clocked ==
  {Wired(<<Dff("r", Full("ck"), Full("d"), Full("y"))>> \o Steps \o path) : path \in ClockPaths}
  \cup {Wired(<<Dffsr("r", Full("ck"), Full("a"), Full("b"), Lit(<<1>>), Full("y")), Other(Full("y"))>> \o path) :
          path \in {<<Gate1("c", "BUF", Full("clk"), Full("ck"))>>, <<Gater("c", Full("clk"), Full("a"), Full("ck"))>>}}
  \cup {Wired(<<Dffsr("r", Full("clk"), Full("d"), s, r, Full("y")), Gate1("g", "INV", Full("y"), Full("d")), Other(Full("d"))>>) :
          s \in {Lit(<<1>>), Full("a")}, r \in {Full("b"), Full("a")}}
  \cup {Wired(<<Dff("r", Full("clk"), Full("a"), Full("y")), Dff("s", ck, Full("y"), Full("z"))>>) :
          ck \in {Full("clk"), Full("b"), Lit(<<1>>)}}
  \cup {Wired(<<Dff("r", Full("clk"), Full("clk"), Full("y")), Gate2("g", "AND2_00_0", Full("clk"), Full("y"), Full("z"))>>)}

Unusable ==
  {Wired(<<Gate2("g", "AND2_00_0", Full("a"), Full("z"), Full("y")), Gate1("h", "INV", Full("y"), Full("z"))>>),
   Wired(<<Gate2("g", "AND2_00_0", Full("a"), Full("nothing"), Full("y")), Other(Full("y"))>>),
   Wired(<<Cell("l", "LATCH", <<<<"CLK", Full("clk")>>, <<"D", Full("a")>>, <<"Q", Full("y")>>>>), Other(Full("a"))>>),
   Wired(<<Dff("r", Full("ck"), Full("a"), Full("y")), Other(Full("y")), Gate2("g", "AND2_00_0", Full("clk"), Full("b"), Full("ck"))>>),
   Wired(<<Dff("r", Full("i"), Full("a"), Full("y")), Other(Full("y")), Gate1("g", "INV", Full("j"), Full("i")),
           Gate1("h", "BUF", Full("i"), Full("j"))>>),
   Wired(<<Dff("r", Full("nothing"), Full("a"), Full("y")), Other(Full("y"))>>),
   Wired(<<Gater("c", Full("clk"), Full("a"), Full("ck")), Gate2("g", "AND2_00_0", Full("ck"), Full("b"), Full("y")), Other(Full("y"))>>),
   Wired(<<Gater("c", Full("clk"), Full("a"), Full("ck")), Dff("r", Full("ck"), Full("ck"), Full("y")), Other(Full("y"))>>),
   Wired(<<Cell("x", "XOR2", <<<<"A", Full("a")>>, <<"Y", Full("y")>>>>), Other(Full("a"))>>),
   Wired(<<Cell("m", "$__RAMGEM_SYNC_", <<<<"PORT_R_RD_DATA", Full("y")>>>>), Other(Full("a"))>>),
   Wired(<<Cell("c", "CKLNQD", <<<<"CP", Full("clk")>>, <<"Q", Full("ck")>>>>), Dff("r", Full("ck"), Full("a"), Full("y")), Other(Full("y"))>>),
   Wired(<<Cell("r", "DFF", <<<<"CLK", Full("clk")>>, <<"D", Full("a")>>>>), Gate1("g", "INV", Full("b"), Full("y")), Other(Full("y"))>>),
   Wired(<<Cell("g", "AND2_00_0", <<<<"B", Full("clk")>>, <<"Y", Full("y")>>>>), Other(Full("a"))>>)}

Sram(ck, more, raddr, waddr, wen, wdata) ==
  Wired(more \o <<Cell("m", "$__RAMGEM_SYNC_",
              <<<<"PORT_R_CLK", ck>>, <<"PORT_R_ADDR", raddr>>, <<"PORT_R_RD_DATA", Full("z") \o Full("y")>>,
                <<"PORT_W_CLK", ck>>, <<"PORT_W_ADDR", waddr>>, <<"PORT_W_WR_EN", wen>>, <<"PORT_W_WR_DATA", wdata>>>>)>>)
WithMemory ==
  {Sram(Full("clk"), <<>>, Full("a") \o Full("b"), Full("b") \o Full("a"), Lit(<<1>>) \o Full("a"), Full("b") \o Lit(<<1>>)),
   Sram(Full("ck"), <<Gater("c", Full("clk"), Full("a"), Full("ck"))>>, Full("y") \o Full("b"), Lit(<<0>>) \o Full("b"),
        Full("b") \o Lit(<<1>>), Full("a") \o Lit(<<1>>)),
   Sram(Full("clk"), <<>>, Lit(<<0>>) \o Full("a"), Lit(<<0>>) \o Full("b"), Full("b") \o Full("a"), Full("y") \o Lit(<<1>>))}

MCDesigns == Hierarchies \cup Combinational \cup {Toggling(type) : type \in Ands} \cup Clocked \cup Unusable \cup WithMemory
=============================================================================
