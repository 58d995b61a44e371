----------------------------- MODULE MCExecutor -----------------------------
(***************************************************************************)
(* Graphs of three sources and up to four gates, each gate over any two    *)
(* pins before it, and some larger ones: a chain, a tree, and a ladder     *)
(* whose early pins are needed late.  The endpoints are the pins nothing   *)
(* else uses, or every gate.                                               *)
(***************************************************************************)
EXTENDS Executor, Boomerang

CONSTANT Gates  \* the number of gates of the enumerated graphs

Sized(n) == [i \in 1 .. n |-> Source("in")]
Pairs(n) == {<<a, b>> \in (1 .. n) \X (1 .. n) : a < b}

(* The i-th gate inverts its inputs by turns. *)
GateOn(ab, i) == AndGate(2 * ab[1] + (i % 2), 2 * ab[2] + ((i \div 2) % 2))
RECURSIVE Graphs(_, _)
Graphs(n, k) ==
  IF k = 0 THEN {Sized(n)}
  ELSE {Append(g, GateOn(ab, k)) : <<g, ab>> \in Graphs(n, k - 1) \X Pairs(n + k - 1)}

(* A gate for each pair, after n sources. *)
FromPairs(n, ps) == Sized(n) \o [i \in DOMAIN ps |-> GateOn(ps[i], i)]
Chain(n) == FromPairs(2, <<<<1, 2>>>> \o [i \in 1 .. n - 1 |-> <<1, 2 + i>>])
Tree == FromPairs(4, <<<<1, 2>>, <<2, 3>>, <<3, 4>>, <<1, 4>>, <<5, 6>>, <<7, 8>>, <<9, 10>>>>)
Ladder == FromPairs(3, <<<<1, 2>>, <<2, 3>>, <<4, 5>>, <<4, 6>>, <<5, 7>>, <<6, 8>>, <<4, 9>>>>)

Ports(pins) == [i \in DOMAIN pins |-> [kind |-> "port", lits |-> <<2 * pins[i]>>]]
Unused(aig) == {p \in DOMAIN aig : \A q \in DOMAIN aig : p \notin Fanins(aig, q)}
GatesOf(aig) == {p \in DOMAIN aig : IsAnd(aig, p)}
Whole(aig, pins) == [aig |-> aig, inputs |-> {}, endpoints |-> Ports(Ascending(pins))]

(* Registers that always load, and ports of the opposite polarity. *)
Clocked(pins) ==
  [i \in DOMAIN pins |-> [kind |-> "dff", lits |-> <<1, 2 * pins[i]>>]]
  \o [i \in DOMAIN pins |-> [kind |-> "port", lits |-> <<2 * pins[i] + 1>>]]

MCPartitions ==
  {Whole(g, Unused(g) \cap GatesOf(g)) : g \in Graphs(3, Gates)}
  \cup {Whole(g, GatesOf(g)) : g \in Graphs(3, Gates - 1) \cup {Tree, Ladder, Chain(6)}}
  \cup {[Whole(g, {}) EXCEPT !.endpoints = Clocked(Ascending(GatesOf(g)))] :
           g \in Graphs(3, Gates - 1)}
  \cup {Whole(g, Unused(g)) : g \in {Tree, Ladder, Chain(6), Chain(9)}}
  \cup {[aig |-> Ladder, inputs |-> {5, 7}, endpoints |-> Ports(<<5, 9, 10>>)]}
  \cup {[aig |-> Tree, inputs |-> {}, endpoints |->
          <<[kind |-> "dff", lits |-> <<1, 22>>], [kind |-> "dff", lits |-> <<2, 23>>],
            [kind |-> "port", lits |-> <<22>>], [kind |-> "ram", lits |-> <<4, 18, 20>>]>>]}
  \cup {[aig |-> Tree, inputs |-> {}, endpoints |-> es] : es \in
          {<<[kind |-> "ram", lits |-> <<4, 21, 20, 0, 1>>]>>,
           <<[kind |-> "dff", lits |-> <<3, 22>>], [kind |-> "dff", lits |-> <<4, 23>>],
             [kind |-> "staged", lits |-> <<22>>], [kind |-> "dff", lits |-> <<17, 22>>]>>}}
=============================================================================
