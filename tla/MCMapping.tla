----------------------------- MODULE MCMapping -----------------------------
(***************************************************************************)
(* Circuits that are cut at one or two levels or not at all, whose         *)
(* endpoints share cones, and some that the small executor cannot take.    *)
(***************************************************************************)
EXTENDS Staging

FromPairs(n, ps) ==
  [i \in 1 .. n |-> Source("in")]
  \o [i \in DOMAIN ps |-> AndGate(2 * ps[i][1] + (i % 2), 2 * ps[i][2] + ((i \div 2) % 2))]
Chain(n) == FromPairs(2, <<<<1, 2>>>> \o [i \in 1 .. n - 1 |-> <<1, 2 + i>>])
Tree == FromPairs(4, <<<<1, 2>>, <<2, 3>>, <<3, 4>>, <<1, 4>>, <<5, 6>>, <<7, 8>>, <<9, 10>>>>)
Ladder == FromPairs(3, <<<<1, 2>>, <<2, 3>>, <<4, 5>>, <<4, 6>>, <<5, 7>>, <<6, 8>>, <<4, 9>>>>)

Port(p) == [kind |-> "port", lits |-> <<2 * p>>]
Register(en, d) == [kind |-> "dff", lits |-> <<2 * en + 1, 2 * d + 1>>]
Ram(pins) == [kind |-> "ram", lits |-> [i \in DOMAIN pins |-> 2 * pins[i]]]

Circuit(aig, endpoints, splits, degrad, file) ==
  [aig |-> aig, endpoints |-> endpoints, splits |-> splits, degrad |-> degrad, file |-> file]

TreePorts == <<Port(9), Port(10), Port(11)>>
LadderEnds == <<Port(5), Port(8), Register(1, 9), Port(10)>>
ChainEnds == <<Port(3), Register(4, 7), Register(5, 6)>>

MCCircuits ==
  {Circuit(Tree, TreePorts, splits, 0, FALSE) : splits \in {<<>>, <<1>>, <<1, 2>>, <<2, 5>>}}
  \cup {Circuit(Ladder, LadderEnds, splits, d, FALSE) : splits \in {<<>>, <<2>>, <<3>>, <<2, 3>>}, d \in {0, 1}}
  \cup {Circuit(Chain(5), ChainEnds, splits, 1, FALSE) : splits \in {<<3>>, <<1, 1>>, <<0>>}}
  \cup {Circuit(Tree, <<Register(5, 6), Register(7, 8), Port(9), Ram(<<5, 6, 7, 8>>)>>, <<1>>, 0, FALSE),
        Circuit(Tree, <<Ram(<<1, 2, 3, 4, 5, 6, 7, 8>>), Ram(<<9, 10, 11, 1, 2>>)>>, <<>>, 0, FALSE),
        Circuit(Tree, <<>>, <<>>, 0, FALSE)}
  \cup {Circuit(Ladder, LadderEnds, splits, 0, TRUE) : splits \in {<<>>, <<2>>}}
  \cup {Circuit(Tree, TreePorts, splits, 0, TRUE) : splits \in {<<>>, <<1>>}}
=============================================================================
