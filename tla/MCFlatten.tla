----------------------------- MODULE MCFlatten -----------------------------
(***************************************************************************)
(* Small circuits for Flatten: one stage that passes on m, and a final     *)
(* stage whose endpoints are spread over partitions in every way.  The pin *)
(* a has four activations: an output in both polarities and registers      *)
(* under two enables; w is enabled by the inverse of ena.                  *)
(***************************************************************************)
EXTENDS Flatten, SequencesExt

CONSTANTS x, ena, a, w, m, q1, q2, q3, q4, r0, r1

Out(lit) == [kind |-> "PO", d |-> lit]
StagedOut(pin) == [kind |-> "Staged", d |-> <<pin, 0>>]
Latch(lit, en, q) == [kind |-> "DFF", d |-> lit, en |-> en, q |-> q]
Ram ==
  [kind |-> "RAM", en |-> <<ena, 0>>, rd |-> (0 :> r0) @@ (1 :> r1),
   ports |-> (0 :> <<a, 0>>) @@ (1 :> <<w, 1>>) @@ (2 :> True) @@ (3 :> <<ena, 0>>)
             @@ (4 :> <<Zero, 0>>) @@ (5 :> <<w, 0>>)]

Shared == {Out(<<a, 0>>), Out(<<a, 1>>), Latch(<<a, 0>>, <<ena, 0>>, q1),
           Latch(<<a, 1>>, <<ena, 1>>, q2), Latch(<<w, 0>>, <<ena, 1>>, q3)}

Reading == {x, m, q1, q2, q3}
Final(depth, outs, ends, ins) == [depth |-> depth, outs |-> outs, ends |-> ends, ins |-> ins]

First(n) ==
  [i \in 1 .. n |-> Final(1, <<m, NoPin>>, IF i = 1 THEN <<StagedOut(m)>> ELSE <<>>, {x, q1})]

Cuts == {c \in (1 .. 5) \X (1 .. 5) : c[1] <= c[2]}

Spread(s, c, outs) ==
  SelectSeq(<<Final(3, outs, SubSeq(s, 1, c[1]), Reading),
              Final(2, outs, SubSeq(s, c[1] + 1, c[2]), Reading),
              Final(1, outs, SubSeq(s, c[2] + 1, 5), Reading)>>,
            LAMBDA p : p.ends # <<>>)

MCCircuits ==
  {<<First(1), Spread(s, c, <<a, NoPin, ena, w>>)>> : s \in SetToSeqs(Shared), c \in Cuts}
  \cup
  {<<First(2), <<Final(2, <<w, a, ena, NoPin>>, s, {r0, r1, q1, q4})>>>> :
     s \in SetToSeqs({Ram, StagedOut(a), Latch(<<a, 0>>, <<ena, 0>>, q1),
                      Latch(<<Zero, 0>>, <<ena, 0>>, q4)})}
  \cup
  {<<<<Final(1, <<a, ena, w, NoPin>>, <<Ram, [Ram EXCEPT !.rd = (0 :> q1) @@ (1 :> NoPin)]>>, {x}),
       Final(1, <<a, ena>>, <<Latch(<<a, 1>>, <<ena, 1>>, q2)>>, {q1, r1})>>>>}

(* A register of the constant 0 in a partition that another register of it *)
(* shares under another enable, a partition whose register is not written  *)
(* out, and one that reads a pin nothing stores.                           *)
MCPanics ==
  {<<<<Final(1, outs, s, ins)>>>> :
     outs \in {<<a, ena>>, <<NoPin, ena>>}, ins \in {{x}, {w}},
     s \in SetToSeqs({Latch(<<a, 0>>, <<ena, 0>>, q1), Latch(<<Zero, 0>>, <<ena, 0>>, q3),
                     Latch(<<Zero, 0>>, <<ena, 1>>, q4)})}

MCAllCircuits == MCCircuits \cup MCPanics

MCLayout == <<x, NoPin, NoPin>>

============================================================================
