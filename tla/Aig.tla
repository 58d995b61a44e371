-------------------------------- MODULE Aig --------------------------------
(***************************************************************************)
(* Orders and levels of the pins of an and-inverter graph.                 *)
(***************************************************************************)
EXTENDS AigGraph, TLC

(* A set as a sequence, by ascending rank. *)
Picked(sorted, rank) ==
  LET x == CHOOSE x \in sorted.left : \A y \in sorted.left : rank[x] <= rank[y]
  IN  [left |-> sorted.left \ {x}, seq |-> Append(sorted.seq, x)]
SortedBy(S, rank) ==
  FoldLeft(LAMBDA sorted, i : Picked(sorted, rank), [left |-> S, seq |-> <<>>],
           [i \in 1 .. Cardinality(S) |-> i]).seq
Ascending(S) == SortedBy(S, [x \in S |-> x])

(* In an IndexSet swap_remove puts the last element in the place of the    *)
(* one removed.                                                            *)
SwapRemove(s, x) ==
  LET i == CHOOSE i \in DOMAIN s : s[i] = x
  IN  Front([s EXCEPT ![i] = Last(s)])

(* Depth-first post-order from the pins of a sequence, not entering the    *)
(* pins of stop.                                                           *)
DfsTopo(aig, stop) ==
  LET dfs[p \in 0 .. Len(aig)] ==
        [order \in Seq(Nat) |->
           IF p = 0 \/ Contains(order, p) THEN order
           ELSE IF IsAnd(aig, p) /\ p \notin stop
           THEN Append(dfs[Pin(aig[p].b)][dfs[Pin(aig[p].a)][order]], p)
           ELSE Append(order, p)]
  IN  dfs

TopoTraverse(aig, pins, stop) ==
  FoldLeft(LAMBDA order, p : DfsTopo(aig, stop)[p][order], <<>>, pins)

(* The number of and gates on the longest path to each pin of a           *)
(* topological order, from the pins of known or from sources.              *)
LevelOver(aig, known, level, p) ==
  IF p \in known \/ Fanins(aig, p) = {} THEN 0 ELSE 1 + Max({level[q] : q \in Fanins(aig, p)})
Levelize(aig, known, order) ==
  FoldLeft(LAMBDA level, p : [q \in DOMAIN level \cup {p} |->
                                IF q \in DOMAIN level THEN level[q] ELSE LevelOver(aig, known, level, p)],
           <<>>, order)
============================================================================
