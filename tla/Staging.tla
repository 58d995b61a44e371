------------------------------ MODULE Staging ------------------------------
(***************************************************************************)
(* How the graph is cut into stages at the given levels, and what the      *)
(* partition loop of Mapping calls: the hypergraph of a stage's endpoints, *)
(* the mapping of a part onto the executor, and the size of its cone.      *)
(***************************************************************************)
EXTENDS Boomerang, Mapping

CONSTANT BlockSize   \* REPCUT_BITSET_BLOCK_SIZE

(* The stages of a partition of endpoints, or None. *)
None == [fits |-> FALSE, stages |-> <<>>]
RECURSIVE AddStage(_, _, _, _, _)
MoreStages(aig, stages, todo, written, limit) ==
  IF todo.unrealized = <<>> THEN [fits |-> TRUE, stages |-> stages]
  ELSE AddStage(aig, stages, BuildStage(aig, todo.unrealized, todo.realized, written, limit), written, limit)
AddStage(aig, stages, s, written, limit) ==
  IF s.refused THEN None
  ELSE MoreStages(aig, Append(stages, s.stage), s, written + Len(s.stage.outs), limit)

BuildOne(aig, inputs, endpoints) ==
  IF TooManyReserved(endpoints) THEN None
  ELSE MoreStages(aig, <<>>, [unrealized |-> Goals(endpoints), realized |-> inputs], 0,
                  MaxWriteouts - Reserved(endpoints).words)

----------------------------------------------------------------------------
AllInputs(endpoints) == FoldLeft(LAMBDA s, e : s \o InputsOf(e), <<>>, endpoints)

(* Cutting at a level: a node up to the level stays a node of the split as *)
(* long as something above uses it.  num_fanouts counts the uses left.     *)
Uses(aig, inputs, p) ==
  IF IsAnd(aig, p) /\ p \notin inputs
  THEN SelectSeq(<<Pin(aig[p].a), Pin(aig[p].b)>>, LAMBDA q : q > 0) ELSE <<>>

CountUses(order, uses) ==
  FoldLeft(LAMBDA count, p : count @@ (p :> Len(SelectSeq(uses, LAMBDA q : q = p))), <<>>, order)

ReleaseAll(acc, pins) ==
  FoldLeft(LAMBDA s, p :
             [nodes |-> IF Contains(s.nodes, p) THEN SwapRemove(s.nodes, p) ELSE s.nodes,
              fanouts |-> [s.fanouts EXCEPT ![p] = @ - 1]], acc, pins)
Release(acc, pins) ==
  FoldLeft(LAMBDA s, p :
             [nodes |-> IF s.fanouts[p] = 1 THEN SwapRemove(s.nodes, p) ELSE s.nodes,
              fanouts |-> [s.fanouts EXCEPT ![p] = @ - 1]], acc, pins)

AtMost(level, split) == level <= split
NewNodes(nodes, inputs) == SelectSeq(nodes, LAMBDA p : p \notin inputs)

FromSplit(aig, endpoints, still, inputs, split) ==
  LET goals == AllInputs([k \in DOMAIN still |-> endpoints[still[k]]])
      order == TopoTraverse(aig, goals, inputs)
      level == Levelize(aig, inputs, order)
      uses == FoldLeft(LAMBDA s, p : s \o Uses(aig, inputs, p), <<>>, order) \o goals
      ends == SelectSeq(still, LAMBDA e : \A p \in InputSet(endpoints[e]) : AtMost(level[p], split))
      nodes == FoldLeft(LAMBDA s, p : Release([s EXCEPT !.nodes = Append(@, p)], Uses(aig, inputs, p)),
                        [nodes |-> <<>>, fanouts |-> CountUses(order, uses)],
                        SelectSeq(order, LAMBDA p : AtMost(level[p], split)))
      after == Release(nodes, AllInputs([k \in DOMAIN ends |-> endpoints[ends[k]]]))
  IN  [inputs |-> inputs, ends |-> ends,
       pins |-> NewNodes(after.nodes, inputs)]

(* One entry of level_split, or all that is left after the last; the first *)
(* stage without staged pins ends the loop.  Nothing is returned if        *)
(* assert!(!unrealized_endpoint_nodes.is_empty()) fails.                   *)
OpenInputs(c, open) == AllInputs([k \in DOMAIN open |-> c.endpoints[open[k]]])
StagedPins(cut) == UNION {ToSet(s.pins) : s \in ToSet(cut)}

Depth(c, i) ==
  IF i > Len(c.splits) THEN Len(c.aig)
  ELSE c.splits[i] - IF i = 1 THEN 0 ELSE c.splits[i - 1]

CutAt(c, loop, i) ==
  IF loop.ended THEN loop
  ELSE IF OpenInputs(c, loop.open) = <<>> THEN [loop EXCEPT !.cut = <<>>, !.ended = TRUE]
  ELSE LET s == FromSplit(c.aig, c.endpoints, loop.open, StagedPins(loop.cut), Depth(c, i))
       IN  [open |-> FoldLeft(SwapRemove, loop.open, s.ends),
            cut |-> Append(loop.cut, s), ended |-> s.pins = <<>>]

BuildStagedAigs(c) ==
  FoldLeft(LAMBDA loop, i : CutAt(c, loop, i),
           [open |-> [k \in DOMAIN c.endpoints |-> k], cut |-> <<>>, ended |-> FALSE],
           [i \in 1 .. Len(c.splits) + 1 |-> i]).cut

----------------------------------------------------------------------------
(* The endpoint groups of a stage: its staged pins, then its endpoints.    *)
Groups(c, staged) ==
  [k \in DOMAIN staged.pins |-> [kind |-> "staged", lits |-> <<2 * staged.pins[k]>>]]
  \o [k \in DOMAIN staged.ends |-> c.endpoints[staged.ends[k]]]
GroupsOf(c, staged, indices) ==
  LET gs == Groups(c, staged) IN [k \in DOMAIN indices |-> gs[indices[k]]]

(* Partition::build_one.                                                   *)
MapOntoExecutor(c, staged, indices) ==
  LET built == BuildOne(c.aig, staged.inputs, GroupsOf(c, staged, indices))
  IN  [fits |-> built.fits, stages |-> Len(built.stages)]

(* cnt_nodes: the nodes the endpoints are computed from.                   *)
NodesUnder(c, staged, indices) ==
  Len(TopoTraverse(c.aig, AllInputs(GroupsOf(c, staged, indices)), staged.inputs))

(* The hypergraph of some endpoints: for each pin the set of endpoints in  *)
(* whose cone it is, found block by block and backwards; pins with the     *)
(* same set of two or more make one edge.  The loop leaves the last pin    *)
(* out.                                                                    *)
RECURSIVE Backwards(_, _, _, _, _, _)
Backwards(aig, order, groups, block, i, segs) ==
  IF i = 0 THEN segs
  ELSE LET p == order[i]
           users == {q \in DOMAIN segs : p \in Fanins(aig, q)}
       IN  Backwards(aig, order, groups, block, i - 1,
             segs @@ (p :> {k \in block : p \in InputSet(groups[k])}
                           \cup UNION {segs[q] : q \in users}))

Segments(c, staged, groups, block) ==
  LET order == TopoTraverse(c.aig, AllInputs(SelectSeq(groups,
                              LAMBDA e : \E k \in block : groups[k] = e)), staged.inputs)
  IN  Backwards(c.aig, order, groups, block, Len(order), <<>>)

Clusters(c, staged, indices) ==
  LET groups == GroupsOf(c, staged, indices)
      blocks == {{k \in DOMAIN groups : (k - 1) \div BlockSize = b} : b \in 0 .. Len(groups) \div BlockSize}
      segs == {Segments(c, staged, groups, block) : block \in blocks}
      set(p) == UNION {seg[p] : seg \in {s \in segs : p \in DOMAIN s}}
      sets == FoldLeft(LAMBDA ss, p : Append(ss, set(p)), <<>>, [p \in 1 .. Len(c.aig) - 1 |-> p])
  IN  FoldLeft(LAMBDA es, s : IF Cardinality(s) < 2 THEN es
                              ELSE (s :> 1 + IF s \in DOMAIN es THEN es[s] ELSE 0) @@ es, <<>>, sets)

----------------------------------------------------------------------------
Increasing == \A k \in DOMAIN circuit.splits :
                circuit.splits[k] > IF k = 1 THEN -1 ELSE circuit.splits[k - 1]

(* The and gates a stage computes.                                         *)
Computed(staged) ==
  {p \in ToSet(TopoTraverse(circuit.aig, AllInputs(Groups(circuit, staged)), staged.inputs)) :
     IsAnd(circuit.aig, p) /\ p \notin staged.inputs}

(* Cutting loses nothing: when it ends, each endpoint is in one stage, the *)
(* last stage stages nothing on, each and gate an endpoint depends on is   *)
(* computed in exactly one stage, and no stage is deeper than its levels,  *)
(* counted from what earlier stages staged (staging.rs:137, 212).  No      *)
(* assertion fails, and no stage is without endpoints, unless the levels   *)
(* do not increase or the circuit has no endpoint.                         *)
StagesClose ==
  /\ phase = "empty" => ~Increasing \/ circuit.endpoints = <<>>
  /\ phase = "cut" /\ Increasing =>
       /\ \A e \in DOMAIN circuit.endpoints :
            Cardinality({k \in DOMAIN stageds : Contains(stageds[k].ends, e)}) = 1
       /\ Last(stageds).pins = <<>>
       /\ \A p \in ToSet(TopoTraverse(circuit.aig, AllInputs(circuit.endpoints), {})) :
            IsAnd(circuit.aig, p) =>
              Cardinality({k \in DOMAIN stageds : p \in Computed(stageds[k])}) = 1
       /\ \A k \in DOMAIN stageds \ {Len(circuit.splits) + 1} :
            LET order == TopoTraverse(circuit.aig, AllInputs(Groups(circuit, stageds[k])), stageds[k].inputs)
                level == Levelize(circuit.aig, stageds[k].inputs, order)
            IN  \A p \in DOMAIN level :
                  level[p] <= circuit.splits[k] - IF k = 1 THEN 0 ELSE circuit.splits[k - 1]
=============================================================================
