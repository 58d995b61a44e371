----------------------------- MODULE Boomerang -----------------------------
(***************************************************************************)
(* How a partition is mapped onto the boomerang executor: a hierarchy of   *)
(* 2^Levels slots, each upper level an and gate or a pass-through of two   *)
(* slots below.  One boomerang stage takes what it can; the pins it has    *)
(* in the hierarchy are the inputs of the next.                            *)
(***************************************************************************)
EXTENDS Aig, Hierarchy

CONSTANT Crowded  \* 10: a level-1 word with as many slots taken is left alone
ASSUME CrowdedAssumption == Crowded \in Nat \ {0}

EmptyHier == [h \in 0 .. Levels |-> [j \in Slot(h) |-> Free]]

(* The pins in the hierarchy, those of its lowest level not counted. *)
Visited(hier) == (UNION {{hier[h][j] : j \in Slot(h)} : h \in 1 .. Levels}) \ {Free}
Taken(hier, js) == {j \in js : hier[1][j] # Free}

(* What a stage works on: the graph still to do below the unrealized pins. *)
Subgraph(aig, unrealized, realized) ==
  LET order == TopoTraverse(aig, unrealized, realized)
  IN  [aig |-> aig, order |-> order, goals |-> ToSet(unrealized), realized |-> realized,
       level |-> Levelize(aig, realized, order)]

(* The slot above slot i of level l. *)
Above(l, i) == IF i < Width(l + 1) THEN i ELSE i - Width(l + 1)

(* What the slot above hands down to slot i of level l: a gate of level    *)
(* l + 1 its inputs and any other pin itself.  Mutant: the inputs are      *)
(* exchanged.                                                              *)
Left(l, i) == i < Width(l + 1)
HandedBack(g, q, l, i) ==
  IF g.level[q] = l + 1 THEN IF Left(l, i) THEN Pin(g.aig[q].b) ELSE Pin(g.aig[q].a)
  ELSE IF Left(l, i) THEN q ELSE Free
Handed(g, q, l, i) ==
  IF g.level[q] = l + 1 THEN IF Left(l, i) THEN Pin(g.aig[q].a) ELSE Pin(g.aig[q].b)
  ELSE IF Left(l, i) THEN q ELSE Free

(* The slots that pin p needs when it is put in slot j of level h.         *)
Needs(g, h, j, p) ==
  LET needs[l \in 0 .. h] ==
        LET over == needs[l + 1]
            q(i) == over[Above(l, i)]
        IN  [i \in Slot(l) |->
               IF l = h THEN IF i = j THEN p ELSE Free
               ELSE IF q(i) = Free THEN Free ELSE Handed(g, q(i), l, i)]
  IN  needs

PlaceBit(g, hier, h, j, p) ==
  LET needs == Needs(g, h, j, p)
  IN  [l \in 0 .. Levels |->
         IF l > h THEN hier[l]
         ELSE LET put == needs[l]
              IN  [i \in Slot(l) |-> IF put[i] = Free THEN hier[l][i] ELSE put[i]]]

(* Empty a slot and what it is made from. *)
Emptied(hier, h, j) ==
  LET emptied[l \in 0 .. h] ==
        LET over == emptied[l + 1]
        IN  {i \in Slot(l) : hier[l][i] # Free /\ IF l = h THEN i = j ELSE Above(l, i) \in over}
  IN  emptied

PurgeBit(hier, h, j) ==
  LET emptied == Emptied(hier, h, j)
  IN  [l \in 0 .. Levels |->
         IF l > h THEN hier[l]
         ELSE LET cut == emptied[l] IN [i \in Slot(l) |-> IF i \in cut THEN Free ELSE hier[l][i]]]

(* The longest way from each pin up to an endpoint, past pins that are not *)
(* in the hierarchy; Free if there is none.                                *)
Larger(m, n) == IF m < n THEN n ELSE m
Lengthened(g, visited, rev, q) ==
  IF q \in g.realized \cup visited THEN rev
  ELSE [p \in DOMAIN rev |-> IF p \in Fanins(g.aig, q) THEN Larger(rev[p], rev[q] + 1) ELSE rev[p]]
ReverseLevels(g, hier) ==
  LET visited == Visited(hier)
  IN  FoldLeft(LAMBDA rev, q : Lengthened(g, visited, rev, q),
               [p \in ToSet(g.order) |-> IF p \in g.goals THEN 0 ELSE Free], Reverse(g.order))

(* The pins that have to be put on level 1 besides the hierarchy, in the   *)
(* order in which they are met: those of level 1, endpoints of level 0,    *)
(* and the inputs of level 0 of the gates above.  Mutant: the last ones    *)
(* are forgotten.                                                          *)
InsertedAlone(g, visited, revlevel, p) ==
  IF p \in visited \/ revlevel[p] = Free THEN <<>>
  ELSE IF g.level[p] = 1 \/ (g.level[p] = 0 /\ p \in g.goals) THEN <<p>> ELSE <<>>
Inserted(g, visited, revlevel, p) ==
  IF p \in visited \/ revlevel[p] = Free THEN <<>>
  ELSE IF g.level[p] > 1
  THEN Kept(<<Pin(g.aig[p].a), Pin(g.aig[p].b)>>, {q \in DOMAIN g.level \ visited : g.level[q] = 0})
  ELSE IF g.level[p] = 1 \/ p \in g.goals THEN <<p>> ELSE <<>>

Necessary(g, hier, revlevel) ==
  LET visited == Visited(hier)
  IN  FirstOccurrences(FoldLeft(LAMBDA s, p : s \o Inserted(g, visited, revlevel, p), <<>>, g.order))

(* The first node of a level that is furthest from the endpoints. *)
ValuableNode(g, hier, revlevel, sel) ==
  LET visited == Visited(hier)
      open == {i \in DOMAIN g.order : /\ g.level[g.order[i]] = sel
                                      /\ g.order[i] \notin visited /\ revlevel[g.order[i]] # Free}
      best == {i \in open : \A k \in open : revlevel[g.order[k]] <= revlevel[g.order[i]]}
  IN  IF best = {} THEN Free ELSE g.order[Min(best)]

Overflows(hier, necessary) ==
  Len(necessary) + Max({Cardinality(Taken(hier, Slot(1))), Cardinality(Visited(hier))}) >= Width(1)

(* Fill the hierarchy from its highest usable level down to level 2.  Each *)
(* step takes a slot above level 1 or goes down a level.                   *)
PlaceHighest(g, high) ==
  LET sel == high.sel
      slots == {j \in Slot(sel) : high.hier[sel][j] = Free}
      node == ValuableNode(g, high.hier, high.revlevel, sel)
      placed == PlaceBit(g, high.hier, sel, Min(slots), node)
      upd == ReverseLevels(g, placed)
  IN  IF sel < 2 THEN high
      ELSE IF slots = {} \/ node = Free THEN [high EXCEPT !.sel = @ - 1]
      ELSE IF Overflows(placed, Necessary(g, placed, upd))
      THEN [hier |-> PurgeBit(placed, sel, Min(slots)), revlevel |-> high.revlevel, sel |-> sel - 1]
      ELSE [hier |-> placed, revlevel |-> upd, sel |-> sel]

PlaceHigh(g, hier, revlevel, sel) ==
  FoldLeft(LAMBDA high, i : PlaceHighest(g, high), [hier |-> hier, revlevel |-> revlevel, sel |-> sel],
           [i \in 1 .. Levels + Width(1) |-> i])

(* Words of level 1 that are not crowded, the emptiest first. *)
Chunk(i) == i * Word .. i * Word + Word - 1
Spaces(hier) ==
  LET used(i) == Cardinality(Taken(hier, Chunk(i)))
      words == {i \in 0 .. Width(1) \div Word - 1 : used(i) < Crowded}
  IN  SortedBy(words, [i \in words |-> used(i) * Width(1) + i])

(* Put pins into the free slots of a level-1 word and write the word out;  *)
(* endpoints it already holds are realized too, as far as the scan got.    *)
FillSlot(g, st, j) ==
  IF st.todo = <<>> THEN st
  ELSE IF st.hier[1][j] = Free
  THEN [st EXCEPT !.hier = PlaceBit(g, @, 1, j, Head(st.todo)),
                  !.done = Append(@, Head(st.todo)), !.todo = Tail(@)]
  ELSE [st EXCEPT !.done = IF st.hier[1][j] \in g.goals \ ToSet(@)
                           THEN Append(@, st.hier[1][j]) ELSE @]
FillWord(g, st, w) ==
  FoldLeft(LAMBDA s, j : FillSlot(g, s, j), st, [k \in 1 .. Word |-> w * Word + k - 1])

(* The words in turn, until there are too few pins for one, unless all of  *)
(* the endpoints may be done in this stage.                                *)
Room(st, w) == Word - Cardinality(Taken(st.hier, Chunk(w)))
PushWord(g, st, w, untouched) ==
  IF ~st.more \/ (untouched # {} /\ Len(st.todo) < Room(st, w)) THEN [st EXCEPT !.more = FALSE]
  ELSE [FillWord(g, st, w) EXCEPT !.outs = Append(@, (w * Word + Width(1)) \div Word)]
PushEndpoints(g, hier, todo, spaces, untouched) ==
  FoldLeft(LAMBDA st, w : PushWord(g, st, w, untouched),
           [hier |-> hier, todo |-> todo, done |-> <<>>, outs |-> <<>>, more |-> TRUE], spaces)

(* The other pins due on level 1 go to the first free slots; one slot more *)
(* has to stay free.  Mutant: they are forgotten.                          *)
LeaveRest(g, st, necessary) == [fits |-> TRUE, hier |-> st.hier]

OpenSlots(hier) == {j \in Slot(1) : hier[1][j] = Free}
PlaceNext(g, rest, p) ==
  IF OpenSlots(rest.hier) = {} THEN [rest EXCEPT !.fits = FALSE]
  ELSE [rest EXCEPT !.hier = PlaceBit(g, @, 1, Min(OpenSlots(@)), p)]
PlaceRest(g, st, necessary) ==
  LET pins == Kept(necessary, ToSet(necessary) \ (Visited(st.hier) \cup ToSet(st.done)))
      placed == FoldLeft(LAMBDA rest, p : PlaceNext(g, rest, p), [fits |-> TRUE, hier |-> st.hier], pins)
  IN  [placed EXCEPT !.fits = @ /\ OpenSlots(placed.hier) # {}]

(* The words in which endpoints of the hierarchy still have to go out. *)
WordOf(h, j) == (j + Width(h)) \div Word
AddWord(c, words, h, j) ==
  IF c.hier[h][j] \in c.pins /\ ~Contains(words, WordOf(h, j)) THEN Append(words, WordOf(h, j)) ELSE words
LevelWords(c, words, h) ==
  FoldLeft(LAMBDA ws, k : AddWord(c, ws, h, k - 1), words, [k \in 1 .. Width(h) |-> k])
ScatteredWords(hier, pins) ==
  FoldLeft(LAMBDA ws, h : LevelWords([hier |-> hier, pins |-> pins], ws, h), <<>>, [h \in 1 .. Levels |-> h])

(* The upper levels, then level 1, then whatever else the hierarchy has of *)
(* the endpoints if nothing is left for another stage.                     *)
Upper(g, high) ==
  [g |-> g, hier |-> high.hier, necessary |-> Necessary(g, high.hier, high.revlevel),
   inHier |-> g.goals \cap Visited(high.hier)]
StartStage(g) ==
  Upper(g, PlaceHigh(g, EmptyHier, ReverseLevels(g, EmptyHier),
                     Min({Max({g.level[p] : p \in DOMAIN g.level}), Levels})))

FillLevel1(up, inLevel1, untouched) ==
  [g |-> up.g, necessary |-> up.necessary, inHier |-> up.inHier, untouched |-> untouched,
   pushed |-> PushEndpoints(up.g, up.hier, inLevel1, Spaces(up.hier), untouched)]
LevelUp(up, unrealized) ==
  LET inLevel1 == Kept(unrealized, ToSet(up.necessary) \ up.inHier)
  IN  FillLevel1(up, inLevel1, (up.g.goals \ up.inHier) \ ToSet(inLevel1))

Within(total, limit) == total <= limit

(* The stage, and what is still to do, or refused when a resource runs out.*)
CloseStage(st, rest, more, unrealized, written, limit) ==
  LET last == st.untouched = {} /\ Within(written + Len(st.pushed.outs) + Len(more), limit)
      scattered == Kept(unrealized, st.inHier \ ToSet(st.pushed.done))
  IN  [refused |-> ~Within(written + Len(st.pushed.outs), limit) \/ ~rest.fits,
       stage |-> [hier |-> rest.hier, outs |-> st.pushed.outs \o IF last THEN more ELSE <<>>],
       unrealized |-> FoldLeft(SwapRemove, unrealized, st.pushed.done \o IF last THEN scattered ELSE <<>>),
       realized |-> st.g.realized \cup Visited(rest.hier)]

Scatter(st, rest, unrealized, written, limit) ==
  CloseStage(st, rest, ScatteredWords(rest.hier, st.inHier \ ToSet(st.pushed.done)), unrealized, written, limit)
LowerPart(st, unrealized, written, limit) ==
  Scatter(st, PlaceRest(st.g, st.pushed, st.necessary), unrealized, written, limit)

BuildStage(aig, unrealized, realized, written, limit) ==
  LowerPart(LevelUp(StartStage(Subgraph(aig, unrealized, realized)), unrealized), unrealized, written, limit)
============================================================================
