------------------------------ MODULE Executor ------------------------------
(***************************************************************************)
(* A partition from its endpoints to its values: the mapper builds its     *)
(* boomerang stages one by one, the assembler turns each into a            *)
(* permutation and three flag words, and the executor runs them on the     *)
(* inputs of a cycle, writes out the words the stages name, copies bits    *)
(* stored more than once, and stores what is enabled.  How a stage is      *)
(* built is a parameter; Boomerang has the code's way.                     *)
(*                                                                         *)
(* A position is a bit of the executor's local state: slot j of level h is *)
(* at Width(h) + j, position 0 is unused.  What a stage shuffles in, level *)
(* 0, counts on from Width(0).                                             *)
(***************************************************************************)
EXTENDS Hierarchy

CONSTANTS
  Partitions,                \* [aig, inputs (staged, from earlier stages), endpoints]
  NextStage(_, _, _, _, _)   \* build_one_boomerang_stage: of the graph, what is
                             \* unrealized and realized, the words written out
                             \* so far and their limit

Driver == [kind : STRING, a : Nat, b : Nat]
Endpoint == [kind : {"port", "dff", "ram", "staged"}, lits : Seq(Nat)]

ASSUME PartitionAssumption ==
  \A p \in Partitions :
    /\ p.aig \in Seq(Driver) /\ Acyclic(p.aig) /\ Simplified(p.aig)
    /\ p.inputs \subseteq DOMAIN p.aig
    /\ p.endpoints \in Seq(Endpoint)
    /\ \A e \in ToSet(p.endpoints) :
         /\ Len(e.lits) >= IF e.kind = "dff" THEN 2 ELSE 1
         /\ \A i \in DOMAIN e.lits : Pin(e.lits[i]) <= Len(p.aig)
         /\ e.kind = "staged" => ~Inverted(e.lits[1])

VARIABLES
  part,
  unrealized, realized, written,  \* build_one's loop variables
  stages,     \* the stages built
  phase,      \* "map", then "refused", or "flatten", "run" and "done"
  ones,       \* the sources that are 1 in the cycle executed
  stale,      \* what a slot without pin reads before the first stage, and
              \* what the output bits were
  state,      \* position to bit
  at,         \* stages flattened, then stages executed
  wos,        \* parts_after_writeouts, by words: the pins written out
  writeouts,  \* words written so far, in order
  stored      \* output bits of the cycle: position to bit

mapping == <<part, unrealized, realized, written, stages>>
running == <<ones, stale, state, at, wos, writeouts, stored>>
vars == <<mapping, phase, running>>

Limit == MaxWriteouts - Reserved(part.endpoints).words
Sources == {p \in DOMAIN part.aig : ~IsAnd(part.aig, p)}

Init ==
  /\ part \in Partitions
  /\ unrealized = Goals(part.endpoints)
  /\ realized = part.inputs
  /\ written = 0 /\ stages = <<>>
  /\ phase = "map"
  /\ ones = {} /\ stale = FALSE /\ state = <<>> /\ at = 0 /\ wos = <<>>
  /\ writeouts = <<>> /\ stored = <<>>

Built == NextStage(part.aig, unrealized, realized, written, Limit)

Refuse ==
  /\ phase = "map"
  /\ TooManyReserved(part.endpoints) \/ (unrealized # <<>> /\ Built.refused)
  /\ phase' = "refused"
  /\ UNCHANGED <<mapping, running>>

MapStage ==
  /\ phase = "map" /\ ~TooManyReserved(part.endpoints) /\ unrealized # <<>>
  /\ \E s \in {Built} :
       /\ ~s.refused
       /\ stages' = Append(stages, s.stage)
       /\ unrealized' = s.unrealized
       /\ realized' = s.realized
       /\ written' = written + Len(s.stage.outs)
  /\ UNCHANGED <<part, phase, running>>

----------------------------------------------------------------------------
(* The pin at a position (afters). *)
Place == 1 .. 2 * Width(0) - 1
Position == 1 .. Width(0) - 1
LevelAt == [pos \in Place |-> CHOOSE h \in 0 .. Levels : pos \in Width(h) .. 2 * Width(h) - 1]
PinAt(hier, pos) == IF pos = 0 THEN Free ELSE hier[LevelAt[pos]][pos - Width(LevelAt[pos])]
Beside(pos) == pos + Width(LevelAt[pos])
Across(pos) == pos + 2 * Width(LevelAt[pos])

(* Where the state after a stage has a pin; the last place counts. *)
PlacesOf(hier, p) == {pos \in Position : PinAt(hier, pos) = p}
LocalPos(hier, p) == Max(PlacesOf(hier, p))

(* bs_orb, bs_xora, bs_xorb.  Mutant: what is handed up is inverted too.   *)
PassThrough(hier, pos) == PinAt(hier, pos) # Free /\ PinAt(hier, pos) = PinAt(hier, Beside(pos))
AnyPin(hier, pos) == PinAt(hier, pos) # Free
Gate(hier, pos) == PinAt(hier, pos) # Free /\ ~PassThrough(hier, pos)
XorA(hier, pos) == Gate(hier, pos) /\ Inverted(part.aig[PinAt(hier, pos)].a)
XorB(hier, pos) == Gate(hier, pos) /\ Inverted(part.aig[PinAt(hier, pos)].b)

(* The words a stage writes out: the pins of their positions, or the bits. *)
WordFrom(bits, w) == [i \in 1 .. Word |-> bits[w * Word + i - 1]]
After(hier) == [pos \in 0 .. Width(0) - 1 |-> PinAt(hier, pos)]
WordsOf(bits, outs) == [i \in DOMAIN outs |-> WordFrom(bits, outs[i])]

Flatten ==
  /\ phase = "map" /\ ~TooManyReserved(part.endpoints) /\ unrealized = <<>>
  /\ phase' = "flatten"
  /\ UNCHANGED <<mapping, running>>

FlattenStage ==
  /\ phase = "flatten" /\ at < Len(stages)
  /\ at' = at + 1
  /\ wos' = wos \o WordsOf(After(stages[at'].hier), stages[at'].outs)
  /\ UNCHANGED <<mapping, phase, ones, stale, state, writeouts, stored>>

----------------------------------------------------------------------------
(* The inputs of a cycle arrive. *)
Load ==
  /\ phase = "flatten" /\ at = Len(stages)
  /\ ones' \in SUBSET Sources
  /\ stale' \in BOOLEAN
  /\ at' = 0
  /\ phase' = "run"
  /\ UNCHANGED <<mapping, state, wos, writeouts, stored>>

(* The local permutation in front of a stage; the first stage reads what   *)
(* was gathered from global memory.                                        *)
Shuffled(k, p) ==
  CASE k = 1 -> IF p = Free THEN stale ELSE PinValue(part.aig, ones, p)
    [] k > 1 /\ p = Free -> state[0]
    [] OTHER -> state[LocalPos(stages[k - 1].hier, p)]

(* The bits of a stage, each level from the one below. *)
Bits(k) ==
  LET hier == stages[k].hier
      bit[pos \in Place] ==
        IF pos >= Width(0) THEN Shuffled(k, PinAt(hier, pos))
        ELSE /\ bit[Beside(pos)] # XorA(hier, pos)
             /\ (bit[Across(pos)] # XorB(hier, pos)) \/ PassThrough(hier, pos)
  IN  bit

RunStage ==
  /\ phase = "run" /\ at < Len(stages)
  /\ at' = at + 1
  /\ state' = [pos \in Position \cup {0} |-> IF pos = 0 THEN FALSE ELSE Bits(at')[pos]]
  /\ writeouts' = writeouts \o WordsOf(state', stages[at'].outs)
  /\ UNCHANGED <<mapping, phase, ones, stale, wos, stored>>

----------------------------------------------------------------------------
(* after_writeout_pin2pos: a later word hides an earlier one. *)
WrittenAt == 0 .. Len(wos) * Word - 1
WrittenPin(i) == wos[i \div Word + 1][(i % Word) + 1]
WrittenBit(i) == writeouts[i \div Word + 1][(i % Word) + 1]
WrittenPos(p) == Max({i \in WrittenAt : WrittenPin(i) = p})

(* An endpoint's literal and enable.  A pin with several activations is    *)
(* stored once where the stages left it and, for the later ones, in copies *)
(* numbered downwards from the end.                                        *)
Data(e) == IF e.kind = "dff" THEN e.lits[2] ELSE e.lits[1]
Enable(e) == IF e.kind = "dff" THEN e.lits[1] ELSE 1

StoredAt == {i \in DOMAIN part.endpoints : part.endpoints[i].kind # "ram" /\ Data(part.endpoints[i]) # 0}
Activations == {Activation(part.endpoints[i]) : i \in StoredAt}
FirstAt(a) == Min({i \in StoredAt : Activation(part.endpoints[i]) = a})
Copies == {a \in Activations : \E b \in Activations : b[1] = a[1] /\ FirstAt(b) < FirstAt(a)}
CopyNumber(a) == Cardinality({b \in Copies : FirstAt(b) <= FirstAt(a)})

NumDuplicates == DuplicateWords(part.endpoints)
CopyInside(n) == written * Word - n
CopyPos(n) == (written + NumDuplicates) * Word - n
OutputPos(a) == IF a \in Copies THEN CopyPos(CopyNumber(a)) ELSE WrittenPos(a[1])

(* A permuted bit, inverted, and set to 0 before for a constant. *)
QueryPermute(l) ==
  IF l <= 1 THEN [perm |-> 0, inv |-> Inverted(l), set0 |-> TRUE]
  ELSE [perm |-> WrittenPos(Pin(l)), inv |-> Inverted(l), set0 |-> FALSE]
Permuted(q) == (WrittenBit(q.perm) /\ ~q.set0) # q.inv

Placed == {e \in ToSet(part.endpoints) : e.kind # "ram" => Data(e) # 0}

(* The endpoint that has the last word on an output bit. *)
Writer(pos) ==
  part.endpoints[Max({i \in StoredAt : OutputPos(Activation(part.endpoints[i])) = pos})]

StoreOutputs ==
  /\ phase = "run" /\ at = Len(stages)
  /\ \A e \in Placed : \A p \in InputSet(e) : \E i \in WrittenAt : WrittenPin(i) = p
  /\ \A e \in Placed : e.kind # "ram" => Data(e) > 1
  /\ (Cardinality(Copies) + Word - 1) \div Word = NumDuplicates
  /\ stored' =
       [pos \in {OutputPos(a) : a \in Activations} |->
          LET e == Writer(pos)
              bit == IF pos >= written * Word THEN WrittenBit(WrittenPos(Pin(Data(e))))
                     ELSE WrittenBit(pos)
          IN  IF Permuted(QueryPermute(Enable(e))) THEN bit # Inverted(Data(e)) ELSE stale]
  /\ phase' = "done"
  /\ UNCHANGED <<mapping, ones, stale, state, at, wos, writeouts>>

Next == Refuse \/ MapStage \/ Flatten \/ FlattenStage \/ Load \/ RunStage \/ StoreOutputs

Spec == Init /\ [][Next]_vars

----------------------------------------------------------------------------
(* Every slot of every level is empty, hands up the slot below it, or is   *)
(* the and gate of the two slots below it (the assertions of build_script, *)
(* flatten.rs:607), however often the placement was reversed.  The words   *)
(* written out are words of the state and stay within what is left beside  *)
(* the memories and the duplicates, so that the script's hooks and the     *)
(* block's output words suffice (pe.rs:430, 479).                          *)
HierarchySound ==
  /\ TooManyReserved(part.endpoints) \/ written + Reserved(part.endpoints).words <= MaxWriteouts
  /\ \A k \in DOMAIN stages :
       LET hier == stages[k].hier
       IN  /\ stages[k].outs \in Seq(0 .. Width(0) \div Word - 1)
           /\ \A pos \in Position :
                \/ PinAt(hier, pos) = Free
                \/ PassThrough(hier, pos)
                \/ /\ IsAnd(part.aig, PinAt(hier, pos))
                   /\ Pin(part.aig[PinAt(hier, pos)].a) = PinAt(hier, Beside(pos))
                   /\ Pin(part.aig[PinAt(hier, pos)].b) = PinAt(hier, Across(pos))

(* Whatever a stage shuffles in is still in the state the stage before it  *)
(* left, or, for the first one, is an input of the partition: a pin that   *)
(* is needed later is carried along (pe.rs:217, flatten.rs:524 and 584).   *)
(* And a pin an endpoint needs is dropped from the unrealized ones only    *)
(* when a word that holds it is written out (flatten.rs:341).              *)
NothingLost ==
  /\ \A k \in DOMAIN stages : \A j \in Slot(0) :
       LET p == stages[k].hier[0][j]
       IN  p # Free => IF k = 1 THEN p \in Sources \cup part.inputs
                       ELSE PlacesOf(stages[k - 1].hier, p) # {}
  /\ \A e \in ToSet(part.endpoints) : \A p \in InputSet(e) :
       \/ Contains(unrealized, p)
       \/ \E k \in DOMAIN stages : \E w \in ToSet(stages[k].outs) : \E i \in 0 .. Word - 1 :
            PinAt(stages[k].hier, w * Word + i) = p

(* When the stages have been executed, each pin an endpoint needs is among *)
(* the words written out, with the value the graph gives it                *)
(* (flatten.rs:341 panics otherwise).                                      *)
EndpointsComputed ==
  phase = "run" /\ at = Len(stages) =>
    \A e \in ToSet(part.endpoints) : \A p \in InputSet(e) :
      /\ \E i \in WrittenAt : WrittenPin(i) = p
      /\ WrittenBit(WrittenPos(p)) = PinValue(part.aig, ones, p)

(* A cycle leaves each port, staged value and register the value of its    *)
(* own literal, or its old one while its enable is off, and hands each     *)
(* memory port its literal, however many of them share a pin.              *)
EndpointsStored ==
  phase = "done" =>
    \A e \in Placed :
      IF e.kind = "ram"
      THEN \A i \in DOMAIN e.lits : Permuted(QueryPermute(e.lits[i])) = LitValue(part.aig, ones, e.lits[i])
      ELSE stored[OutputPos(Activation(e))] = IF LitValue(part.aig, ones, Enable(e))
                                              THEN LitValue(part.aig, ones, Data(e)) ELSE stale

(* Every stage either realizes an endpoint or adds a pin to the realized   *)
(* ones, and forgets neither: the loop of build_one cannot go on for ever. *)
StagesAdvance ==
  [][Len(stages') > Len(stages) =>
       /\ ToSet(unrealized') \subseteq ToSet(unrealized) /\ realized \subseteq realized'
       /\ Len(unrealized') < Len(unrealized) \/ realized' # realized]_vars
=============================================================================
