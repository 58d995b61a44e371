------------------------------ MODULE Flatten ------------------------------
(***************************************************************************)
(* The assembler of the kernel's script: flatten.rs takes the partitions   *)
(* of each major stage, lays them out on the GPU's blocks, gives each a    *)
(* range of state words and SRAM storage, decides at which bit every       *)
(* output, register and staged value is stored, and resolves what each     *)
(* partition reads.                                                        *)
(*                                                                         *)
(* A literal <<pin, inv>> is a pin of the and-inverter graph, inverted if  *)
(* inv = 1.  One data pin may serve several destinations: with both        *)
(* polarities, or under several clock enables.  Each pair <<enable, inv>>  *)
(* is an activation of the pin; the first is stored where the boomerang    *)
(* left the pin, every other one gets a duplicate bit.                     *)
(***************************************************************************)
EXTENDS Integers, Sequences, FiniteSets

CONSTANTS
  Pin,        \* pins of the graph
  Zero,       \* the constant pin
  NoPin,      \* usize::MAX: no pin here
  W,          \* bits in a word
  NumBlocks,
  SramSize,   \* words of one SRAM
  RamPort,    \* the bits of its four permutation words that feed its ports
  Layout,     \* input_layout: the pins of the input words
  Circuits    \* the sequences of stages, each a sequence of partitions

True == <<Zero, 1>>
Lit == (Pin \cup {Zero}) \X {0, 1}

Elements(seq) == {seq[i] : i \in DOMAIN seq}
With(old, new) ==
  [x \in DOMAIN old \cup DOMAIN new |-> IF x \in DOMAIN new THEN new[x] ELSE old[x]]
Insert(map, x, v) == With(map, [y \in {x} |-> v])

(***************************************************************************)
(* A partition is [depth, outs, ends, ins]: its number of boomerang        *)
(* stages, the pins in the words it writes out, its endpoints in order,    *)
(* and the pins it reads.  An endpoint has a kind, the literal d it        *)
(* stores, and for "DFF" the enable en and the pin q; a "RAM" has the read *)
(* enable en, the read data pins rd and the port literals.                 *)
(***************************************************************************)
Output == [kind : {"PO"}, d : Lit]
StagedPin == [kind : {"Staged"}, d : Pin \X {0}]
Register == [kind : {"DFF"}, d : Lit, en : Lit, q : Pin]
Memory == [kind : {"RAM"}, en : Lit, rd : [0 .. W - 1 -> Pin \cup {NoPin}],
           ports : [RamPort -> Lit]]
Partition == [depth : Nat, outs : Seq(Pin \cup {Zero, NoPin}),
              ends : Seq(Output \cup StagedPin \cup Register \cup Memory), ins : SUBSET Pin]

Enable(e) == IF e.kind = "DFF" THEN e.en ELSE True
IgnoresInversion(e) == <<Enable(e), 0>>
Activation(e) == <<Enable(e), e.d[2]>>
Key(e) == <<e.d[1], Activation(e)>>

StoredEnds(p) == {n \in DOMAIN p.ends : p.ends[n].kind # "RAM"}
RamEnds(p) == {n \in DOMAIN p.ends : p.ends[n].kind = "RAM"}

(* comb_outputs_activations: the activations of the pins, and of each pin  *)
(* the one that comes first.                                               *)
Keys(p) == {Key(p.ends[n]) : n \in StoredEnds(p)}
Leads(p, n) == \A i \in StoredEnds(p) : i < n => p.ends[i].d[1] # p.ends[n].d[1]
FirstKeys(p) == {Key(p.ends[n]) : n \in {n \in StoredEnds(p) : Leads(p, n)}}

Words(bits) == (bits + W - 1) \div W
Normal(p) == Len(p.outs) \div W
ExtraPerEndpoint(p) == Cardinality(StoredEnds(p)) - 1
Extra(p) == Cardinality(Keys(p) \ FirstKeys(p))
Dups(p) == Words(Extra(p))
Srams(p) == Cardinality(RamEnds(p))
Writeouts(p) == Normal(p) + Srams(p) + Dups(p)

(* Where the boomerang stages leave a pin; the last place counts.          *)
LastPlace(seq, x) ==
  CHOOSE i \in DOMAIN seq : seq[i] = x /\ \A j \in DOMAIN seq : seq[j] = x => j <= i
OrigPos(p, pin) == LastPlace(p.outs, pin) - 1

----------------------------------------------------------------------------
(***************************************************************************)
(* What is assumed of the circuits: whole words are written out; a pin has *)
(* one driver, an input port, a register or a bit of a memory, as in any   *)
(* and-inverter graph; the partitions divide the endpoints up, so that a   *)
(* pin is staged once, and in an earlier stage than it is read in (see     *)
(* Mapping).                                                               *)
(***************************************************************************)
PartsOf(c) == UNION {{s} \X (DOMAIN c[s]) : s \in DOMAIN c}
PlacesOf(c) == UNION {{k} \X (DOMAIN c[k[1]][k[2]].ends) : k \in PartsOf(c)}
EndAt(c, x) == c[x[1][1]][x[1][2]].ends[x[2]]

ReadBits(e) == {k \in 0 .. W - 1 : e.rd[k] # NoPin}
Driven(e) == IF e.kind = "DFF" THEN {e.q}
             ELSE IF e.kind = "RAM" THEN {e.rd[k] : k \in ReadBits(e)} ELSE {}

OneDriver(c) ==
  /\ \A x \in PlacesOf(c) :
       EndAt(c, x).kind = "RAM" =>
         \A j, k \in ReadBits(EndAt(c, x)) : EndAt(c, x).rd[j] = EndAt(c, x).rd[k] => j = k
  /\ \A x, y \in PlacesOf(c) : x # y => Driven(EndAt(c, x)) \cap Driven(EndAt(c, y)) = {}

StagedOnce(c) ==
  \A x, y \in PlacesOf(c) :
    EndAt(c, x).kind = "Staged" /\ EndAt(c, y).kind = "Staged"
      /\ EndAt(c, x).d = EndAt(c, y).d => x = y

StagedBeforeRead(c) ==
  \A k \in PartsOf(c) : \A x \in PlacesOf(c) :
    EndAt(c, x).kind = "Staged" /\ EndAt(c, x).d[1] \in c[k[1]][k[2]].ins =>
      \/ x[1][1] < k[1]
      \/ EndAt(c, x).d[1] \in Elements(Layout) \cup UNION {Driven(EndAt(c, y)) : y \in PlacesOf(c)}

ASSUME SizeAssumption ==
  /\ W \in Nat \ {0} /\ NumBlocks \in Nat \ {0} /\ SramSize \in Nat /\ RamPort \subseteq 0 .. 4 * W - 1
  /\ Zero \notin Pin /\ NoPin \notin Pin \cup {Zero}
  /\ Layout \in Seq(Pin \cup {NoPin})

ASSUME CircuitAssumption ==
  \A c \in Circuits :
    /\ c \in Seq(Seq(Partition)) /\ c # <<>>
    /\ \A k \in PartsOf(c) : Len(c[k[1]][k[2]].outs) = Normal(c[k[1]][k[2]]) * W
    /\ OneDriver(c) /\ StagedOnce(c) /\ StagedBeforeRead(c)

----------------------------------------------------------------------------
VARIABLES
  stages,     \* the circuit being flattened
  phase,
  stage, part, endpt,  \* loop positions, from 1
  block, slot,         \* positions of the allocation loop
  load,       \* tot_nstages_blocks
  blocks,     \* stages_blocks_parts: <<stage, block>> to a sequence of parts
  flat,       \* <<stage, part>> to its FlatteningPart
  stateSum, sramSum,
  inputMap, stagedMap, outputMap,
  reads,      \* <<stage, part>> to what the script says of each pin read
  script      \* <<stage, block>> to its sequence of parts and last marks

maps == <<inputMap, stagedMap, outputMap>>
layout == <<block, slot, load, blocks>>
built == <<reads, script>>
vars == <<stages, phase, stage, part, endpt, layout, flat, stateSum, sramSum, maps, built>>

Empty == [x \in {} |-> x]
Block == 1 .. NumBlocks

Init ==
  /\ stages \in Circuits
  /\ phase = "masonry" /\ stage = 1 /\ part = 1 /\ endpt = 1 /\ block = 1 /\ slot = 1
  /\ load = [b \in Block |-> 0]
  /\ blocks = [k \in (DOMAIN stages) \X Block |-> <<>>]
  /\ flat = Empty /\ reads = Empty /\ script = Empty
  /\ stateSum = Words(Len(Layout)) /\ sramSum = 0
  /\ inputMap = [x \in Elements(Layout) \ {NoPin} |-> LastPlace(Layout, x) - 1]
  /\ stagedMap = Empty /\ outputMap = Empty

Parts(s) == stages[s]
Here == <<stage, part>>
Cur == Parts(stage)[part]

(***************************************************************************)
(* Masonry: the first NumBlocks partitions take a block each, every other  *)
(* one goes to the first block with the least load.                        *)
(***************************************************************************)
Cost(p) == p.depth + 3

LeastLoaded(b, i) ==
  IF i <= NumBlocks THEN b = i
  ELSE \A c \in Block : load[b] < load[c] \/ (load[b] = load[c] /\ b <= c)

LayPart ==
  /\ phase = "masonry" /\ part <= Len(Parts(stage))
  /\ \E b \in Block :
       /\ LeastLoaded(b, part)
       /\ blocks' = [blocks EXCEPT ![<<stage, b>>] = Append(@, part)]
       /\ load' = [load EXCEPT ![b] = @ + Cost(Cur)]
  /\ part' = part + 1
  /\ UNCHANGED <<stages, phase, stage, endpt, block, slot, flat, stateSum, sramSum, maps, built>>

FinishMasonry ==
  /\ phase = "masonry" /\ part > Len(Parts(stage))
  /\ phase' = "allocate" /\ block' = 1 /\ slot' = 1
  /\ UNCHANGED <<stages, stage, part, endpt, load, blocks, flat, stateSum, sramSum, maps, built>>

OccupiedNoDups(p) == Normal(p) + Srams(p)
Occupied(p) == Writeouts(p)

(* Parts get their state words and SRAMs in the order of their blocks.     *)
Slots == blocks[<<stage, block>>]

NewPart ==
  [stateStart |-> stateSum, sramStart |-> sramSum,
   pos  |-> Empty, \* <<pin, activation>> to local bit
   clk  |-> Empty, \* local bit to its enable and data inversion
   copy |-> Empty, \* permutation bit to the local bit it copies
   port |-> Empty, \* permutation bit to the SRAM literal there
   cnt  |-> 0]

Allocate ==
  /\ phase = "allocate" /\ block <= NumBlocks /\ slot <= Len(Slots)
  /\ LET p == Parts(stage)[Slots[slot]]
     IN  /\ flat' = Insert(flat, <<stage, Slots[slot]>>, NewPart)
         /\ stateSum' = stateSum + Occupied(p)
         /\ sramSum' = sramSum + SramSize * Srams(p)
  /\ slot' = slot + 1
  /\ UNCHANGED <<stages, phase, stage, part, endpt, block, load, blocks, maps, built>>

NextBlock ==
  /\ phase = "allocate" /\ block <= NumBlocks /\ slot > Len(Slots)
  /\ block' = block + 1 /\ slot' = 1
  /\ UNCHANGED <<stages, phase, stage, part, endpt, load, blocks, flat, stateSum, sramSum, maps, built>>

FinishAllocation ==
  /\ phase = "allocate" /\ block > NumBlocks
  /\ phase' = "place" /\ part' = 1 /\ endpt' = 1
  /\ UNCHANGED <<stages, stage, layout, flat, stateSum, sramSum, maps, built>>

----------------------------------------------------------------------------
Flat == flat[Here]
Endpoint == Cur.ends[endpt]
ZeroRegister(e) == e.kind = "DFF" /\ e.d = <<Zero, 0>>

(* What is looked up must have been written out by the boomerang stages.   *)
Available(p, lit) == lit[1] = Zero \/ lit[1] \in Elements(p.outs)
CanPlace(p, e) ==
  IF e.kind = "RAM" THEN \A lit \in {e.en} \cup Elements(e.ports) : Available(p, lit)
  ELSE ZeroRegister(e) \/ (e.d # <<Zero, 0>> /\ e.d[1] \in Elements(p.outs) /\ Available(p, Enable(e)))

Placing(kind) ==
  /\ phase = "place" /\ part <= Len(Parts(stage)) /\ endpt <= Len(Cur.ends)
  /\ Endpoint.kind = kind /\ CanPlace(Cur, Endpoint)

Advance == endpt' = endpt + 1 /\ UNCHANGED <<stages, phase, stage, part, layout,
                                             stateSum, sramSum, built>>

LocalOnly(f, pos) == pos
Global(f, pos) == f.stateStart * W + pos

(* get_or_place_output_with_activation: the part's record after it, and    *)
(* the bit that stores the literal under its enable.                       *)
NewPos(p, f, e) ==
  IF Key(e) \in FirstKeys(p) THEN OrigPos(p, e.d[1]) ELSE (Normal(p) + Dups(p)) * W - (f.cnt + 1)
NewPerm(p, f) == (Srams(p) * 4 + Dups(p)) * W - (f.cnt + 1)

Placed(p, f, e) ==
  LET first == Key(e) \in FirstKeys(p)
  IN  IF Key(e) \in DOMAIN f.pos
      THEN f
      ELSE [f EXCEPT !.pos = Insert(@, Key(e), NewPos(p, f, e)),
                     !.clk = Insert(@, NewPos(p, f, e), [en |-> Enable(e), inv |-> e.d[2]]),
                     !.copy = IF first THEN @
                              ELSE Insert(@, NewPerm(p, f), OrigPos(p, e.d[1])),
                     !.cnt = IF first THEN @ ELSE @ + 1]

BitOf(f, e) == f.pos[Key(e)]

Store(e) == flat' = [flat EXCEPT ![Here] = Placed(Cur, @, e)]
Target(e) == Global(Flat, BitOf(Placed(Cur, Flat, e), e))

PlaceOutput ==
  /\ Placing("PO")
  /\ Store(Endpoint)
  /\ outputMap' = Insert(outputMap, Endpoint.d, Target(Endpoint))
  /\ Advance /\ UNCHANGED <<inputMap, stagedMap>>

PlaceStaged ==
  /\ Placing("Staged")
  /\ Store(Endpoint)
  /\ stagedMap' = Insert(stagedMap, Endpoint.d[1], Target(Endpoint))
  /\ Advance /\ UNCHANGED <<inputMap, outputMap>>

PlaceRegister ==
  /\ Placing("DFF") /\ ~ZeroRegister(Endpoint)
  /\ Store(Endpoint)
  /\ outputMap' = Insert(outputMap, Endpoint.d, Target(Endpoint))
  /\ inputMap' = Insert(inputMap, Endpoint.q, Target(Endpoint))
  /\ Advance /\ UNCHANGED stagedMap

(* "not fully optimized netlist. ignoring the error.."                     *)
IgnoreZeroRegister ==
  /\ Placing("DFF") /\ ZeroRegister(Endpoint)
  /\ inputMap' = Insert(inputMap, Endpoint.q, 0)
  /\ Advance /\ UNCHANGED <<flat, stagedMap, outputMap>>

(* An SRAM's number, its read data word and its permutation words.         *)
RamIndex(p, n) == Cardinality({i \in RamEnds(p) : i < n})
ReadWord(p, n) == Writeouts(p) - Srams(p) + RamIndex(p, n)
BitFor(e, pin) == CHOOSE k \in ReadBits(e) : e.rd[k] = pin
PortBase(p, n) == RamIndex(p, n) * (4 * W)

ReadClk(p, n) == {ReadWord(p, n) * W + k : k \in ReadBits(p.ends[n])}
PortBits(p, n) == {PortBase(p, n) + k : k \in RamPort}
ReadAt(p, f, n, pin) == Global(f, ReadWord(p, n) * W + BitFor(p.ends[n], pin))

RamPlaced(p, f, n) ==
  [f EXCEPT !.clk = With(@, [b \in ReadClk(p, n) |-> [en |-> p.ends[n].en, inv |-> 0]]),
            !.port = With(@, [b \in PortBits(p, n) |-> p.ends[n].ports[b - PortBase(p, n)]])]

PlaceRam ==
  /\ Placing("RAM")
  /\ flat' = [flat EXCEPT ![Here] = RamPlaced(Cur, @, endpt)]
  /\ inputMap' = With(inputMap, [x \in Driven(Endpoint) |-> ReadAt(Cur, Flat, endpt, x)])
  /\ outputMap' = With(outputMap, [x \in Driven(Endpoint) \X {0} |-> ReadAt(Cur, Flat, endpt, x[1])])
  /\ Advance /\ UNCHANGED stagedMap

(* The assertion at the end of make_inputs_outputs holds: next part.       *)
DuplicatesMatch == Words(Flat.cnt) = Dups(Cur)

FinishPart ==
  /\ phase = "place" /\ part <= Len(Parts(stage)) /\ endpt > Len(Cur.ends)
  /\ DuplicatesMatch
  /\ part' = part + 1 /\ endpt' = 1
  /\ UNCHANGED <<stages, phase, stage, layout, flat, stateSum, sramSum, maps, built>>

FinishStage ==
  /\ phase = "place" /\ part > Len(Parts(stage))
  /\ IF stage < Len(stages)
     THEN phase' = "masonry" /\ stage' = stage + 1 /\ load' = [b \in Block |-> 0]
     ELSE phase' = "build" /\ stage' = 1 /\ UNCHANGED load
  /\ part' = 1
  /\ UNCHANGED <<stages, endpt, block, slot, blocks, flat, stateSum, sramSum, maps, built>>

----------------------------------------------------------------------------
(* build_script: a pin is looked up among inputs and registers first, then *)
(* among the staged values, whose word index gets the type bit.            *)
Resolved(x) ==
  IF x \in DOMAIN inputMap
  THEN [staged |-> FALSE, at |-> inputMap[x]]
  ELSE [staged |-> TRUE, at |-> stagedMap[x]]

Known == DOMAIN inputMap \cup DOMAIN stagedMap

BuildPart ==
  /\ phase = "build" /\ part <= Len(Parts(stage)) /\ Cur.ins \subseteq Known
  /\ reads' = Insert(reads, Here, [x \in Cur.ins |-> Resolved(x)])
  /\ part' = part + 1
  /\ UNCHANGED <<stages, phase, stage, endpt, layout, flat, stateSum, sramSum, maps, script>>

(* The scripts of a block's parts are strung together, the last one marked;*)
(* a block without parts gets a dummy that ends at once.                   *)
Assemble ==
  /\ phase = "build" /\ part > Len(Parts(stage))
  /\ script' = With(script,
       [k \in {stage} \X Block |->
          [n \in 1 .. Len(blocks[k]) |-> [part |-> blocks[k][n], last |-> n = Len(blocks[k])]]])
  /\ IF stage < Len(stages)
     THEN stage' = stage + 1 /\ UNCHANGED phase
     ELSE phase' = "done" /\ UNCHANGED stage
  /\ part' = 1
  /\ UNCHANGED <<stages, endpt, layout, flat, stateSum, sramSum, maps, reads>>

(* The unwraps, panics and assertions of the placement and of the reads.   *)
Panic ==
  /\ part <= Len(Parts(stage))
  /\ \/ phase = "place" /\ endpt <= Len(Cur.ends) /\ ~CanPlace(Cur, Endpoint)
     \/ phase = "place" /\ endpt > Len(Cur.ends) /\ ~DuplicatesMatch
     \/ phase = "build" /\ ~(Cur.ins \subseteq Known)
  /\ phase' = "panic"
  /\ UNCHANGED <<stages, stage, part, endpt, layout, flat, stateSum, sramSum, maps, built>>

Done == phase \in {"done", "panic"} /\ UNCHANGED vars

Next ==
  \/ LayPart \/ FinishMasonry \/ Allocate \/ NextBlock \/ FinishAllocation
  \/ PlaceOutput \/ PlaceStaged \/ PlaceRegister \/ IgnoreZeroRegister \/ PlaceRam
  \/ FinishPart \/ FinishStage
  \/ BuildPart \/ Assemble
  \/ Panic \/ Done

Spec == Init /\ [][Next]_vars

----------------------------------------------------------------------------
AllParts == PartsOf(stages)
PartOf(k) == Parts(k[1])[k[2]]
Ends(k) == DOMAIN PartOf(k).ends
Sources == Elements(Layout) \cup UNION {Driven(EndAt(stages, x)) : x \in PlacesOf(stages)}
StagedPins == {EndAt(stages, x).d[1] : x \in {x \in PlacesOf(stages) : EndAt(stages, x).kind = "Staged"}}

ConstantsAgree(p) ==
  \A n \in DOMAIN p.ends : ZeroRegister(p.ends[n]) => Key(p.ends[n]) \in FirstKeys(p)

(* The assembler only panics for an endpoint whose pins the stages do not  *)
(* write out, for a pin read that nothing provides, or for registers of    *)
(* the constant 0 that have different enables: otherwise the duplicates    *)
(* placed are those counted in advance.                                    *)
NoPanic ==
  phase = "panic" =>
    \E k \in AllParts :
      \/ \E n \in Ends(k) : ~CanPlace(PartOf(k), PartOf(k).ends[n])
      \/ ~(PartOf(k).ins \subseteq Sources \cup StagedPins)
      \/ ~ConstantsAgree(PartOf(k))

(* What the kernel finds at a local bit before it applies the enable: the  *)
(* boomerang's bit, or the copy that thread 4 * srams + word makes.        *)
KernelData(k, b) ==
  LET p == PartOf(k)
      perm == Srams(p) * 4 * W + (b - Normal(p) * W)
  IN  IF b < Normal(p) * W THEN p.outs[b + 1] ELSE p.outs[flat[k].copy[perm] + 1]

Serves(k, b, e) ==
  /\ b \in DOMAIN flat[k].clk
  /\ flat[k].clk[b] = [en |-> Enable(e), inv |-> e.d[2]]
  /\ KernelData(k, b) = e.d[1]

ServesAt(k, at, e) == Serves(k, at - flat[k].stateStart * W, e)

RamServed(k, n) ==
  LET p == PartOf(k)
      e == p.ends[n]
  IN  /\ \A i \in ReadBits(e) :
           /\ inputMap[e.rd[i]] = (flat[k].stateStart + ReadWord(p, n)) * W + i
           /\ flat[k].clk[ReadWord(p, n) * W + i] = [en |-> e.en, inv |-> 0]
      /\ \A i \in RamPort : flat[k].port[PortBase(p, n) + i] = e.ports[i]

(* When the script is built, the kernel stores each register, staged value *)
(* and output with its own polarity under its own enable at the bit it was *)
(* given, however many destinations share the data pin, and each SRAM has  *)
(* its ports and read data.                                                *)
EndServed(k, n) ==
  LET e == PartOf(k).ends[n]
  IN  /\ e.kind = "PO" => Serves(k, BitOf(flat[k], e), e)
      /\ e.kind = "Staged" => ServesAt(k, stagedMap[e.d[1]], e)
      /\ e.kind = "DFF" /\ ~ZeroRegister(e) => ServesAt(k, inputMap[e.q], e)
      /\ e.kind = "RAM" => RamServed(k, n)

EndpointsServed ==
  phase \in {"build", "done"} => \A k \in AllParts : \A n \in Ends(k) : EndServed(k, n)

(* No two destinations share a bit and no two SRAMs a word: the parts'     *)
(* ranges are disjoint, also from the inputs', and within a part different *)
(* activations have different bits below the SRAMs' words, and copies and  *)
(* SRAM ports do not collide.                                              *)
OneWriterPerBit ==
  /\ \A k, l \in DOMAIN flat :
       /\ flat[k].stateStart >= Words(Len(Layout))
       /\ k # l =>
            \/ flat[k].stateStart + Writeouts(PartOf(k)) <= flat[l].stateStart
            \/ flat[l].stateStart + Writeouts(PartOf(l)) <= flat[k].stateStart
       /\ k # l =>
            \/ flat[k].sramStart + SramSize * Srams(PartOf(k)) <= flat[l].sramStart
            \/ flat[l].sramStart + SramSize * Srams(PartOf(l)) <= flat[k].sramStart
  /\ \A k \in DOMAIN flat :
       /\ \A x, y \in DOMAIN flat[k].pos : flat[k].pos[x] = flat[k].pos[y] => x = y
       /\ \A x \in DOMAIN flat[k].pos :
            flat[k].pos[x] \in 0 .. (Writeouts(PartOf(k)) - Srams(PartOf(k))) * W - 1
       /\ DOMAIN flat[k].copy \cap DOMAIN flat[k].port = {}

(* A part reads each pin where it is stored; a value passed on within the  *)
(* cycle comes from an earlier major stage.  Registers that latch the      *)
(* constant 0 have no bit of their own and read state bit 0.               *)
Provided(k, x, r) ==
  IF r.staged
  THEN \E l \in AllParts : \E n \in Ends(l) :
         /\ l[1] < k[1]
         /\ PartOf(l).ends[n].kind = "Staged" /\ PartOf(l).ends[n].d[1] = x
         /\ ServesAt(l, r.at, PartOf(l).ends[n])
  ELSE \/ r.at + 1 \in 1 .. Len(Layout) /\ Layout[r.at + 1] = x
       \/ \E l \in AllParts : \E n \in Ends(l) :
            LET e == PartOf(l).ends[n]
            IN  \/ e.kind = "DFF" /\ e.q = x /\ (ZeroRegister(e) \/ ServesAt(l, r.at, e))
                \/ e.kind = "RAM" /\ x \in Driven(e) /\ RamServed(l, n)

ReadsInTime == \A k \in DOMAIN reads : \A x \in DOMAIN reads[k] : Provided(k, x, reads[k][x])

(* An output port shows its own literal in every cycle, whatever registers *)
(* share the literal.                                                      *)
OutputsAlwaysEnabled ==
  phase \in {"build", "done"} =>
    \A k \in AllParts : \A n \in Ends(k) :
      LET e == PartOf(k).ends[n]
      IN  e.kind = "PO" => \E l \in AllParts : ServesAt(l, outputMap[e.d], e)
============================================================================
