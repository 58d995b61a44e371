--------------------------- MODULE FlattenProofs ---------------------------
(***************************************************************************)
(* For circuits of every size: the assembler gives every destination a     *)
(* place of its own, serves every endpoint, resolves every read in time,   *)
(* and panics only for the reasons NoPanic names.                          *)
(*                                                                         *)
(* Sound says of one part's record how its bits are handed out, in every   *)
(* state; DoneInv and MapInv say what holds for the endpoints that the     *)
(* placement has gone Past, and of the maps it fills.                      *)
(***************************************************************************)
EXTENDS Flatten, TLAPS, FiniteSetTheorems, SequenceTheorems, WellFoundedInduction

Partial(S, T) == UNION {[D -> T] : D \in SUBSET S}

AnyKey == (Pin \cup {Zero}) \X (Lit \X {0, 1})
Bit == Int
Switch == [en : Lit, inv : {0, 1}]
Part == [stateStart : Nat, sramStart : Nat, pos : Partial(AnyKey, Bit),
         clk : Partial(Bit, Switch), copy : Partial(Bit, Bit),
         port : Partial(Bit, Lit), cnt : Nat]
Read == [staged : BOOLEAN, at : Bit]

LoopOK ==
  /\ stages \in Circuits
  /\ phase \in {"masonry", "allocate", "place", "build", "done", "panic"}
  /\ stage \in DOMAIN stages
  /\ part \in 1 .. Len(stages[stage]) + 1
  /\ endpt \in Nat \ {0} /\ block \in 1 .. NumBlocks + 1 /\ slot \in Nat \ {0}

BlocksOK ==
  /\ load \in [Block -> Nat]
  /\ blocks \in [(DOMAIN stages) \X Block -> Seq(Nat)]
  /\ \A k \in DOMAIN blocks : \A i \in DOMAIN blocks[k] : <<k[1], blocks[k][i]>> \in AllParts

DataOK ==
  /\ flat \in Partial(AllParts, Part)
  /\ stateSum \in Nat /\ sramSum \in Nat
  /\ inputMap \in Partial(Pin, Bit) /\ stagedMap \in Partial(Pin, Bit)
  /\ outputMap \in Partial(Lit, Bit)
  /\ reads \in Partial(AllParts, Partial(Pin, Read))

TypeOK == LoopOK /\ BlocksOK /\ DataOK

(* Every part is laid on a block, and every slot passed has its ranges.    *)
OnBlock(q) ==
  \E b \in Block : \E i \in DOMAIN blocks[<<stage, b>>] : blocks[<<stage, b>>][i] = q
HasRanges(k) ==
  k[1] < stage \/ (phase = "place" /\ k[1] = stage) \/ phase \in {"build", "done"}

LaidInv ==
  /\ phase = "masonry" => \A q \in 1 .. part - 1 : OnBlock(q)
  /\ phase = "allocate" =>
       /\ \A q \in DOMAIN stages[stage] : OnBlock(q)
       /\ \A b \in Block : \A i \in DOMAIN blocks[<<stage, b>>] :
            b < block \/ (b = block /\ i < slot) => <<stage, blocks[<<stage, b>>][i]>> \in DOMAIN flat
  /\ \A k \in AllParts : HasRanges(k) => k \in DOMAIN flat

StateEnd(k) == flat[k].stateStart + Writeouts(PartOf(k))
SramEnd(k) == flat[k].sramStart + SramSize * Srams(PartOf(k))

AllocInv ==
  /\ stateSum >= Words(Len(Layout))
  /\ \A k \in DOMAIN flat :
       /\ flat[k].stateStart >= Words(Len(Layout))
       /\ StateEnd(k) <= stateSum /\ SramEnd(k) <= sramSum
  /\ \A k, l \in DOMAIN flat : k # l =>
       /\ StateEnd(k) <= flat[l].stateStart \/ StateEnd(l) <= flat[k].stateStart
       /\ SramEnd(k) <= flat[l].sramStart \/ SramEnd(l) <= flat[k].sramStart

(* One part's record: the first activation of a pin is where the stages    *)
(* leave the pin, the i-th other one has the i-th bit from the end.        *)
Later(p, f) == DOMAIN f.pos \ FirstKeys(p)
DupBit(p, i) == (Normal(p) + Dups(p)) * W - i
DupPerm(p, i) == (Srams(p) * 4 + Dups(p)) * W - i

Sound(p, f) ==
  /\ DOMAIN f.pos \subseteq Keys(p)
  /\ f.cnt = Cardinality(Later(p, f))
  /\ \A x \in DOMAIN f.pos :
       /\ x[1] \in Elements(p.outs)
       /\ f.pos[x] \in DOMAIN f.clk /\ f.clk[f.pos[x]] = [en |-> x[2][1], inv |-> x[2][2]]
       /\ x \in FirstKeys(p) => f.pos[x] = OrigPos(p, x[1])
       /\ x \notin FirstKeys(p) => \E i \in 1 .. f.cnt :
            /\ f.pos[x] = DupBit(p, i)
            /\ DupPerm(p, i) \in DOMAIN f.copy /\ f.copy[DupPerm(p, i)] = OrigPos(p, x[1])
  /\ \A x, y \in DOMAIN f.pos : f.pos[x] = f.pos[y] => x = y
  /\ \A b \in DOMAIN f.copy : b >= Srams(p) * (4 * W)
  /\ \A b \in DOMAIN f.port : b < Srams(p) * (4 * W)

PosInv == \A k \in DOMAIN flat : Sound(PartOf(k), flat[k])

(* The memory's read data and ports in its part's record.                  *)
RamSound(p, f, n) ==
  /\ \A b \in ReadClk(p, n) : b \in DOMAIN f.clk /\ f.clk[b] = [en |-> p.ends[n].en, inv |-> 0]
  /\ \A i \in RamPort : PortBase(p, n) + i \in DOMAIN f.port /\ f.port[PortBase(p, n) + i] = p.ends[n].ports[i]

Past(k, n) ==
  \/ phase \in {"build", "done"} \/ k[1] < stage
  \/ phase = "place" /\ k[1] = stage /\ (k[2] < part \/ (k[2] = part /\ n < endpt))

DoneEnd(p, f, im, sm, n) ==
  LET e == p.ends[n]
  IN  /\ e.kind # "RAM" /\ ~ZeroRegister(e) => Key(e) \in DOMAIN f.pos
      /\ e.kind = "Staged" => e.d[1] \in DOMAIN sm /\ sm[e.d[1]] = Global(f, BitOf(f, e))
      /\ \A x \in Driven(e) : x \in DOMAIN im
      /\ e.kind = "DFF" /\ ~ZeroRegister(e) => im[e.q] = Global(f, BitOf(f, e))
      /\ e.kind = "RAM" => RamSound(p, f, n) /\ \A x \in Driven(e) : im[x] = ReadAt(p, f, n, x)

DoneInv ==
  phase # "panic" =>
    \A k \in AllParts : \A n \in Ends(k) :
      Past(k, n) => DoneEnd(PartOf(k), flat[k], inputMap, stagedMap, n)

MapInv ==
  phase # "panic" =>
    /\ Elements(Layout) \ {NoPin} \subseteq DOMAIN inputMap
    /\ \A x \in DOMAIN inputMap :
         \/ x \in Elements(Layout) /\ inputMap[x] = LastPlace(Layout, x) - 1
         \/ \E k \in AllParts : \E n \in Ends(k) : Past(k, n) /\ x \in Driven(PartOf(k).ends[n])
    /\ \A x \in DOMAIN stagedMap :
         \E k \in AllParts : \E n \in Ends(k) :
           Past(k, n) /\ PartOf(k).ends[n].kind = "Staged" /\ PartOf(k).ends[n].d[1] = x

ReadsInv == ReadsInTime /\ (phase \in {"masonry", "allocate", "place"} => DOMAIN reads = {})

----------------------------------------------------------------------------
(* Arithmetic and finite sets.                                             *)
LEMMA Distributes ==
  ASSUME NEW a \in Int, NEW b \in Int, NEW c \in Int
  PROVE  (a + b) * c = a * c + b * c
OBVIOUS

LEMMA QuotientNat ==
  ASSUME NEW a \in Nat, NEW b \in Nat, b # 0
  PROVE  a \div b \in Nat
OBVIOUS

LEMMA WordsHold ==
  ASSUME NEW n \in Nat
  PROVE  Words(n) \in Nat /\ n <= Words(n) * W
<1>1. W \in Nat \ {0} BY SizeAssumption
<1>2. n + W - 1 \in Nat BY <1>1
<1>3. DEFINE a == n + W - 1
<1>4. a \div W \in Nat /\ a < (a \div W) * W + W BY <1>1, <1>2
<1>5. QED BY <1>1, <1>4 DEF Words

LEMMA Least ==
  ASSUME NEW S \in SUBSET Nat, S # {}
  PROVE  \E d \in S : \A e \in S : d <= e
<1>1. IsWellFoundedOn(OpToRel(<, Nat), Nat) BY NatLessThanWellFounded
<1>2. PICK d \in S : \A e \in S : ~ (<<e, d>> \in OpToRel(<, Nat)) BY <1>1, WFMin
<1>3. \A e \in S : ~(e < d) BY <1>2 DEF OpToRel
<1>4. QED BY <1>3

LEMMA LastPlaceIs ==
  ASSUME NEW S, NEW seq \in Seq(S), NEW x \in Elements(seq)
  PROVE  LastPlace(seq, x) \in DOMAIN seq /\ seq[LastPlace(seq, x)] = x
<1> DEFINE T == {Len(seq) - i : i \in {i \in DOMAIN seq : seq[i] = x}}
<1>1. T \in SUBSET Nat /\ T # {} BY DEF Elements
<1>2. PICK d \in T : \A e \in T : d <= e BY <1>1, Least
<1>3. PICK i \in DOMAIN seq : seq[i] = x /\ d = Len(seq) - i BY <1>2
<1>4. ASSUME NEW j \in DOMAIN seq, seq[j] = x PROVE j <= i
  <2>1. Len(seq) - j \in T BY <1>4
  <2>2. d <= Len(seq) - j BY <1>2, <2>1
  <2>3. QED BY <1>3, <2>2
<1>5. QED BY <1>3, <1>4 DEF LastPlace

LEMMA ImageFinite ==
  ASSUME NEW S, IsFiniteSet(S), NEW f, f = [x \in S |-> f[x]]
  PROVE  IsFiniteSet({f[x] : x \in S})
<1>1. f \in Surjection(S, {f[x] : x \in S}) BY DEF Surjection
<1>2. QED BY <1>1, FS_Surjection

(* What the partitions of a circuit are.                                   *)
LEMMA EndTypes ==
  ASSUME NEW p \in Partition, NEW n \in DOMAIN p.ends
  PROVE  /\ p.ends[n].kind \in {"PO", "Staged", "DFF", "RAM"}
         /\ p.ends[n].kind = "PO" => p.ends[n] \in Output
         /\ p.ends[n].kind = "Staged" => p.ends[n] \in StagedPin
         /\ p.ends[n].kind = "DFF" => p.ends[n] \in Register
         /\ p.ends[n].kind = "RAM" => p.ends[n] \in Memory
<1>1. p.ends[n] \in Output \cup StagedPin \cup Register \cup Memory BY DEF Partition
<1>2. QED BY <1>1 DEF Output, StagedPin, Register, Memory

LEMMA StoredTypes ==
  ASSUME NEW p \in Partition, NEW n \in StoredEnds(p)
  PROVE  /\ p.ends[n].d \in Lit /\ Enable(p.ends[n]) \in Lit
         /\ Key(p.ends[n]) \in AnyKey /\ Key(p.ends[n])[1] = p.ends[n].d[1]
         /\ Key(p.ends[n])[2] = <<Enable(p.ends[n]), p.ends[n].d[2]>>
<1> DEFINE e == p.ends[n]
<1>1. n \in DOMAIN p.ends /\ e.kind # "RAM" BY DEF StoredEnds
<1>2. e \in Output \/ e \in StagedPin \/ (e \in Register /\ e.kind = "DFF") BY <1>1, EndTypes
<1>3. e.d \in Lit BY <1>2 DEF Output, StagedPin, Register, Lit
<1>4. Enable(e) \in Lit
  <2>1. True \in Lit BY DEF True, Lit
  <2>2. e.kind = "DFF" => e.en \in Lit BY EndTypes, <1>1 DEF Register
  <2>3. QED BY <2>1, <2>2 DEF Enable
<1>5. QED BY <1>3, <1>4 DEF Key, Activation, AnyKey, Lit

LEMMA EndsFinite ==
  ASSUME NEW p \in Partition
  PROVE  IsFiniteSet(DOMAIN p.ends) /\ IsFiniteSet(StoredEnds(p)) /\ IsFiniteSet(RamEnds(p))
<1>1. Len(p.ends) \in Nat /\ DOMAIN p.ends = 1 .. Len(p.ends) BY DEF Partition
<1>2. IsFiniteSet(DOMAIN p.ends) BY <1>1, FS_Interval
<1>3. QED BY <1>2, FS_Subset DEF StoredEnds, RamEnds

LEMMA KeysFinite ==
  ASSUME NEW p \in Partition
  PROVE  /\ IsFiniteSet(Keys(p)) /\ IsFiniteSet(Keys(p) \ FirstKeys(p))
         /\ Extra(p) \in Nat /\ Dups(p) \in Nat /\ Extra(p) <= Dups(p) * W
<1> DEFINE f == [n \in StoredEnds(p) |-> Key(p.ends[n])]
<1>1. IsFiniteSet({f[n] : n \in StoredEnds(p)})
  <2>1. f = [n \in StoredEnds(p) |-> f[n]] OBVIOUS
  <2> HIDE DEF f
  <2>2. QED BY <2>1, EndsFinite, ImageFinite
<1>2. Keys(p) = {f[n] : n \in StoredEnds(p)} BY DEF Keys
<1>3. IsFiniteSet(Keys(p)) BY <1>1, <1>2
<1>4. IsFiniteSet(Keys(p) \ FirstKeys(p)) BY <1>3, FS_Difference
<1>5. Extra(p) \in Nat BY <1>4, FS_CardinalityType DEF Extra
<1>6. QED BY <1>3, <1>4, <1>5, WordsHold DEF Dups

LEMMA SramsNat ==
  ASSUME NEW p \in Partition
  PROVE  Srams(p) \in Nat
BY EndsFinite, FS_CardinalityType DEF Srams

(* The memories are numbered in order, below their number.                 *)
LEMMA RamNumbered ==
  ASSUME NEW p \in Partition, NEW n \in RamEnds(p)
  PROVE  /\ RamIndex(p, n) \in Nat /\ RamIndex(p, n) < Srams(p)
         /\ \A m \in RamEnds(p) : n < m => RamIndex(p, n) < RamIndex(p, m)
<1> DEFINE Before(m) == {i \in RamEnds(p) : i < m}
<1>1. RamEnds(p) \in SUBSET Nat /\ IsFiniteSet(RamEnds(p)) BY EndsFinite DEF RamEnds, Partition
<1>2. \A T \in SUBSET RamEnds(p) : IsFiniteSet(T) /\ Cardinality(T) \in Nat
  BY <1>1, FS_Subset, FS_CardinalityType
<1>3. ASSUME NEW T \in SUBSET RamEnds(p), Before(n) \subseteq T, n \in T
      PROVE  RamIndex(p, n) < Cardinality(T)
  <2>1. Before(n) \cup {n} \in SUBSET T BY <1>3
  <2>2. n \notin Before(n) BY <1>1
  <2>3. Cardinality(Before(n) \cup {n}) = Cardinality(Before(n)) + 1
    BY <1>2, <2>2, FS_AddElement
  <2>4. Cardinality(Before(n) \cup {n}) <= Cardinality(T) BY <1>2, <2>1, FS_Subset
  <2>5. QED BY <1>2, <2>3, <2>4 DEF RamIndex
<1>4. RamIndex(p, n) < Srams(p) BY <1>3 DEF Srams
<1>5. ASSUME NEW m \in RamEnds(p), n < m PROVE RamIndex(p, n) < RamIndex(p, m)
  <2>1. Before(n) \subseteq Before(m) /\ n \in Before(m) BY <1>1, <1>5
  <2>2. QED BY <1>3, <2>1 DEF RamIndex
<1>6. RamIndex(p, n) \in Nat BY <1>2 DEF RamIndex
<1>7. QED BY <1>4, <1>5, <1>6

(* The first activation of a pin is one.                                   *)
LEMMA FirstOfPin ==
  ASSUME NEW p \in Partition, NEW x \in FirstKeys(p), NEW y \in FirstKeys(p), x[1] = y[1]
  PROVE  x = y
<1>1. PICK n \in StoredEnds(p) : Leads(p, n) /\ x = Key(p.ends[n]) BY DEF FirstKeys
<1>2. PICK m \in StoredEnds(p) : Leads(p, m) /\ y = Key(p.ends[m]) BY DEF FirstKeys
<1>3. p.ends[n].d[1] = p.ends[m].d[1] BY <1>1, <1>2, StoredTypes
<1>4. n \in Nat /\ m \in Nat BY DEF StoredEnds, Partition
<1>5. n = m BY <1>1, <1>2, <1>3, <1>4 DEF Leads
<1>6. QED BY <1>1, <1>2, <1>5

LEMMA FirstAreKeys ==
  ASSUME NEW p
  PROVE  FirstKeys(p) \subseteq Keys(p)
BY DEF FirstKeys, Keys

----------------------------------------------------------------------------
(* Partial functions.                                                      *)
LEMMA WithDomain ==
  \A old, new : DOMAIN With(old, new) = DOMAIN old \cup DOMAIN new
BY DEF With

LEMMA WithNew ==
  \A old, new, z : z \in DOMAIN new => With(old, new)[z] = new[z]
BY DEF With

LEMMA WithOld ==
  \A old, new, z : z \in DOMAIN old /\ z \notin DOMAIN new => With(old, new)[z] = old[z]
BY DEF With

LEMMA PartialIs ==
  ASSUME NEW S, NEW T, NEW f \in Partial(S, T)
  PROVE  DOMAIN f \subseteq S /\ f \in [DOMAIN f -> T]
BY DEF Partial

LEMMA WithPartial ==
  ASSUME NEW S, NEW T, NEW old \in Partial(S, T), NEW new \in Partial(S, T)
  PROVE  With(old, new) \in Partial(S, T)
<1> DEFINE w == With(old, new)
<1>1. DOMAIN old \subseteq S /\ old \in [DOMAIN old -> T] BY PartialIs
<1>2. DOMAIN new \subseteq S /\ new \in [DOMAIN new -> T] BY PartialIs
<1>3. ASSUME NEW x \in DOMAIN w PROVE w[x] \in T
  <2>1. CASE x \in DOMAIN new
    <3>1. w[x] = new[x] BY <2>1 DEF With
    <3>2. QED BY <1>2, <2>1, <3>1
  <2>2. CASE x \notin DOMAIN new
    <3>1. x \in DOMAIN old BY <2>2, WithDomain, WithNew, WithOld
    <3>2. w[x] = old[x] BY <2>2, <3>1, WithDomain, WithNew, WithOld
    <3>3. QED BY <1>1, <3>1, <3>2
  <2>3. QED BY <2>1, <2>2
<1>4. w = [x \in DOMAIN w |-> w[x]] BY DEF With
<1>5. DOMAIN w \in SUBSET S BY <1>1, <1>2, WithDomain, WithNew, WithOld
<1> HIDE DEF w
<1>6. w \in [DOMAIN w -> T] BY <1>3, <1>4
<1>7. w \in Partial(S, T) BY <1>5, <1>6 DEF Partial
<1>8. QED BY <1>7 DEF w

LEMMA OneEntry ==
  ASSUME NEW S, NEW T, NEW x \in S, NEW v \in T
  PROVE  [y \in {x} |-> v] \in Partial(S, T)
<1>1. {x} \in SUBSET S /\ [y \in {x} |-> v] \in [{x} -> T] OBVIOUS
<1>2. QED BY <1>1 DEF Partial

LEMMA InsertDomain ==
  \A old, x, v : DOMAIN Insert(old, x, v) = DOMAIN old \cup {x}
BY DEF Insert, With

LEMMA InsertHere ==
  \A old, x, v : Insert(old, x, v)[x] = v
BY DEF Insert, With

LEMMA InsertElse ==
  \A old, x, v, z : z \in DOMAIN old /\ z # x => Insert(old, x, v)[z] = old[z]
BY DEF Insert, With

LEMMA InsertPartial ==
  ASSUME NEW S, NEW T, NEW old \in Partial(S, T), NEW x \in S, NEW v \in T
  PROVE  Insert(old, x, v) \in Partial(S, T)
BY OneEntry, WithPartial DEF Insert

----------------------------------------------------------------------------
(* Where the bits of a part are.                                           *)
LEMMA OrigPlace ==
  ASSUME NEW p \in Partition, Len(p.outs) = Normal(p) * W, NEW x \in Elements(p.outs)
  PROVE  /\ OrigPos(p, x) \in 0 .. Normal(p) * W - 1
         /\ p.outs[OrigPos(p, x) + 1] = x
<1>1. p.outs \in Seq(Pin \cup {Zero, NoPin}) BY DEF Partition
<1>2. LastPlace(p.outs, x) \in 1 .. Len(p.outs) /\ p.outs[LastPlace(p.outs, x)] = x
  BY <1>1, LastPlaceIs
<1>3. QED BY <1>1, <1>2 DEF OrigPos

LEMMA NormalNat ==
  ASSUME NEW p \in Partition
  PROVE  Normal(p) \in Nat /\ Normal(p) * W \in Nat /\ W \in Nat /\ W # 0
<1>1. Len(p.outs) \in Nat BY DEF Partition
<1>2. W \in Nat /\ W # 0 BY SizeAssumption
<1>3. Normal(p) \in Nat BY <1>1, <1>2, QuotientNat DEF Normal
<1>4. QED BY <1>2, <1>3

LEMMA DupPlace ==
  ASSUME NEW p \in Partition, NEW i \in 1 .. Extra(p)
  PROVE  /\ DupBit(p, i) \in Normal(p) * W .. (Normal(p) + Dups(p)) * W - 1
         /\ DupPerm(p, i) \in Int /\ DupPerm(p, i) >= Srams(p) * (4 * W)
         /\ DupPerm(p, i) = Srams(p) * 4 * W + (DupBit(p, i) - Normal(p) * W)
<1>1. /\ Normal(p) \in Nat /\ W \in Nat /\ Dups(p) \in Nat /\ Srams(p) \in Nat
      /\ Extra(p) \in Nat /\ Extra(p) <= Dups(p) * W
  BY NormalNat, KeysFinite, SramsNat
<1>2. (Normal(p) + Dups(p)) * W = Normal(p) * W + Dups(p) * W BY <1>1, Distributes
<1>3. (Srams(p) * 4 + Dups(p)) * W = Srams(p) * 4 * W + Dups(p) * W BY <1>1, Distributes
<1>4. Srams(p) * (4 * W) = Srams(p) * 4 * W BY <1>1
<1>5. Normal(p) * W \in Nat /\ Dups(p) * W \in Nat /\ Srams(p) * 4 * W \in Nat BY <1>1
<1>6. i \in Nat /\ 1 <= i /\ i <= Dups(p) * W BY <1>1
<1>7. QED BY <1>2, <1>3, <1>4, <1>5, <1>6 DEF DupBit, DupPerm

LEMMA DupsDiffer ==
  ASSUME NEW p \in Partition, NEW i \in Int, NEW j \in Int, i # j
  PROVE  DupBit(p, i) # DupBit(p, j) /\ DupPerm(p, i) # DupPerm(p, j)
<1> DEFINE a == (Normal(p) + Dups(p)) * W
           b == (Srams(p) * 4 + Dups(p)) * W
<1>1. Normal(p) \in Nat /\ W \in Nat /\ Dups(p) \in Nat /\ Srams(p) \in Nat
  BY NormalNat, KeysFinite, SramsNat
<1>2. a \in Int /\ b \in Int BY <1>1
<1> HIDE DEF a, b
<1>3. a - i # a - j /\ b - i # b - j BY <1>2
<1>4. QED BY <1>3 DEF DupBit, DupPerm, a, b

LEMMA SoundPlaces ==
  ASSUME NEW p \in Partition, Len(p.outs) = Normal(p) * W, NEW f \in Part, Sound(p, f)
  PROVE  /\ IsFiniteSet(Later(p, f)) /\ f.cnt \in Nat /\ f.cnt <= Extra(p)
         /\ \A x \in DOMAIN f.pos : x \in FirstKeys(p) => f.pos[x] \in 0 .. Normal(p) * W - 1
         /\ \A x \in DOMAIN f.pos : x \notin FirstKeys(p) =>
              f.pos[x] \in Normal(p) * W .. (Normal(p) + Dups(p)) * W - 1
<1>1. Later(p, f) \in SUBSET (Keys(p) \ FirstKeys(p)) BY DEF Sound, Later
<1>2. IsFiniteSet(Later(p, f)) /\ Cardinality(Later(p, f)) <= Extra(p)
  BY <1>1, KeysFinite, FS_Subset DEF Extra
<1>3. f.cnt \in Nat /\ f.cnt <= Extra(p) BY <1>2 DEF Sound, Part
<1>4. ASSUME NEW x \in DOMAIN f.pos, x \in FirstKeys(p) PROVE f.pos[x] \in 0 .. Normal(p) * W - 1
  <2>1. x[1] \in Elements(p.outs) /\ f.pos[x] = OrigPos(p, x[1]) BY <1>4 DEF Sound
  <2>2. QED BY <2>1, OrigPlace
<1>5. ASSUME NEW x \in DOMAIN f.pos, x \notin FirstKeys(p)
      PROVE  f.pos[x] \in Normal(p) * W .. (Normal(p) + Dups(p)) * W - 1
  <2>1. PICK i \in 1 .. f.cnt : f.pos[x] = DupBit(p, i) BY <1>5 DEF Sound
  <2>2. i \in 1 .. Extra(p)
    <3>1. Extra(p) \in Nat BY KeysFinite
    <3>2. QED BY <1>3, <3>1
  <2>3. QED BY <2>1, <2>2, DupPlace
<1>6. QED BY <1>2, <1>3, <1>4, <1>5

----------------------------------------------------------------------------
(* What a record keeps when another endpoint is placed.                    *)
TopBit(p) == (Normal(p) + Dups(p)) * W

Keeps(p, f, g) ==
  /\ g.stateStart = f.stateStart /\ g.sramStart = f.sramStart
  /\ \A x \in DOMAIN f.pos : x \in DOMAIN g.pos /\ g.pos[x] = f.pos[x]
  /\ \A b \in DOMAIN f.clk : b >= TopBit(p) => b \in DOMAIN g.clk /\ g.clk[b] = f.clk[b]
  /\ g.port = f.port

LEMMA PlacedFirst ==
  ASSUME NEW p \in Partition, Len(p.outs) = Normal(p) * W, NEW f \in Part, Sound(p, f),
         NEW n \in StoredEnds(p), p.ends[n].d[1] \in Elements(p.outs),
         Key(p.ends[n]) \notin DOMAIN f.pos, Key(p.ends[n]) \in FirstKeys(p)
  PROVE  LET g == Placed(p, f, p.ends[n])
         IN  g \in Part /\ Sound(p, g) /\ Keeps(p, f, g) /\ Key(p.ends[n]) \in DOMAIN g.pos
<1> DEFINE e == p.ends[n]
           key == Key(e)
           at == OrigPos(p, e.d[1])
           c == [en |-> Enable(e), inv |-> e.d[2]]
           g == Placed(p, f, e)
<1>1. /\ key \in AnyKey /\ key[1] = e.d[1] /\ key[2][1] = Enable(e) /\ key[2][2] = e.d[2]
      /\ Enable(e) \in Lit /\ e.d[2] \in {0, 1}
  <2>1. e.d \in Lit /\ Enable(e) \in Lit BY StoredTypes
  <2>2. key \in AnyKey /\ key[1] = e.d[1] /\ key[2] = <<Enable(e), e.d[2]>> BY StoredTypes
  <2>3. e.d[2] \in {0, 1} BY <2>1 DEF Lit
  <2>4. QED BY <2>1, <2>2, <2>3
<1> HIDE DEF key
<1>a. key \notin DOMAIN f.pos /\ key \in FirstKeys(p) BY DEF key
<1>2. at \in Int /\ at \in 0 .. Normal(p) * W - 1 /\ p.outs[at + 1] = e.d[1]
  <2>1. at \in 0 .. Normal(p) * W - 1 /\ p.outs[at + 1] = e.d[1] BY OrigPlace
  <2>2. QED BY <2>1, NormalNat
<1>3. /\ f.pos \in Partial(AnyKey, Bit) /\ f.clk \in Partial(Bit, Switch)
      /\ c \in Switch /\ at \in Bit
  BY <1>1, <1>2 DEF Part, Switch, Bit
<1>4. g = [f EXCEPT !.pos = Insert(f.pos, key, at),
                    !.clk = Insert(f.clk, at, c)]
  BY DEF Placed, NewPos, Part, key
<1>5. /\ g.pos = Insert(f.pos, key, at) /\ g.clk = Insert(f.clk, at, c)
      /\ g.copy = f.copy /\ g.port = f.port /\ g.cnt = f.cnt
      /\ g.stateStart = f.stateStart /\ g.sramStart = f.sramStart
  BY <1>4 DEF Part
<1> HIDE DEF g, at, c
<1>6. /\ g.pos \in Partial(AnyKey, Bit) /\ DOMAIN g.pos = DOMAIN f.pos \cup {key} /\ g.pos[key] = at
      /\ \A z \in DOMAIN f.pos : z # key => g.pos[z] = f.pos[z]
  <2>1. g.pos \in Partial(AnyKey, Bit) BY <1>1, <1>3, <1>5, InsertPartial
  <2>2. DOMAIN g.pos = DOMAIN f.pos \cup {key}
    <3>1. DOMAIN Insert(f.pos, key, at) = DOMAIN f.pos \cup {key} BY InsertDomain
    <3>2. g.pos = Insert(f.pos, key, at) BY <1>5
    <3>3. QED BY <3>1, <3>2
  <2>3. g.pos[key] = at BY <1>5, InsertHere
  <2>4. \A z \in DOMAIN f.pos : z # key => g.pos[z] = f.pos[z] BY <1>5, InsertElse
  <2>5. QED BY <2>1, <2>2, <2>3, <2>4
<1>7. /\ g.clk \in Partial(Bit, Switch) /\ DOMAIN g.clk = DOMAIN f.clk \cup {at}
      /\ g.clk[at] = c
      /\ \A z \in DOMAIN f.clk : z # at => g.clk[z] = f.clk[z]
  <2>1. g.clk \in Partial(Bit, Switch) BY <1>3, <1>5, InsertPartial
  <2>2. DOMAIN g.clk = DOMAIN f.clk \cup {at}
    <3>1. DOMAIN Insert(f.clk, at, c) = DOMAIN f.clk \cup {at} BY InsertDomain
    <3>2. g.clk = Insert(f.clk, at, c) BY <1>5
    <3>3. QED BY <3>1, <3>2
  <2>3. g.clk[at] = c BY <1>5, InsertHere
  <2>4. \A z \in DOMAIN f.clk : z # at => g.clk[z] = f.clk[z] BY <1>5, InsertElse
  <2>5. QED BY <2>1, <2>2, <2>3, <2>4
<1>8. \A x \in DOMAIN f.pos : x # key /\ g.pos[x] = f.pos[x]
  BY <1>a, <1>6
<1>9. ASSUME NEW x \in DOMAIN f.pos PROVE f.pos[x] # at
  <2>1. CASE x \in FirstKeys(p)
    <3>1. x[1] \in Elements(p.outs) /\ f.pos[x] = OrigPos(p, x[1]) BY <2>1 DEF Sound
    <3>2. p.outs[f.pos[x] + 1] = x[1] BY <3>1, OrigPlace
    <3>3. x[1] # key[1] BY <1>a, <2>1, FirstOfPin
    <3>4. QED BY <1>1, <1>2, <3>2, <3>3
  <2>2. CASE x \notin FirstKeys(p)
    <3>1. f.pos[x] \in Normal(p) * W .. (Normal(p) + Dups(p)) * W - 1 BY <2>2, SoundPlaces
    <3>2. QED BY <1>2, <3>1, NormalNat
  <2>3. QED BY <2>1, <2>2
<1>10. Later(p, g) = Later(p, f) BY <1>a, <1>6 DEF Later
<1>11. g \in Part BY <1>4, <1>5, <1>6, <1>7 DEF Part
<1>12. ASSUME NEW x \in DOMAIN g.pos
       PROVE  /\ x[1] \in Elements(p.outs)
              /\ g.pos[x] \in DOMAIN g.clk /\ g.clk[g.pos[x]] = [en |-> x[2][1], inv |-> x[2][2]]
              /\ x \in FirstKeys(p) => g.pos[x] = OrigPos(p, x[1])
              /\ x \notin FirstKeys(p) => \E i \in 1 .. g.cnt :
                   /\ g.pos[x] = DupBit(p, i)
                   /\ DupPerm(p, i) \in DOMAIN g.copy /\ g.copy[DupPerm(p, i)] = OrigPos(p, x[1])
  <2>1. CASE x = key BY <1>1, <1>a, <1>6, <1>7, <2>1 DEF at, c
  <2>2. CASE x # key
    <3>1. x \in DOMAIN f.pos BY <1>6, <2>2
    <3>2. g.pos[x] = f.pos[x] /\ f.pos[x] # at BY <1>8, <1>9, <3>1
    <3>3. f.pos[x] \in DOMAIN f.clk /\ f.clk[f.pos[x]] = [en |-> x[2][1], inv |-> x[2][2]]
      BY <3>1 DEF Sound
    <3>4. g.pos[x] \in DOMAIN g.clk /\ g.clk[g.pos[x]] = [en |-> x[2][1], inv |-> x[2][2]]
      BY <1>7, <3>2, <3>3
    <3>5. QED BY <1>5, <3>1, <3>2, <3>4 DEF Sound
  <2>3. QED BY <2>1, <2>2
<1>13. ASSUME NEW x \in DOMAIN g.pos, NEW y \in DOMAIN g.pos, g.pos[x] = g.pos[y] PROVE x = y
  BY <1>6, <1>8, <1>9, <1>13 DEF Sound
<1>14. DOMAIN g.pos \subseteq Keys(p) BY <1>a, <1>6, FirstAreKeys DEF Sound
<1>15. Sound(p, g) BY <1>5, <1>10, <1>12, <1>13, <1>14 DEF Sound
<1>16. g \in Part /\ Sound(p, g) /\ Keeps(p, f, g) /\ key \in DOMAIN g.pos
  <2>1. TopBit(p) \in Int /\ TopBit(p) >= Normal(p) * W
    <3>1. Normal(p) \in Nat /\ W \in Nat /\ Dups(p) \in Nat BY NormalNat, KeysFinite
    <3>2. TopBit(p) = Normal(p) * W + Dups(p) * W BY <3>1, Distributes DEF TopBit
    <3>3. Normal(p) * W \in Nat /\ Dups(p) * W \in Nat BY <3>1
    <3>4. QED BY <3>2, <3>3
  <2>2. at < TopBit(p) BY <1>2, <2>1, NormalNat
  <2>3. \A b \in DOMAIN f.clk : b >= TopBit(p) => b \in DOMAIN g.clk /\ g.clk[b] = f.clk[b]
    BY <1>2, <1>7, <2>1, <2>2
  <2>4. QED BY <1>5, <1>6, <1>8, <1>11, <1>15, <2>3 DEF Keeps
<1>17. QED BY <1>16 DEF g, key

LEMMA PlacedLater ==
  ASSUME NEW p \in Partition, Len(p.outs) = Normal(p) * W, NEW f \in Part, Sound(p, f),
         NEW n \in StoredEnds(p), p.ends[n].d[1] \in Elements(p.outs),
         Key(p.ends[n]) \notin DOMAIN f.pos, Key(p.ends[n]) \notin FirstKeys(p)
  PROVE  LET g == Placed(p, f, p.ends[n])
         IN  g \in Part /\ Sound(p, g) /\ Keeps(p, f, g) /\ Key(p.ends[n]) \in DOMAIN g.pos
<1> DEFINE e == p.ends[n]
           key == Key(e)
           i == f.cnt + 1
           at == DupBit(p, i)
           perm == DupPerm(p, i)
           orig == OrigPos(p, e.d[1])
           c == [en |-> Enable(e), inv |-> e.d[2]]
           g == Placed(p, f, e)
<1>1. /\ key \in AnyKey /\ key[1] = e.d[1] /\ key[2][1] = Enable(e) /\ key[2][2] = e.d[2]
      /\ Enable(e) \in Lit /\ e.d[2] \in {0, 1}
  <2>1. e.d \in Lit /\ Enable(e) \in Lit BY StoredTypes
  <2>2. key \in AnyKey /\ key[1] = e.d[1] /\ key[2] = <<Enable(e), e.d[2]>> BY StoredTypes
  <2>3. e.d[2] \in {0, 1} BY <2>1 DEF Lit
  <2>4. QED BY <2>1, <2>2, <2>3
<1> HIDE DEF key
<1>2. key \notin DOMAIN f.pos /\ key \notin FirstKeys(p) /\ key \in Keys(p)
  BY DEF key, Keys
(* This bit is among those counted in advance.                             *)
<1>3. i \in 1 .. Extra(p) /\ f.cnt \in Nat
      /\ f.cnt + 1 = Cardinality(Later(p, f) \cup {key})
  <2>1. IsFiniteSet(Later(p, f)) /\ f.cnt \in Nat BY SoundPlaces
  <2>2. Later(p, f) \cup {key} \in SUBSET (Keys(p) \ FirstKeys(p)) BY <1>2 DEF Sound, Later
  <2>3. key \notin Later(p, f) BY <1>2 DEF Later
  <2>4. Cardinality(Later(p, f) \cup {key}) = Cardinality(Later(p, f)) + 1
    BY <2>1, <2>3, FS_AddElement
  <2>5. f.cnt = Cardinality(Later(p, f)) BY DEF Sound
  <2>6. Cardinality(Later(p, f) \cup {key}) <= Extra(p)
    BY <2>2, KeysFinite, FS_Subset DEF Extra
  <2>7. Extra(p) \in Nat BY KeysFinite
  <2>8. QED BY <2>1, <2>4, <2>5, <2>6, <2>7
<1>4. /\ at \in Int /\ at \in Normal(p) * W .. (Normal(p) + Dups(p)) * W - 1
      /\ perm \in Int /\ perm >= Srams(p) * (4 * W)
  <2>1. at \in Normal(p) * W .. (Normal(p) + Dups(p)) * W - 1
        /\ perm \in Int /\ perm >= Srams(p) * (4 * W)
    BY <1>3, DupPlace
  <2>2. QED BY <2>1, NormalNat
<1>5. orig \in Int /\ orig \in 0 .. Normal(p) * W - 1
  <2>1. orig \in 0 .. Normal(p) * W - 1 BY OrigPlace
  <2>2. QED BY <2>1, NormalNat
<1>6. /\ f.pos \in Partial(AnyKey, Bit) /\ f.clk \in Partial(Bit, Switch)
      /\ f.copy \in Partial(Bit, Bit)
      /\ c \in Switch /\ at \in Bit /\ perm \in Bit /\ orig \in Bit
  BY <1>1, <1>4, <1>5 DEF Part, Switch, Bit
<1>7. g = [f EXCEPT !.pos = Insert(f.pos, key, at), !.clk = Insert(f.clk, at, c),
                    !.copy = Insert(f.copy, perm, orig), !.cnt = i]
  BY <1>2 DEF Placed, NewPos, NewPerm, DupBit, DupPerm, Part, key
<1>8. /\ g.pos = Insert(f.pos, key, at) /\ g.clk = Insert(f.clk, at, c)
      /\ g.copy = Insert(f.copy, perm, orig) /\ g.port = f.port /\ g.cnt = i
      /\ g.stateStart = f.stateStart /\ g.sramStart = f.sramStart
  BY <1>7 DEF Part
<1> HIDE DEF g, at, c, perm, orig
<1>9. /\ g.pos \in Partial(AnyKey, Bit) /\ DOMAIN g.pos = DOMAIN f.pos \cup {key} /\ g.pos[key] = at
      /\ \A z \in DOMAIN f.pos : z # key => g.pos[z] = f.pos[z]
  <2>1. g.pos \in Partial(AnyKey, Bit) BY <1>1, <1>6, <1>8, InsertPartial
  <2>2. DOMAIN g.pos = DOMAIN f.pos \cup {key}
    <3>1. DOMAIN Insert(f.pos, key, at) = DOMAIN f.pos \cup {key} BY InsertDomain
    <3>2. g.pos = Insert(f.pos, key, at) BY <1>8
    <3>3. QED BY <3>1, <3>2
  <2>3. g.pos[key] = at BY <1>8, InsertHere
  <2>4. \A z \in DOMAIN f.pos : z # key => g.pos[z] = f.pos[z] BY <1>8, InsertElse
  <2>5. QED BY <2>1, <2>2, <2>3, <2>4
<1>10. /\ g.clk \in Partial(Bit, Switch) /\ DOMAIN g.clk = DOMAIN f.clk \cup {at} /\ g.clk[at] = c
       /\ \A z \in DOMAIN f.clk : z # at => g.clk[z] = f.clk[z]
  <2>1. g.clk \in Partial(Bit, Switch) BY <1>6, <1>8, InsertPartial
  <2>2. DOMAIN g.clk = DOMAIN f.clk \cup {at}
    <3>1. DOMAIN Insert(f.clk, at, c) = DOMAIN f.clk \cup {at} BY InsertDomain
    <3>2. g.clk = Insert(f.clk, at, c) BY <1>8
    <3>3. QED BY <3>1, <3>2
  <2>3. g.clk[at] = c BY <1>8, InsertHere
  <2>4. \A z \in DOMAIN f.clk : z # at => g.clk[z] = f.clk[z] BY <1>8, InsertElse
  <2>5. QED BY <2>1, <2>2, <2>3, <2>4
<1>11. /\ g.copy \in Partial(Bit, Bit) /\ DOMAIN g.copy = DOMAIN f.copy \cup {perm}
       /\ g.copy[perm] = orig
       /\ \A z \in DOMAIN f.copy : z # perm => g.copy[z] = f.copy[z]
  <2>1. g.copy \in Partial(Bit, Bit) BY <1>6, <1>8, InsertPartial
  <2>2. DOMAIN g.copy = DOMAIN f.copy \cup {perm}
    <3>1. DOMAIN Insert(f.copy, perm, orig) = DOMAIN f.copy \cup {perm} BY InsertDomain
    <3>2. g.copy = Insert(f.copy, perm, orig) BY <1>8
    <3>3. QED BY <3>1, <3>2
  <2>3. g.copy[perm] = orig BY <1>8, InsertHere
  <2>4. \A z \in DOMAIN f.copy : z # perm => g.copy[z] = f.copy[z] BY <1>8, InsertElse
  <2>5. QED BY <2>1, <2>2, <2>3, <2>4
<1>12. \A x \in DOMAIN f.pos : x # key /\ g.pos[x] = f.pos[x]
  BY <1>2, <1>9
<1>13. \A j \in 1 .. f.cnt : DupBit(p, j) # at /\ DupPerm(p, j) # perm
  <2>1. \A j \in 1 .. f.cnt : j \in Int /\ i \in Int /\ i # j BY <1>3
  <2>2. QED BY <2>1, DupsDiffer DEF at, perm
<1>14. ASSUME NEW x \in DOMAIN f.pos PROVE f.pos[x] # at
  <2>1. CASE x \in FirstKeys(p)
    <3>1. f.pos[x] \in 0 .. Normal(p) * W - 1 BY <2>1, SoundPlaces
    <3>2. QED BY <1>4, <3>1, NormalNat
  <2>2. CASE x \notin FirstKeys(p)
    <3>1. PICK j \in 1 .. f.cnt : f.pos[x] = DupBit(p, j) BY <2>2 DEF Sound
    <3>2. QED BY <1>13, <3>1
  <2>3. QED BY <2>1, <2>2
<1>15. Later(p, g) = Later(p, f) \cup {key} BY <1>2, <1>9 DEF Later
<1>16. g \in Part
  <2>1. g.cnt \in Nat BY <1>3, <1>8
  <2>2. QED BY <1>7, <1>8, <1>9, <1>10, <1>11, <2>1 DEF Part
<1>17. ASSUME NEW x \in DOMAIN g.pos
       PROVE  /\ x[1] \in Elements(p.outs)
              /\ g.pos[x] \in DOMAIN g.clk /\ g.clk[g.pos[x]] = [en |-> x[2][1], inv |-> x[2][2]]
              /\ x \in FirstKeys(p) => g.pos[x] = OrigPos(p, x[1])
              /\ x \notin FirstKeys(p) => \E j \in 1 .. g.cnt :
                   /\ g.pos[x] = DupBit(p, j)
                   /\ DupPerm(p, j) \in DOMAIN g.copy /\ g.copy[DupPerm(p, j)] = OrigPos(p, x[1])
  <2>1. CASE x = key
    <3>1. x[1] \in Elements(p.outs)
          /\ g.pos[x] \in DOMAIN g.clk /\ g.clk[g.pos[x]] = [en |-> x[2][1], inv |-> x[2][2]]
      BY <1>1, <1>9, <1>10, <2>1 DEF c
    <3>2. i \in 1 .. g.cnt BY <1>3, <1>8
    <3>3. g.pos[x] = DupBit(p, i) /\ DupPerm(p, i) \in DOMAIN g.copy
          /\ g.copy[DupPerm(p, i)] = OrigPos(p, x[1])
      BY <1>1, <1>9, <1>11, <2>1 DEF at, perm, orig
    <3>4. QED BY <1>2, <2>1, <3>1, <3>2, <3>3
  <2>2. CASE x # key
    <3>1. x \in DOMAIN f.pos BY <1>9, <2>2
    <3>2. g.pos[x] = f.pos[x] /\ f.pos[x] # at BY <1>12, <1>14, <3>1
    <3>3. f.pos[x] \in DOMAIN f.clk /\ f.clk[f.pos[x]] = [en |-> x[2][1], inv |-> x[2][2]]
      BY <3>1 DEF Sound
    <3>4. g.pos[x] \in DOMAIN g.clk /\ g.clk[g.pos[x]] = [en |-> x[2][1], inv |-> x[2][2]]
      BY <1>10, <3>2, <3>3
    <3>5. ASSUME x \notin FirstKeys(p)
          PROVE  \E j \in 1 .. g.cnt :
                   /\ g.pos[x] = DupBit(p, j)
                   /\ DupPerm(p, j) \in DOMAIN g.copy /\ g.copy[DupPerm(p, j)] = OrigPos(p, x[1])
      <4>1. PICK j \in 1 .. f.cnt :
              /\ f.pos[x] = DupBit(p, j)
              /\ DupPerm(p, j) \in DOMAIN f.copy /\ f.copy[DupPerm(p, j)] = OrigPos(p, x[1])
        BY <3>1, <3>5 DEF Sound
      <4>2. DupPerm(p, j) \in DOMAIN g.copy /\ g.copy[DupPerm(p, j)] = f.copy[DupPerm(p, j)]
        BY <1>11, <1>13, <4>1
      <4>3. j \in 1 .. g.cnt BY <1>3, <1>8
      <4>4. QED BY <3>2, <4>1, <4>2, <4>3
    <3>6. x[1] \in Elements(p.outs) /\ (x \in FirstKeys(p) => g.pos[x] = OrigPos(p, x[1]))
      BY <3>1, <3>2 DEF Sound
    <3>7. QED BY <3>4, <3>5, <3>6
  <2>3. QED BY <2>1, <2>2
<1>18. ASSUME NEW x \in DOMAIN g.pos, NEW y \in DOMAIN g.pos, g.pos[x] = g.pos[y] PROVE x = y
  BY <1>9, <1>12, <1>14, <1>18 DEF Sound
<1>19. DOMAIN g.pos \subseteq Keys(p) BY <1>2, <1>9 DEF Sound
<1>20. g.cnt = Cardinality(Later(p, g)) BY <1>3, <1>8, <1>15
<1>21. \A b \in DOMAIN g.copy : b >= Srams(p) * (4 * W) BY <1>4, <1>11 DEF Sound
<1>22. Sound(p, g) BY <1>8, <1>17, <1>18, <1>19, <1>20, <1>21 DEF Sound
<1>23. g \in Part /\ Sound(p, g) /\ Keeps(p, f, g) /\ key \in DOMAIN g.pos
  <2>1. TopBit(p) \in Int
    <3>1. Normal(p) \in Nat /\ W \in Nat /\ Dups(p) \in Nat BY NormalNat, KeysFinite
    <3>2. QED BY <3>1 DEF TopBit
  <2>2. at < TopBit(p) BY <1>4, <2>1, NormalNat DEF TopBit
  <2>3. \A b \in DOMAIN f.clk : b >= TopBit(p) => b \in DOMAIN g.clk /\ g.clk[b] = f.clk[b]
    BY <1>4, <1>10, <2>1, <2>2
  <2>4. QED BY <1>8, <1>9, <1>12, <1>16, <1>22, <2>3 DEF Keeps
<1>24. QED BY <1>23 DEF g, key

(* An endpoint stored in a part's record leaves it sound.                  *)
LEMMA PlacedSound ==
  ASSUME NEW p \in Partition, Len(p.outs) = Normal(p) * W, NEW f \in Part, Sound(p, f),
         NEW n \in StoredEnds(p), p.ends[n].d[1] \in Elements(p.outs)
  PROVE  LET g == Placed(p, f, p.ends[n])
         IN  g \in Part /\ Sound(p, g) /\ Keeps(p, f, g) /\ Key(p.ends[n]) \in DOMAIN g.pos
<1>1. CASE Key(p.ends[n]) \in DOMAIN f.pos
  <2>1. Placed(p, f, p.ends[n]) = f BY <1>1 DEF Placed
  <2>2. Keeps(p, f, f) BY DEF Keeps
  <2>3. QED BY <1>1, <2>1, <2>2
<1>2. CASE Key(p.ends[n]) \notin DOMAIN f.pos /\ Key(p.ends[n]) \in FirstKeys(p)
  BY <1>2, PlacedFirst
<1>3. CASE Key(p.ends[n]) \notin DOMAIN f.pos /\ Key(p.ends[n]) \notin FirstKeys(p)
  BY <1>3, PlacedLater
<1>4. QED BY <1>1, <1>2, <1>3

----------------------------------------------------------------------------
(* The memories of a part.                                                 *)
LEMMA RowsApart ==
  ASSUME NEW a \in Nat, NEW b \in Nat, a < b, NEW w \in Nat, NEW j \in 0 .. w - 1
  PROVE  a * w + j \in Nat /\ a * w + j < b * w
<1> DEFINE c == b - a - 1
<1>1. c \in Nat /\ b = a + (1 + c) BY DEF c
<1> HIDE DEF c
<1>2. b * w = a * w + (1 + c) * w BY <1>1, Distributes
<1>3. (1 + c) * w = w + c * w BY <1>1, Distributes
<1>4. a * w \in Nat /\ c * w \in Nat BY <1>1
<1>5. QED BY <1>2, <1>3, <1>4

LEMMA RamPlace ==
  ASSUME NEW p \in Partition, NEW n \in RamEnds(p)
  PROVE  /\ ReadWord(p, n) \in Nat /\ ReadWord(p, n) = Normal(p) + Dups(p) + RamIndex(p, n)
         /\ \A k \in 0 .. W - 1 : ReadWord(p, n) * W + k \in Nat /\ ReadWord(p, n) * W + k >= TopBit(p)
         /\ \A i \in RamPort : PortBase(p, n) + i \in Nat /\ PortBase(p, n) + i < Srams(p) * (4 * W)
<1>1. /\ Normal(p) \in Nat /\ W \in Nat /\ Dups(p) \in Nat /\ Srams(p) \in Nat
      /\ RamIndex(p, n) \in Nat /\ RamIndex(p, n) < Srams(p)
  BY NormalNat, KeysFinite, SramsNat, RamNumbered
<1>2. ReadWord(p, n) = Normal(p) + Dups(p) + RamIndex(p, n) BY <1>1 DEF ReadWord, Writeouts
<1>3. ReadWord(p, n) * W = TopBit(p) + RamIndex(p, n) * W BY <1>1, <1>2, Distributes DEF TopBit
<1>4. RamIndex(p, n) * W \in Nat /\ TopBit(p) \in Nat BY <1>1 DEF TopBit
<1>5. ASSUME NEW k \in 0 .. W - 1
      PROVE  ReadWord(p, n) * W + k \in Nat /\ ReadWord(p, n) * W + k >= TopBit(p)
  BY <1>1, <1>3, <1>4
<1>6. ASSUME NEW i \in RamPort
      PROVE  PortBase(p, n) + i \in Nat /\ PortBase(p, n) + i < Srams(p) * (4 * W)
  <2>1. i \in 0 .. (4 * W) - 1 BY SizeAssumption
  <2>2. 4 * W \in Nat BY <1>1
  <2>3. QED BY <1>1, <2>1, <2>2, RowsApart DEF PortBase
<1>7. QED BY <1>1, <1>2, <1>5, <1>6

LEMMA RamsApart ==
  ASSUME NEW p \in Partition, NEW n \in RamEnds(p), NEW m \in RamEnds(p), m # n
  PROVE  /\ \A j, k \in 0 .. W - 1 : ReadWord(p, n) * W + j # ReadWord(p, m) * W + k
         /\ \A i, j \in RamPort : PortBase(p, n) + i # PortBase(p, m) + j
<1>1. \A a, b \in RamEnds(p) : a < b =>
        /\ \A j, k \in 0 .. W - 1 : ReadWord(p, a) * W + j # ReadWord(p, b) * W + k
        /\ \A i, j \in RamPort : PortBase(p, a) + i # PortBase(p, b) + j
  <2> SUFFICES ASSUME NEW a \in RamEnds(p), NEW b \in RamEnds(p), a < b
               PROVE  /\ \A j, k \in 0 .. W - 1 : ReadWord(p, a) * W + j # ReadWord(p, b) * W + k
                      /\ \A i, j \in RamPort : PortBase(p, a) + i # PortBase(p, b) + j
    OBVIOUS
  <2>1. /\ RamIndex(p, a) \in Nat /\ RamIndex(p, b) \in Nat /\ RamIndex(p, a) < RamIndex(p, b)
    BY RamNumbered
  <2>2. /\ ReadWord(p, a) \in Nat /\ ReadWord(p, b) \in Nat /\ ReadWord(p, a) < ReadWord(p, b)
    <3>1. Normal(p) \in Nat /\ Dups(p) \in Nat BY NormalNat, KeysFinite
    <3>2. QED BY <2>1, <3>1, RamPlace
  <2>3. W \in Nat /\ 4 * W \in Nat BY SizeAssumption
  <2>4. ASSUME NEW j \in 0 .. W - 1, NEW k \in 0 .. W - 1
        PROVE  ReadWord(p, a) * W + j # ReadWord(p, b) * W + k
    <3>1. ReadWord(p, a) * W + j \in Nat /\ ReadWord(p, a) * W + j < ReadWord(p, b) * W
      BY <2>2, <2>3, RowsApart
    <3>2. ReadWord(p, b) * W \in Nat BY <2>2, <2>3
    <3>3. QED BY <2>3, <3>1, <3>2
  <2>5. ASSUME NEW i \in RamPort, NEW j \in RamPort PROVE PortBase(p, a) + i # PortBase(p, b) + j
    <3>1. i \in 0 .. (4 * W) - 1 /\ j \in Nat BY <2>3, SizeAssumption
    <3>2. PortBase(p, a) + i \in Nat /\ PortBase(p, a) + i < PortBase(p, b)
      BY <2>1, <2>3, <3>1, RowsApart DEF PortBase
    <3>3. PortBase(p, b) \in Nat BY <2>1, <2>3 DEF PortBase
    <3>4. QED BY <3>1, <3>2, <3>3
  <2>6. QED BY <2>4, <2>5
<1>2. n \in Nat /\ m \in Nat BY DEF RamEnds, Partition
<1>3. n < m \/ m < n BY <1>2
<1>4. CASE n < m BY <1>1, <1>4
<1>5. CASE m < n
  <2>1. /\ \A j, k \in 0 .. W - 1 : ReadWord(p, m) * W + j # ReadWord(p, n) * W + k
        /\ \A i, j \in RamPort : PortBase(p, m) + i # PortBase(p, n) + j
    BY <1>1, <1>5
  <2>2. QED BY <2>1
<1>6. QED BY <1>3, <1>4, <1>5

LEMMA RamSoundKept ==
  ASSUME NEW p \in Partition, NEW f \in Part, NEW g \in Part, Keeps(p, f, g),
         NEW n \in RamEnds(p), RamSound(p, f, n)
  PROVE  RamSound(p, g, n)
<1>1. ASSUME NEW b \in ReadClk(p, n)
      PROVE  b \in DOMAIN g.clk /\ g.clk[b] = [en |-> p.ends[n].en, inv |-> 0]
  <2>1. PICK k \in 0 .. W - 1 : b = ReadWord(p, n) * W + k BY DEF ReadClk, ReadBits
  <2>2. b >= TopBit(p) BY <2>1, RamPlace
  <2>3. b \in DOMAIN f.clk /\ f.clk[b] = [en |-> p.ends[n].en, inv |-> 0] BY DEF RamSound
  <2>4. QED BY <2>2, <2>3 DEF Keeps
<1>2. QED BY <1>1 DEF RamSound, Keeps

LEMMA RamPlacedSound ==
  ASSUME NEW p \in Partition, Len(p.outs) = Normal(p) * W, NEW f \in Part, Sound(p, f),
         NEW n \in RamEnds(p)
  PROVE  LET g == RamPlaced(p, f, n)
         IN  /\ g \in Part /\ Sound(p, g) /\ RamSound(p, g, n)
             /\ g.stateStart = f.stateStart /\ g.sramStart = f.sramStart /\ g.pos = f.pos
             /\ \A m \in RamEnds(p) : m # n /\ RamSound(p, f, m) => RamSound(p, g, m)
<1> DEFINE e == p.ends[n]
           c == [b \in ReadClk(p, n) |-> [en |-> e.en, inv |-> 0]]
           q == [b \in PortBits(p, n) |-> e.ports[b - PortBase(p, n)]]
           g == RamPlaced(p, f, n)
<1>1. e \in Memory BY EndTypes DEF RamEnds
<1>2. e.en \in Lit /\ e.ports \in [RamPort -> Lit] BY <1>1 DEF Memory
<1>3. g = [f EXCEPT !.clk = With(f.clk, c), !.port = With(f.port, q)] BY DEF RamPlaced, Part
<1>4. /\ g.clk = With(f.clk, c) /\ g.port = With(f.port, q) /\ g.pos = f.pos /\ g.copy = f.copy
      /\ g.cnt = f.cnt /\ g.stateStart = f.stateStart /\ g.sramStart = f.sramStart
  BY <1>3 DEF Part
<1>5. ReadClk(p, n) \in SUBSET Bit /\ \A b \in ReadClk(p, n) : b >= TopBit(p)
  BY RamPlace DEF ReadClk, ReadBits, Bit
<1>6. PortBits(p, n) \in SUBSET Bit /\ \A b \in PortBits(p, n) : b < Srams(p) * (4 * W)
  BY RamPlace DEF PortBits, Bit
<1>7. \A i \in RamPort : PortBase(p, n) + i \in PortBits(p, n)
        /\ q[PortBase(p, n) + i] = e.ports[i]
  <2> SUFFICES ASSUME NEW i \in RamPort
               PROVE  PortBase(p, n) + i \in PortBits(p, n) /\ q[PortBase(p, n) + i] = e.ports[i]
    OBVIOUS
  <2>1. PortBase(p, n) \in Int /\ i \in Int BY RamNumbered, SizeAssumption DEF PortBase
  <2>2. (PortBase(p, n) + i) - PortBase(p, n) = i BY <2>1
  <2>3. PortBase(p, n) + i \in PortBits(p, n) BY DEF PortBits
  <2>4. QED BY <2>2, <2>3
<1>8. c \in Partial(Bit, Switch)
  <2>1. [en |-> e.en, inv |-> 0] \in Switch BY <1>2 DEF Switch
  <2>2. c \in [ReadClk(p, n) -> Switch] BY <2>1
  <2>3. QED BY <1>5, <2>2 DEF Partial
<1>9. q \in Partial(Bit, Lit)
  <2>1. ASSUME NEW b \in PortBits(p, n) PROVE q[b] \in Lit
    <3>1. PICK i \in RamPort : b = PortBase(p, n) + i BY DEF PortBits
    <3>2. q[b] = e.ports[i] BY <1>7, <3>1
    <3>3. QED BY <1>2, <3>2
  <2>2. q \in [PortBits(p, n) -> Lit] BY <2>1
  <2>3. QED BY <1>6, <2>2 DEF Partial
<1>10. DOMAIN c = ReadClk(p, n) /\ DOMAIN q = PortBits(p, n)
       /\ \A b \in ReadClk(p, n) : c[b] = [en |-> e.en, inv |-> 0]
  OBVIOUS
<1> HIDE DEF g, c, q
<1>11. DOMAIN g.clk = DOMAIN f.clk \cup ReadClk(p, n)
  <2>1. DOMAIN With(f.clk, c) = DOMAIN f.clk \cup DOMAIN c BY WithDomain
  <2>2. g.clk = With(f.clk, c) BY <1>4
  <2>3. QED BY <1>10, <2>1, <2>2
<1>12. DOMAIN g.port = DOMAIN f.port \cup PortBits(p, n)
  <2>1. DOMAIN With(f.port, q) = DOMAIN f.port \cup DOMAIN q BY WithDomain
  <2>2. g.port = With(f.port, q) BY <1>4
  <2>3. QED BY <1>10, <2>1, <2>2
<1>13. \A b \in ReadClk(p, n) : g.clk[b] = [en |-> e.en, inv |-> 0]
  <2>1. \A b \in DOMAIN c : With(f.clk, c)[b] = c[b] BY WithNew
  <2>2. QED BY <1>4, <1>10, <2>1
<1>14. \A b \in DOMAIN f.clk : b \notin ReadClk(p, n) => g.clk[b] = f.clk[b]
  <2>1. \A b \in DOMAIN f.clk : b \notin DOMAIN c => With(f.clk, c)[b] = f.clk[b] BY WithOld
  <2>2. QED BY <1>4, <1>10, <2>1
<1>15. \A i \in RamPort : g.port[PortBase(p, n) + i] = e.ports[i]
  <2>1. \A b \in DOMAIN q : With(f.port, q)[b] = q[b] BY WithNew
  <2>2. QED BY <1>4, <1>7, <1>10, <2>1
<1>16. \A b \in DOMAIN f.port : b \notin PortBits(p, n) => g.port[b] = f.port[b]
  <2>1. \A b \in DOMAIN f.port : b \notin DOMAIN q => With(f.port, q)[b] = f.port[b] BY WithOld
  <2>2. QED BY <1>4, <1>10, <2>1
<1>17. g \in Part
  <2>1. f.clk \in Partial(Bit, Switch) /\ f.port \in Partial(Bit, Lit) BY DEF Part
  <2>2. g.clk \in Partial(Bit, Switch) BY <1>4, <1>8, <2>1, WithPartial
  <2>3. g.port \in Partial(Bit, Lit) BY <1>4, <1>9, <2>1, WithPartial
  <2>4. QED BY <1>3, <1>4, <2>2, <2>3 DEF Part
<1>18. ASSUME NEW x \in DOMAIN f.pos
       PROVE  f.pos[x] \in DOMAIN g.clk /\ g.clk[f.pos[x]] = f.clk[f.pos[x]]
  <2>1. f.pos[x] \in 0 .. Normal(p) * W - 1 \/ f.pos[x] \in Normal(p) * W .. TopBit(p) - 1
    BY SoundPlaces DEF TopBit
  <2>2. f.pos[x] \in Int /\ f.pos[x] < TopBit(p)
    <3>1. Normal(p) \in Nat /\ W \in Nat /\ Dups(p) \in Nat BY NormalNat, KeysFinite
    <3>2. TopBit(p) = Normal(p) * W + Dups(p) * W BY <3>1, Distributes DEF TopBit
    <3>3. Normal(p) * W \in Nat /\ Dups(p) * W \in Nat BY <3>1
    <3>4. QED BY <2>1, <3>2, <3>3
  <2>3. TopBit(p) \in Int
    <3>1. Normal(p) \in Nat /\ W \in Nat /\ Dups(p) \in Nat BY NormalNat, KeysFinite
    <3>2. QED BY <3>1 DEF TopBit
  <2>4. f.pos[x] \notin ReadClk(p, n)
    <3>1. \A b \in ReadClk(p, n) : b \in Int /\ b >= TopBit(p) BY <1>5 DEF Bit
    <3>2. QED BY <2>2, <2>3, <3>1
  <2>5. f.pos[x] \in DOMAIN f.clk BY DEF Sound
  <2>6. QED BY <1>11, <1>14, <2>4, <2>5
<1>19. Sound(p, g)
  <2>1. Later(p, g) = Later(p, f) BY <1>4 DEF Later
  <2>2. \A b \in DOMAIN g.port : b < Srams(p) * (4 * W) BY <1>6, <1>12 DEF Sound
  <2>3. \A x \in DOMAIN f.pos :
          f.pos[x] \in DOMAIN g.clk /\ g.clk[f.pos[x]] = [en |-> x[2][1], inv |-> x[2][2]]
    BY <1>18 DEF Sound
  <2>4. QED BY <1>4, <2>1, <2>2, <2>3 DEF Sound
<1>20. RamSound(p, g, n)
  BY <1>7, <1>11, <1>12, <1>13, <1>15 DEF RamSound
<1>21. ASSUME NEW m \in RamEnds(p), m # n, RamSound(p, f, m) PROVE RamSound(p, g, m)
  <2>1. ASSUME NEW b \in ReadClk(p, m)
        PROVE  b \in DOMAIN g.clk /\ g.clk[b] = [en |-> p.ends[m].en, inv |-> 0]
    <3>1. b \in DOMAIN f.clk /\ f.clk[b] = [en |-> p.ends[m].en, inv |-> 0] BY <1>21 DEF RamSound
    <3>2. b \notin ReadClk(p, n) BY <1>21, RamsApart DEF ReadClk, ReadBits
    <3>3. QED BY <1>11, <1>14, <3>1, <3>2
  <2>2. ASSUME NEW i \in RamPort
        PROVE  PortBase(p, m) + i \in DOMAIN g.port /\ g.port[PortBase(p, m) + i] = p.ends[m].ports[i]
    <3>1. PortBase(p, m) + i \in DOMAIN f.port /\ f.port[PortBase(p, m) + i] = p.ends[m].ports[i]
      BY <1>21 DEF RamSound
    <3>2. PortBase(p, m) + i \notin PortBits(p, n) BY <1>21, RamsApart DEF PortBits
    <3>3. QED BY <1>12, <1>16, <3>1, <3>2
  <2>3. QED BY <2>1, <2>2 DEF RamSound
<1>22. QED BY <1>4, <1>17, <1>19, <1>20, <1>21 DEF g

----------------------------------------------------------------------------
(* The circuit and the loop's position in it.                              *)
LEMMA PartTypes ==
  ASSUME stages \in Circuits, NEW k \in AllParts
  PROVE  /\ PartOf(k) \in Partition /\ Len(PartOf(k).outs) = Normal(PartOf(k)) * W
         /\ k[1] \in DOMAIN stages /\ k[2] \in DOMAIN stages[k[1]] /\ k = <<k[1], k[2]>>
         /\ k[1] \in Nat /\ k[2] \in Nat
<1>1. stages \in Seq(Seq(Partition)) BY CircuitAssumption
<1>2. PICK s \in DOMAIN stages : k \in {s} \X (DOMAIN stages[s]) BY DEF AllParts, PartsOf
<1>3. k[1] = s /\ k[2] \in DOMAIN stages[s] /\ k = <<k[1], k[2]>> BY <1>2
<1>4. stages[s] \in Seq(Partition) BY <1>1, <1>2
<1>5. stages[k[1]][k[2]] \in Partition BY <1>3, <1>4
<1>6. Len(stages[k[1]][k[2]].outs) = Normal(stages[k[1]][k[2]]) * W
  BY CircuitAssumption DEF AllParts
<1>7. s \in Nat /\ k[2] \in Nat BY <1>1, <1>2, <1>3, <1>4
<1>8. QED BY <1>2, <1>3, <1>5, <1>6, <1>7 DEF PartOf, Parts

LEMMA PartPlaces ==
  ASSUME NEW s \in DOMAIN stages, NEW q \in DOMAIN stages[s]
  PROVE  <<s, q>> \in AllParts
BY DEF AllParts, PartsOf

LEMMA StagesTypes ==
  ASSUME stages \in Circuits, NEW s \in DOMAIN stages
  PROVE  /\ Len(stages) \in Nat /\ DOMAIN stages = 1 .. Len(stages) /\ s \in Nat
         /\ Len(stages[s]) \in Nat /\ DOMAIN stages[s] = 1 .. Len(stages[s])
         /\ stages[s] \in Seq(Partition)
<1>1. stages \in Seq(Seq(Partition)) BY CircuitAssumption
<1>2. QED BY <1>1

LEMMA CurIsPart ==
  ASSUME TypeOK, part <= Len(Parts(stage))
  PROVE  /\ Here \in AllParts /\ Cur = PartOf(Here) /\ Here[1] = stage /\ Here[2] = part
         /\ Cur \in Partition /\ Len(Cur.outs) = Normal(Cur) * W
<1>1. stage \in DOMAIN stages /\ stages \in Circuits BY DEF TypeOK, LoopOK
<1>2. part \in DOMAIN stages[stage] BY <1>1, StagesTypes DEF TypeOK, LoopOK, Parts
<1>3. Here \in AllParts BY <1>1, <1>2, PartPlaces DEF Here
<1>4. Cur = PartOf(Here) BY DEF Cur, PartOf, Here
<1>5. QED BY <1>1, <1>3, <1>4, PartTypes DEF Here

LEMMA StagesKept ==
  ASSUME Next
  PROVE  stages' = stages
BY DEF Next, LayPart, FinishMasonry, Allocate, NextBlock, FinishAllocation, PlaceOutput,
       PlaceStaged, PlaceRegister, IgnoreZeroRegister, PlaceRam, Advance, FinishPart, FinishStage,
       BuildPart, Assemble, Panic, Done, vars

LEMMA SameParts ==
  ASSUME stages' = stages
  PROVE  /\ AllParts' = AllParts /\ \A k : PartOf(k)' = PartOf(k) /\ Ends(k)' = Ends(k)
BY DEF AllParts, PartOf, Parts, Ends

(* An endpoint stored: the record of this part is sound and keeps what it  *)
(* had, no other one changes.                                              *)
Storing ==
  /\ phase = "place" /\ part <= Len(Parts(stage)) /\ endpt <= Len(Cur.ends)
  /\ CanPlace(Cur, Endpoint) /\ Endpoint.kind # "RAM" /\ ~ZeroRegister(Endpoint)
  /\ Store(Endpoint)

LEMMA Positions ==
  ASSUME TypeOK, LaidInv, PosInv, phase = "place", part <= Len(Parts(stage)), endpt <= Len(Cur.ends)
  PROVE  /\ Here \in DOMAIN flat /\ flat[Here] \in Part /\ Sound(Cur, flat[Here])
         /\ endpt \in DOMAIN Cur.ends /\ endpt \in Nat /\ Flat = flat[Here]
         /\ DOMAIN flat \subseteq AllParts /\ flat \in [DOMAIN flat -> Part]
<1>1. Here \in AllParts /\ Cur = PartOf(Here) /\ Here[1] = stage /\ Cur \in Partition BY CurIsPart
<1>2. Here \in DOMAIN flat BY <1>1 DEF LaidInv, HasRanges
<1>3. DOMAIN flat \subseteq AllParts /\ flat \in [DOMAIN flat -> Part] BY PartialIs DEF TypeOK, DataOK
<1>4. Sound(Cur, flat[Here]) BY <1>1, <1>2 DEF PosInv
<1>5. endpt \in DOMAIN Cur.ends /\ endpt \in Nat BY <1>1 DEF TypeOK, LoopOK, Partition
<1>6. QED BY <1>2, <1>3, <1>4, <1>5 DEF Flat

LEMMA StoreStep ==
  ASSUME TypeOK, LaidInv, PosInv, Storing
  PROVE  /\ endpt \in StoredEnds(Cur) /\ Key(Endpoint) \in AnyKey
         /\ flat' \in Partial(AllParts, Part) /\ DOMAIN flat' = DOMAIN flat /\ Here \in DOMAIN flat
         /\ Sound(Cur, flat'[Here]) /\ Keeps(Cur, flat[Here], flat'[Here])
         /\ Key(Endpoint) \in DOMAIN flat'[Here].pos
         /\ \A k \in DOMAIN flat : k # Here => flat'[k] = flat[k]
         /\ Target(Endpoint) = Global(flat'[Here], BitOf(flat'[Here], Endpoint))
         /\ Target(Endpoint) \in Bit
<1> DEFINE g == Placed(Cur, flat[Here], Endpoint)
<1>1. /\ Here \in DOMAIN flat /\ flat[Here] \in Part /\ Sound(Cur, flat[Here])
      /\ endpt \in DOMAIN Cur.ends /\ Flat = flat[Here]
      /\ DOMAIN flat \subseteq AllParts /\ flat \in [DOMAIN flat -> Part]
  BY Positions DEF Storing
<1>2. Cur \in Partition /\ Len(Cur.outs) = Normal(Cur) * W BY CurIsPart DEF Storing
<1>3. endpt \in StoredEnds(Cur) /\ Endpoint = Cur.ends[endpt]
  BY <1>1 DEF Storing, StoredEnds, Endpoint
<1>4. Endpoint.d[1] \in Elements(Cur.outs) BY DEF Storing, CanPlace
<1>5. g \in Part /\ Sound(Cur, g) /\ Keeps(Cur, flat[Here], g) /\ Key(Endpoint) \in DOMAIN g.pos
  BY <1>1, <1>2, <1>3, <1>4, PlacedSound
<1>6. flat' = [flat EXCEPT ![Here] = g] BY DEF Storing, Store
<1> HIDE DEF g
<1>7. flat' \in [DOMAIN flat -> Part] /\ flat'[Here] = g /\ \A k \in DOMAIN flat : k # Here => flat'[k] = flat[k]
  BY <1>1, <1>5, <1>6
<1>8. flat' \in Partial(AllParts, Part) BY <1>1, <1>7 DEF Partial
<1>9. Target(Endpoint) = Global(g, BitOf(g, Endpoint))
  BY <1>1, <1>5 DEF Target, Global, Keeps, g
<1>10. g.pos[Key(Endpoint)] \in Int
  <2>1. g.pos \in Partial(AnyKey, Bit) BY <1>5 DEF Part
  <2>2. g.pos \in [DOMAIN g.pos -> Bit] BY <2>1, PartialIs
  <2>3. QED BY <1>5, <2>2 DEF Bit
<1>11. Target(Endpoint) \in Bit
  <2>1. g.stateStart \in Nat /\ W \in Nat BY <1>5, SizeAssumption DEF Part
  <2>2. QED BY <1>9, <1>10, <2>1 DEF Global, BitOf, Bit
<1>12. Key(Endpoint) \in AnyKey BY <1>2, <1>3, StoredTypes
<1>13. QED BY <1>1, <1>3, <1>5, <1>7, <1>8, <1>9, <1>11, <1>12

LEMMA RamStep ==
  ASSUME TypeOK, LaidInv, PosInv, PlaceRam
  PROVE  /\ endpt \in RamEnds(Cur) /\ Endpoint \in Memory
         /\ flat' \in Partial(AllParts, Part) /\ DOMAIN flat' = DOMAIN flat /\ Here \in DOMAIN flat
         /\ Sound(Cur, flat'[Here]) /\ RamSound(Cur, flat'[Here], endpt)
         /\ flat'[Here].stateStart = flat[Here].stateStart
         /\ flat'[Here].sramStart = flat[Here].sramStart
         /\ flat'[Here].pos = flat[Here].pos
         /\ \A m \in RamEnds(Cur) : m # endpt /\ RamSound(Cur, flat[Here], m) => RamSound(Cur, flat'[Here], m)
         /\ \A k \in DOMAIN flat : k # Here => flat'[k] = flat[k]
<1> DEFINE g == RamPlaced(Cur, flat[Here], endpt)
<1>1. /\ Here \in DOMAIN flat /\ flat[Here] \in Part /\ Sound(Cur, flat[Here])
      /\ endpt \in DOMAIN Cur.ends
      /\ DOMAIN flat \subseteq AllParts /\ flat \in [DOMAIN flat -> Part]
  BY Positions DEF PlaceRam, Placing
<1>2. Cur \in Partition /\ Len(Cur.outs) = Normal(Cur) * W BY CurIsPart DEF PlaceRam, Placing
<1>3. endpt \in RamEnds(Cur) /\ Endpoint = Cur.ends[endpt] /\ Endpoint.kind = "RAM"
  BY <1>1 DEF PlaceRam, Placing, RamEnds, Endpoint
<1>4. /\ g \in Part /\ Sound(Cur, g) /\ RamSound(Cur, g, endpt)
      /\ g.stateStart = flat[Here].stateStart /\ g.sramStart = flat[Here].sramStart
      /\ g.pos = flat[Here].pos
      /\ \A m \in RamEnds(Cur) : m # endpt /\ RamSound(Cur, flat[Here], m) => RamSound(Cur, g, m)
  BY <1>1, <1>2, <1>3, RamPlacedSound
<1>5. flat' = [flat EXCEPT ![Here] = g] BY DEF PlaceRam
<1> HIDE DEF g
<1>6. flat' \in [DOMAIN flat -> Part] /\ flat'[Here] = g /\ \A k \in DOMAIN flat : k # Here => flat'[k] = flat[k]
  BY <1>1, <1>4, <1>5
<1>7. flat' \in Partial(AllParts, Part) BY <1>1, <1>6 DEF Partial
<1>8. Endpoint \in Memory BY <1>1, <1>2, <1>3, EndTypes
<1>9. QED BY <1>1, <1>3, <1>4, <1>6, <1>7, <1>8

----------------------------------------------------------------------------
(* Types.                                                                  *)
LEMMA EmptyPartial ==
  ASSUME NEW S, NEW T
  PROVE  Empty \in Partial(S, T) /\ DOMAIN Empty = {}
<1>1. Empty \in [{} -> T] /\ {} \in SUBSET S BY DEF Empty
<1>2. QED BY <1>1 DEF Partial, Empty

LEMMA ReadAtBit ==
  ASSUME NEW p \in Partition, NEW f \in Part, NEW n \in RamEnds(p), NEW x \in Driven(p.ends[n])
  PROVE  ReadAt(p, f, n, x) \in Bit /\ x \in Pin
         /\ BitFor(p.ends[n], x) \in ReadBits(p.ends[n]) /\ p.ends[n].rd[BitFor(p.ends[n], x)] = x
<1>1. p.ends[n] \in Memory /\ p.ends[n].kind = "RAM" BY EndTypes DEF RamEnds
<1>2. PICK k \in ReadBits(p.ends[n]) : x = p.ends[n].rd[k] BY <1>1 DEF Driven
<1>3. BitFor(p.ends[n], x) \in ReadBits(p.ends[n]) /\ p.ends[n].rd[BitFor(p.ends[n], x)] = x
  BY <1>2 DEF BitFor
<1>4. x \in Pin BY <1>1, <1>2 DEF Memory, ReadBits
<1>5. ReadAt(p, f, n, x) \in Bit
  <2>1. ReadWord(p, n) * W + BitFor(p.ends[n], x) \in Nat BY <1>3, RamPlace DEF ReadBits
  <2>2. f.stateStart \in Nat /\ W \in Nat BY SizeAssumption DEF Part
  <2>3. f.stateStart * W \in Nat BY <2>2
  <2>4. QED BY <2>1, <2>3 DEF ReadAt, Global, Bit
<1>6. QED BY <1>3, <1>4, <1>5

LEMMA LayoutTypes ==
  /\ Layout \in Seq(Pin \cup {NoPin}) /\ Len(Layout) \in Nat
  /\ \A x \in Elements(Layout) : LastPlace(Layout, x) \in DOMAIN Layout
       /\ Layout[LastPlace(Layout, x)] = x
  /\ Elements(Layout) \ {NoPin} \subseteq Pin
<1>1. Layout \in Seq(Pin \cup {NoPin}) BY SizeAssumption
<1>2. QED BY <1>1, LastPlaceIs DEF Elements

LEMMA TypeInit ==
  ASSUME Init
  PROVE  TypeOK
<1>1. LoopOK
  <2>1. stages \in Circuits /\ stages # <<>> BY CircuitAssumption DEF Init
  <2>2. stage \in DOMAIN stages
    <3>1. stages \in Seq(Seq(Partition)) BY <2>1, CircuitAssumption
    <3>2. QED BY <2>1, <3>1 DEF Init
  <2>3. Len(stages[stage]) \in Nat BY <2>1, <2>2, StagesTypes
  <2>4. QED BY <2>1, <2>2, <2>3, SizeAssumption DEF Init, LoopOK
<1>2. BlocksOK BY DEF Init, BlocksOK
<1>3. DataOK
  <2>1. inputMap \in Partial(Pin, Bit)
    <3>1. inputMap \in [Elements(Layout) \ {NoPin} -> Bit]
      BY LayoutTypes DEF Init, Bit
    <3>2. QED BY <3>1, LayoutTypes DEF Partial
  <2>2. stateSum \in Nat BY LayoutTypes, WordsHold DEF Init
  <2>3. QED BY <2>1, <2>2, EmptyPartial DEF Init, DataOK
<1>4. QED BY <1>1, <1>2, <1>3 DEF TypeOK

LEMMA LoopStep ==
  ASSUME TypeOK, Next
  PROVE  LoopOK'
<1>1. stages' = stages /\ stages \in Circuits BY StagesKept DEF TypeOK, LoopOK
<1>2. /\ stage \in 1 .. Len(stages) /\ Len(stages) \in Nat /\ stage \in Nat
      /\ Len(stages[stage]) \in Nat /\ DOMAIN stages = 1 .. Len(stages)
      /\ part \in 1 .. Len(stages[stage]) + 1
      /\ endpt \in Nat \ {0} /\ block \in 1 .. NumBlocks + 1 /\ slot \in Nat \ {0}
      /\ phase \in {"masonry", "allocate", "place", "build", "done", "panic"}
      /\ NumBlocks \in Nat \ {0}
  BY <1>1, StagesTypes, SizeAssumption DEF TypeOK, LoopOK
<1>3. \A s \in DOMAIN stages : 1 \in 1 .. Len(stages[s]) + 1 BY <1>1, StagesTypes
<1> USE DEF LoopOK, layout, maps, built
<1>4. CASE LayPart BY <1>1, <1>2, <1>4 DEF LayPart, Parts
<1>5. CASE FinishMasonry BY <1>1, <1>2, <1>5 DEF FinishMasonry
<1>6. CASE Allocate BY <1>1, <1>2, <1>6 DEF Allocate
<1>7. CASE NextBlock BY <1>1, <1>2, <1>7 DEF NextBlock
<1>8. CASE FinishAllocation BY <1>1, <1>2, <1>8 DEF FinishAllocation
<1>9. CASE PlaceOutput BY <1>1, <1>2, <1>9 DEF PlaceOutput, Advance
<1>10. CASE PlaceStaged BY <1>1, <1>2, <1>10 DEF PlaceStaged, Advance
<1>11. CASE PlaceRegister BY <1>1, <1>2, <1>11 DEF PlaceRegister, Advance
<1>12. CASE IgnoreZeroRegister BY <1>1, <1>2, <1>12 DEF IgnoreZeroRegister, Advance
<1>13. CASE PlaceRam BY <1>1, <1>2, <1>13 DEF PlaceRam, Advance
<1>14. CASE FinishPart BY <1>1, <1>2, <1>14 DEF FinishPart, Parts
<1>15. CASE FinishStage BY <1>1, <1>2, <1>3, <1>15 DEF FinishStage
<1>16. CASE BuildPart BY <1>1, <1>2, <1>16 DEF BuildPart, Parts
<1>17. CASE Assemble BY <1>1, <1>2, <1>3, <1>17 DEF Assemble
<1>18. CASE Panic BY <1>1, <1>2, <1>18 DEF Panic
<1>19. CASE Done BY <1>1, <1>2, <1>19 DEF Done, vars
<1>20. QED
  BY <1>4, <1>5, <1>6, <1>7, <1>8, <1>9, <1>10, <1>11, <1>12, <1>13, <1>14, <1>15, <1>16,
     <1>17, <1>18, <1>19 DEF Next

LEMMA BlocksStep ==
  ASSUME TypeOK, Next
  PROVE  BlocksOK'
<1>1. stages' = stages /\ AllParts' = AllParts BY StagesKept, SameParts
<1>2. CASE LayPart
  <2>1. part \in Nat /\ Here \in AllParts /\ Cur \in Partition
    <3>1. part <= Len(Parts(stage)) BY <1>2 DEF LayPart
    <3>2. Here \in AllParts /\ Cur \in Partition BY <3>1, CurIsPart
    <3>3. QED BY <3>2 DEF TypeOK, LoopOK
  <2>2. Cost(Cur) \in Nat BY <2>1 DEF Cost, Partition
  <2>3. PICK b \in Block : /\ blocks' = [blocks EXCEPT ![<<stage, b>>] = Append(@, part)]
                           /\ load' = [load EXCEPT ![b] = @ + Cost(Cur)]
    BY <1>2 DEF LayPart
  <2>4. load' \in [Block -> Nat] BY <2>2, <2>3 DEF TypeOK, BlocksOK
  <2>5. <<stage, b>> \in DOMAIN blocks /\ blocks[<<stage, b>>] \in Seq(Nat)
    BY DEF TypeOK, BlocksOK, LoopOK
  <2>6. Append(blocks[<<stage, b>>], part) \in Seq(Nat) BY <2>1, <2>5
  <2>7. blocks' \in [(DOMAIN stages) \X Block -> Seq(Nat)]
    BY <2>3, <2>6 DEF TypeOK, BlocksOK
  <2>8. ASSUME NEW k \in DOMAIN blocks', NEW i \in DOMAIN blocks'[k]
        PROVE  <<k[1], blocks'[k][i]>> \in AllParts
    <3>1. k \in DOMAIN blocks BY <2>7 DEF TypeOK, BlocksOK
    <3>2. CASE k # <<stage, b>> BY <2>3, <2>8, <3>1, <3>2 DEF TypeOK, BlocksOK
    <3>3. CASE k = <<stage, b>>
      <4>1. blocks'[k] = Append(blocks[k], part) BY <2>3, <2>5, <3>3
      <4>2. CASE i \in DOMAIN blocks[k]
        <5>1. blocks'[k][i] = blocks[k][i] BY <2>5, <3>3, <4>1, <4>2
        <5>2. QED BY <3>1, <4>2, <5>1 DEF TypeOK, BlocksOK
      <4>3. CASE i \notin DOMAIN blocks[k]
        <5>1. blocks'[k][i] = part BY <2>5, <3>3, <4>1, <4>3
        <5>2. QED BY <2>1, <3>3, <5>1 DEF Here
      <4>4. QED BY <4>2, <4>3
    <3>4. QED BY <3>2, <3>3
  <2>9. QED BY <1>1, <2>4, <2>7, <2>8 DEF BlocksOK
<1>3. CASE FinishStage
  <2>1. load' \in [Block -> Nat] /\ blocks' = blocks BY <1>3 DEF FinishStage, TypeOK, BlocksOK
  <2>2. QED BY <1>1, <2>1 DEF TypeOK, BlocksOK
<1>4. CASE ~LayPart /\ ~FinishStage
  <2>1. load' = load /\ blocks' = blocks
    BY <1>4 DEF Next, FinishMasonry, Allocate, NextBlock, FinishAllocation, PlaceOutput,
       PlaceStaged, PlaceRegister, IgnoreZeroRegister, PlaceRam, Advance, FinishPart,
       BuildPart, Assemble, Panic, Done, vars, layout
  <2>2. QED BY <1>1, <2>1 DEF TypeOK, BlocksOK
<1>5. QED BY <1>2, <1>3, <1>4

LEMMA WriteoutsNat ==
  ASSUME NEW p \in Partition
  PROVE  Writeouts(p) \in Nat /\ Srams(p) \in Nat /\ SramSize * Srams(p) \in Nat
<1>1. Normal(p) \in Nat /\ Dups(p) \in Nat /\ Srams(p) \in Nat
  BY NormalNat, KeysFinite, SramsNat
<1>2. SramSize \in Nat BY SizeAssumption
<1>3. QED BY <1>1, <1>2 DEF Writeouts

LEMMA SlotIsPart ==
  ASSUME TypeOK, Allocate
  PROVE  /\ <<stage, Slots[slot]>> \in AllParts /\ Slots[slot] \in Nat
         /\ PartOf(<<stage, Slots[slot]>>) = Parts(stage)[Slots[slot]]
         /\ block \in Block /\ slot \in DOMAIN Slots
         /\ PartOf(<<stage, Slots[slot]>>) \in Partition
<1>1. block \in Block BY DEF Allocate, TypeOK, LoopOK, Block
<1>2. <<stage, block>> \in DOMAIN blocks /\ Slots \in Seq(Nat)
  BY <1>1 DEF TypeOK, LoopOK, BlocksOK, Slots
<1>3. slot \in DOMAIN Slots BY <1>2 DEF Allocate, TypeOK, LoopOK
<1>4. <<stage, Slots[slot]>> \in AllParts
  BY <1>2, <1>3 DEF TypeOK, BlocksOK, Slots
<1>5. QED BY <1>1, <1>2, <1>3, <1>4, PartTypes DEF PartOf, TypeOK, LoopOK

LEMMA NewPartTypes ==
  ASSUME TypeOK
  PROVE  NewPart \in Part
BY EmptyPartial DEF NewPart, Part, TypeOK, DataOK

LEMMA AllocateStep ==
  ASSUME TypeOK, Allocate
  PROVE  LET k == <<stage, Slots[slot]>>
         IN  /\ flat' \in Partial(AllParts, Part) /\ DOMAIN flat' = DOMAIN flat \cup {k}
             /\ flat'[k] = NewPart
             /\ \A l \in DOMAIN flat : l # k => flat'[l] = flat[l]
<1> DEFINE k == <<stage, Slots[slot]>>
<1>1. flat' = Insert(flat, k, NewPart) BY DEF Allocate
<1>2. k \in AllParts BY SlotIsPart
<1>3. flat \in Partial(AllParts, Part) /\ NewPart \in Part BY NewPartTypes DEF TypeOK, DataOK
<1> HIDE DEF k
<1>4. flat' \in Partial(AllParts, Part) BY <1>1, <1>2, <1>3, InsertPartial
<1>5. DOMAIN Insert(flat, k, NewPart) = DOMAIN flat \cup {k} BY InsertDomain
<1>6. flat'[k] = NewPart BY <1>1, InsertHere
<1>7. \A l \in DOMAIN flat : l # k => flat'[l] = flat[l] BY <1>1, InsertElse
<1>8. DOMAIN flat' = DOMAIN flat \cup {k} BY <1>1, <1>5
<1>9. QED BY <1>4, <1>6, <1>7, <1>8 DEF k

LEMMA EndpointTypes ==
  ASSUME TypeOK, LaidInv, PosInv, NEW kind, Placing(kind)
  PROVE  /\ Endpoint.kind = kind /\ CanPlace(Cur, Endpoint) /\ phase = "place"
         /\ kind = "PO" => Endpoint.d \in Lit
         /\ kind = "Staged" => Endpoint.d[1] \in Pin /\ Endpoint.d \in Lit
         /\ kind = "DFF" => Endpoint.d \in Lit /\ Endpoint.q \in Pin
         /\ kind = "RAM" => Endpoint \in Memory
<1>1. endpt \in DOMAIN Cur.ends BY Positions DEF Placing
<1>2. Cur \in Partition BY CurIsPart DEF Placing
<1>3. Endpoint.kind = kind BY DEF Placing
<1>4. /\ Endpoint.kind = "PO" => Endpoint \in Output
      /\ Endpoint.kind = "Staged" => Endpoint \in StagedPin
      /\ Endpoint.kind = "DFF" => Endpoint \in Register
      /\ Endpoint.kind = "RAM" => Endpoint \in Memory
  BY <1>1, <1>2, EndTypes DEF Endpoint
<1>5. QED BY <1>3, <1>4 DEF Placing, Output, StagedPin, Register, Lit

LEMMA StoringKinds ==
  ASSUME TypeOK, PlaceOutput \/ PlaceStaged \/ PlaceRegister
  PROVE  Storing
<1>1. CASE PlaceOutput BY <1>1 DEF PlaceOutput, Placing, Storing, ZeroRegister
<1>2. CASE PlaceStaged BY <1>2 DEF PlaceStaged, Placing, Storing, ZeroRegister
<1>3. CASE PlaceRegister BY <1>3 DEF PlaceRegister, Placing, Storing
<1>4. QED BY <1>1, <1>2, <1>3

LEMMA DataStep ==
  ASSUME TypeOK, LaidInv, PosInv, Next
  PROVE  DataOK'
<1>1. stages' = stages /\ AllParts' = AllParts BY StagesKept, SameParts
<1>2. DataOK BY DEF TypeOK
<1> USE DEF DataOK
<1>3. CASE Allocate
  <2>1. flat' \in Partial(AllParts, Part) BY <1>3, AllocateStep
  <2>2. Writeouts(Parts(stage)[Slots[slot]]) \in Nat /\ SramSize * Srams(Parts(stage)[Slots[slot]]) \in Nat
    BY <1>3, SlotIsPart, WriteoutsNat
  <2>3. stateSum' \in Nat /\ sramSum' \in Nat BY <1>2, <1>3, <2>2 DEF Allocate, Occupied
  <2>4. UNCHANGED <<inputMap, stagedMap, outputMap, reads>> BY <1>3 DEF Allocate, maps, built
  <2>5. QED BY <1>1, <1>2, <2>1, <2>3, <2>4
<1>4. CASE PlaceOutput
  <2>1. flat' \in Partial(AllParts, Part) /\ Target(Endpoint) \in Bit
    BY <1>4, StoringKinds, StoreStep
  <2>2. Endpoint.d \in Lit BY <1>4, EndpointTypes DEF PlaceOutput
  <2>3. outputMap' \in Partial(Lit, Bit) BY <1>2, <1>4, <2>1, <2>2, InsertPartial DEF PlaceOutput
  <2>4. UNCHANGED <<stateSum, sramSum, inputMap, stagedMap, reads>>
    BY <1>4 DEF PlaceOutput, Advance, built
  <2>5. QED BY <1>1, <1>2, <2>1, <2>3, <2>4
<1>5. CASE PlaceStaged
  <2>1. flat' \in Partial(AllParts, Part) /\ Target(Endpoint) \in Bit
    BY <1>5, StoringKinds, StoreStep
  <2>2. Endpoint.d[1] \in Pin BY <1>5, EndpointTypes DEF PlaceStaged
  <2>3. stagedMap' \in Partial(Pin, Bit) BY <1>2, <1>5, <2>1, <2>2, InsertPartial DEF PlaceStaged
  <2>4. UNCHANGED <<stateSum, sramSum, inputMap, outputMap, reads>>
    BY <1>5 DEF PlaceStaged, Advance, built
  <2>5. QED BY <1>1, <1>2, <2>1, <2>3, <2>4
<1>6. CASE PlaceRegister
  <2>1. flat' \in Partial(AllParts, Part) /\ Target(Endpoint) \in Bit
    BY <1>6, StoringKinds, StoreStep
  <2>2. Endpoint.d \in Lit /\ Endpoint.q \in Pin BY <1>6, EndpointTypes DEF PlaceRegister
  <2>3. outputMap' \in Partial(Lit, Bit) BY <1>2, <1>6, <2>1, <2>2, InsertPartial DEF PlaceRegister
  <2>4. inputMap' \in Partial(Pin, Bit) BY <1>2, <1>6, <2>1, <2>2, InsertPartial DEF PlaceRegister
  <2>5. UNCHANGED <<stateSum, sramSum, stagedMap, reads>>
    BY <1>6 DEF PlaceRegister, Advance, built
  <2>6. QED BY <1>1, <1>2, <2>1, <2>3, <2>4, <2>5
<1>7. CASE IgnoreZeroRegister
  <2>1. Endpoint.q \in Pin BY <1>7, EndpointTypes DEF IgnoreZeroRegister
  <2>2. 0 \in Bit BY DEF Bit
  <2>3. inputMap' \in Partial(Pin, Bit) BY <1>2, <1>7, <2>1, <2>2, InsertPartial DEF IgnoreZeroRegister
  <2>4. UNCHANGED <<flat, stateSum, sramSum, stagedMap, outputMap, reads>>
    BY <1>7 DEF IgnoreZeroRegister, Advance, built
  <2>5. QED BY <1>1, <1>2, <2>3, <2>4
<1>8. CASE PlaceRam
  <2>1. flat' \in Partial(AllParts, Part) /\ Here \in DOMAIN flat /\ endpt \in RamEnds(Cur)
    BY <1>8, RamStep
  <2>2. flat[Here] \in Part /\ Flat = flat[Here] /\ Endpoint = Cur.ends[endpt]
    BY <1>8, Positions DEF PlaceRam, Placing, Endpoint
  <2>3. Cur \in Partition BY <1>8, CurIsPart DEF PlaceRam, Placing
  <2>4. \A x \in Driven(Endpoint) : ReadAt(Cur, Flat, endpt, x) \in Bit /\ x \in Pin
    BY <2>1, <2>2, <2>3, ReadAtBit
  <2> DEFINE m == [x \in Driven(Endpoint) |-> ReadAt(Cur, Flat, endpt, x)]
             o == [x \in Driven(Endpoint) \X {0} |-> ReadAt(Cur, Flat, endpt, x[1])]
  <2>5. m \in Partial(Pin, Bit)
    <3>1. m \in [Driven(Endpoint) -> Bit] /\ Driven(Endpoint) \in SUBSET Pin BY <2>4
    <3>2. QED BY <3>1 DEF Partial
  <2>6. o \in Partial(Lit, Bit)
    <3>1. o \in [Driven(Endpoint) \X {0} -> Bit] BY <2>4
    <3>2. Driven(Endpoint) \X {0} \in SUBSET Lit BY <2>4 DEF Lit
    <3>3. QED BY <3>1, <3>2 DEF Partial
  <2>7. inputMap' = With(inputMap, m) /\ outputMap' = With(outputMap, o) BY <1>8 DEF PlaceRam
  <2> HIDE DEF m, o
  <2>8. inputMap' \in Partial(Pin, Bit) BY <1>2, <2>5, <2>7, WithPartial
  <2>9. outputMap' \in Partial(Lit, Bit) BY <1>2, <2>6, <2>7, WithPartial
  <2>10. UNCHANGED <<stateSum, sramSum, stagedMap, reads>> BY <1>8 DEF PlaceRam, Advance, built
  <2>11. QED BY <1>1, <1>2, <2>1, <2>8, <2>9, <2>10
<1>9. CASE BuildPart
  <2>1. Here \in AllParts /\ Cur \in Partition BY <1>9, CurIsPart DEF BuildPart
  <2>2. inputMap \in [DOMAIN inputMap -> Bit] /\ stagedMap \in [DOMAIN stagedMap -> Bit]
    BY <1>2, PartialIs
  <2>3. \A x \in Cur.ins : Resolved(x) \in Read
    BY <1>9, <2>2 DEF BuildPart, Known, Resolved, Read
  <2> DEFINE r == [x \in Cur.ins |-> Resolved(x)]
  <2>4. r \in Partial(Pin, Read)
    <3>1. r \in [Cur.ins -> Read] /\ Cur.ins \in SUBSET Pin BY <2>1, <2>3 DEF Partition
    <3>2. QED BY <3>1 DEF Partial
  <2>5. reads' = Insert(reads, Here, r) BY <1>9 DEF BuildPart
  <2> HIDE DEF r
  <2>6. reads' \in Partial(AllParts, Partial(Pin, Read)) BY <1>2, <2>1, <2>4, <2>5, InsertPartial
  <2>7. UNCHANGED <<flat, stateSum, sramSum, inputMap, stagedMap, outputMap>>
    BY <1>9 DEF BuildPart, maps
  <2>8. QED BY <1>1, <1>2, <2>6, <2>7
<1>10. CASE UNCHANGED <<flat, stateSum, sramSum, inputMap, stagedMap, outputMap, reads>>
  BY <1>1, <1>2, <1>10
<1>11. LayPart \/ FinishMasonry \/ NextBlock \/ FinishAllocation \/ FinishPart \/ FinishStage
         \/ Assemble \/ Panic \/ Done
       => UNCHANGED <<flat, stateSum, sramSum, inputMap, stagedMap, outputMap, reads>>
  BY DEF LayPart, FinishMasonry, NextBlock, FinishAllocation, FinishPart, FinishStage,
         Assemble, Panic, Done, vars, maps, built
<1>12. QED
  BY <1>3, <1>4, <1>5, <1>6, <1>7, <1>8, <1>9, <1>10, <1>11 DEF Next

----------------------------------------------------------------------------
(* Blocks and ranges.                                                      *)
LEMMA PlaceKeepsDomain ==
  ASSUME TypeOK, LaidInv, PosInv,
         PlaceOutput \/ PlaceStaged \/ PlaceRegister \/ IgnoreZeroRegister \/ PlaceRam
  PROVE  /\ DOMAIN flat' = DOMAIN flat /\ phase = "place" /\ phase' = "place" /\ stage' = stage
         /\ part' = part /\ endpt' = endpt + 1 /\ UNCHANGED <<stages, stateSum, sramSum, reads>>
         /\ part <= Len(Parts(stage)) /\ endpt <= Len(Cur.ends)
         /\ Here \in DOMAIN flat
<1>1. CASE PlaceOutput \/ PlaceStaged \/ PlaceRegister
  <2>1. DOMAIN flat' = DOMAIN flat /\ Here \in DOMAIN flat BY <1>1, StoringKinds, StoreStep
  <2>2. QED BY <1>1, <2>1 DEF PlaceOutput, PlaceStaged, PlaceRegister, Placing, Advance, built
<1>2. CASE IgnoreZeroRegister
  <2>1. Here \in DOMAIN flat BY <1>2, Positions DEF IgnoreZeroRegister, Placing
  <2>2. QED BY <1>2, <2>1 DEF IgnoreZeroRegister, Placing, Advance, built
<1>3. CASE PlaceRam
  <2>1. DOMAIN flat' = DOMAIN flat /\ Here \in DOMAIN flat BY <1>3, RamStep
  <2>2. QED BY <1>3, <2>1 DEF PlaceRam, Placing, Advance, built
<1>4. QED BY <1>1, <1>2, <1>3

LEMMA LaidInit ==
  ASSUME Init
  PROVE  LaidInv
<1>1. TypeOK BY TypeInit
<1>2. \A k \in AllParts : ~ HasRanges(k)
  <2> SUFFICES ASSUME NEW k \in AllParts PROVE ~ HasRanges(k)
    OBVIOUS
  <2>1. k[1] \in DOMAIN stages BY <1>1, PartTypes DEF TypeOK, LoopOK
  <2>2. k[1] \in Nat /\ k[1] >= 1 BY <1>1, <2>1, StagesTypes DEF TypeOK, LoopOK
  <2>3. QED BY <2>2 DEF HasRanges, Init
<1>3. QED BY <1>2 DEF LaidInv, Init

LEMMA LaidStep ==
  ASSUME TypeOK, LaidInv, PosInv, Next
  PROVE  LaidInv'
<1>1. stages' = stages /\ AllParts' = AllParts BY StagesKept, SameParts
<1>2. /\ stage \in DOMAIN stages /\ stage \in Nat /\ Len(stages[stage]) \in Nat
      /\ DOMAIN stages[stage] = 1 .. Len(stages[stage]) /\ part \in 1 .. Len(stages[stage]) + 1
      /\ block \in 1 .. NumBlocks + 1 /\ slot \in Nat \ {0} /\ NumBlocks \in Nat
  BY StagesTypes, SizeAssumption DEF TypeOK, LoopOK
<1>3. \A k \in AllParts : k[1] \in Nat /\ k[1] \in DOMAIN stages /\ k = <<k[1], k[2]>> /\ k[2] \in DOMAIN stages[k[1]]
  BY PartTypes DEF TypeOK, LoopOK
<1>4. CASE LayPart
  <2>1. PICK c \in Block : blocks' = [blocks EXCEPT ![<<stage, c>>] = Append(@, part)]
    BY <1>4 DEF LayPart
  <2>2. \A b \in Block : <<stage, b>> \in DOMAIN blocks /\ blocks[<<stage, b>>] \in Seq(Nat)
    BY DEF TypeOK, BlocksOK, LoopOK
  <2>3. ASSUME NEW q \in 1 .. part PROVE OnBlock(q)'
    <3>1. CASE q = part
      <4>1. blocks'[<<stage, c>>] = Append(blocks[<<stage, c>>], part) BY <2>1, <2>2
      <4>2. Len(blocks[<<stage, c>>]) + 1 \in DOMAIN blocks'[<<stage, c>>]
            /\ blocks'[<<stage, c>>][Len(blocks[<<stage, c>>]) + 1] = part
        BY <2>2, <4>1
      <4>3. stage' = stage BY <1>4 DEF LayPart
      <4>4. QED BY <3>1, <4>2, <4>3 DEF OnBlock
    <3>2. CASE q # part
      <4>1. q \in 1 .. part - 1 BY <1>2, <3>2
      <4>2. PICK b \in Block : \E i \in DOMAIN blocks[<<stage, b>>] : blocks[<<stage, b>>][i] = q
        BY <1>4, <4>1 DEF LaidInv, LayPart, OnBlock
      <4>3. PICK i \in DOMAIN blocks[<<stage, b>>] : blocks[<<stage, b>>][i] = q BY <4>2
      <4>4. i \in DOMAIN blocks'[<<stage, b>>] /\ blocks'[<<stage, b>>][i] = q
        <5>1. CASE b = c
          <6>1. blocks'[<<stage, b>>] = Append(blocks[<<stage, b>>], part) BY <2>1, <2>2, <5>1
          <6>2. QED BY <2>2, <4>3, <6>1
        <5>2. CASE b # c
          <6>1. blocks'[<<stage, b>>] = blocks[<<stage, b>>] BY <2>1, <2>2, <5>2
          <6>2. QED BY <4>3, <6>1
        <5>3. QED BY <5>1, <5>2
      <4>5. stage' = stage BY <1>4 DEF LayPart
      <4>6. QED BY <4>4, <4>5 DEF OnBlock
    <3>3. QED BY <3>1, <3>2
  <2>4. part' - 1 = part BY <1>2, <1>4 DEF LayPart
  <2>5. phase = "masonry" /\ phase' = "masonry" /\ flat' = flat /\ stage' = stage BY <1>4 DEF LayPart
  <2>6. \A k \in AllParts : HasRanges(k)' => k \in DOMAIN flat'
    BY <2>5 DEF LaidInv, HasRanges
  <2>7. QED BY <1>1, <2>3, <2>4, <2>5, <2>6 DEF LaidInv
<1>5. CASE FinishMasonry
  <2>1. part - 1 = Len(stages[stage]) BY <1>2, <1>5 DEF FinishMasonry, Parts
  <2>2. phase = "masonry" /\ phase' = "allocate" /\ flat' = flat /\ stage' = stage
        /\ blocks' = blocks /\ block' = 1 /\ slot' = 1
    BY <1>5 DEF FinishMasonry
  <2>3. \A q \in DOMAIN stages[stage] : OnBlock(q) BY <1>2, <2>1, <2>2 DEF LaidInv
  <2>4. \A q \in DOMAIN stages[stage] : OnBlock(q)' BY <2>2, <2>3 DEF OnBlock
  <2>5. ASSUME NEW b \in Block, NEW i \in DOMAIN blocks[<<stage, b>>]
        PROVE  ~(b < 1 \/ (b = 1 /\ i < 1))
    <3>1. blocks[<<stage, b>>] \in Seq(Nat) BY DEF TypeOK, BlocksOK, LoopOK
    <3>2. i \in Nat /\ i >= 1 BY <3>1
    <3>3. QED BY <3>2 DEF Block
  <2>6. \A k \in AllParts : HasRanges(k)' => k \in DOMAIN flat'
    BY <2>2 DEF LaidInv, HasRanges
  <2>7. QED BY <1>1, <2>2, <2>4, <2>5, <2>6 DEF LaidInv
<1>6. CASE Allocate
  <2> DEFINE k0 == <<stage, Slots[slot]>>
  <2>1. DOMAIN flat' = DOMAIN flat \cup {k0} BY <1>6, AllocateStep
  <2>2. phase = "allocate" /\ phase' = "allocate" /\ stage' = stage /\ blocks' = blocks
        /\ block' = block /\ slot' = slot + 1 /\ Slots = blocks[<<stage, block>>]
    BY <1>6 DEF Allocate, Slots
  <2>3. \A q \in DOMAIN stages[stage] : OnBlock(q)' BY <2>2 DEF OnBlock, LaidInv
  <2>4. ASSUME NEW b \in Block, NEW i \in DOMAIN blocks[<<stage, b>>],
               b < block \/ (b = block /\ i < slot + 1)
        PROVE  <<stage, blocks[<<stage, b>>][i]>> \in DOMAIN flat'
    <3>1. blocks[<<stage, b>>] \in Seq(Nat) BY DEF TypeOK, BlocksOK, LoopOK
    <3>2. i \in Nat BY <3>1
    <3>3. CASE b = block /\ i = slot BY <2>1, <2>2, <3>3
    <3>4. CASE ~(b = block /\ i = slot)
      <4>1. b < block \/ (b = block /\ i < slot) BY <1>2, <2>4, <3>2, <3>4
      <4>2. QED BY <2>1, <2>2, <4>1 DEF LaidInv
    <3>5. QED BY <3>3, <3>4
  <2>5. \A k \in AllParts : HasRanges(k)' => k \in DOMAIN flat'
    BY <2>1, <2>2 DEF LaidInv, HasRanges
  <2>6. QED BY <1>1, <2>2, <2>3, <2>4, <2>5 DEF LaidInv
<1>7. CASE NextBlock
  <2>1. phase = "allocate" /\ phase' = "allocate" /\ stage' = stage /\ blocks' = blocks
        /\ block' = block + 1 /\ slot' = 1 /\ flat' = flat
    BY <1>7 DEF NextBlock
  <2>2. \A q \in DOMAIN stages[stage] : OnBlock(q)' BY <2>1 DEF OnBlock, LaidInv
  <2>3. ASSUME NEW b \in Block, NEW i \in DOMAIN blocks[<<stage, b>>],
               b < block + 1 \/ (b = block + 1 /\ i < 1)
        PROVE  <<stage, blocks[<<stage, b>>][i]>> \in DOMAIN flat
    <3>1. blocks[<<stage, b>>] \in Seq(Nat) BY DEF TypeOK, BlocksOK, LoopOK
    <3>2. i \in 1 .. Len(blocks[<<stage, b>>]) /\ i \in Nat /\ i >= 1 /\ b \in Nat
          /\ Len(blocks[<<stage, b>>]) \in Nat
      BY <3>1 DEF Block
    <3>3. b < block \/ b = block BY <1>2, <2>3, <3>2
    <3>4. b = block => i < slot BY <1>2, <1>7, <3>2 DEF NextBlock, Slots
    <3>5. QED BY <2>1, <3>3, <3>4 DEF LaidInv
  <2>4. \A k \in AllParts : HasRanges(k)' => k \in DOMAIN flat'
    BY <2>1 DEF LaidInv, HasRanges
  <2>5. QED BY <1>1, <2>1, <2>2, <2>3, <2>4 DEF LaidInv
<1>8. CASE FinishAllocation
  <2>1. phase = "allocate" /\ phase' = "place" /\ stage' = stage /\ flat' = flat /\ block > NumBlocks
    BY <1>8 DEF FinishAllocation
  <2>2. ASSUME NEW k \in AllParts, HasRanges(k)' PROVE k \in DOMAIN flat
    <3>1. CASE k[1] < stage BY <3>1 DEF LaidInv, HasRanges
    <3>2. CASE k[1] = stage
      <4>1. OnBlock(k[2]) BY <1>3, <2>1, <3>2 DEF LaidInv
      <4>2. PICK b \in Block : \E i \in DOMAIN blocks[<<stage, b>>] : blocks[<<stage, b>>][i] = k[2]
        BY <4>1 DEF OnBlock
      <4>3. b < block BY <1>2, <2>1 DEF Block
      <4>4. <<stage, k[2]>> \in DOMAIN flat BY <2>1, <4>2, <4>3 DEF LaidInv
      <4>5. QED BY <1>3, <3>2, <4>4
    <3>3. QED BY <2>1, <2>2, <3>1, <3>2 DEF HasRanges
  <2>3. QED BY <1>1, <2>1, <2>2 DEF LaidInv
<1>9. CASE PlaceOutput \/ PlaceStaged \/ PlaceRegister \/ IgnoreZeroRegister \/ PlaceRam
  <2>1. DOMAIN flat' = DOMAIN flat /\ phase = "place" /\ phase' = "place" /\ stage' = stage
    BY <1>9, PlaceKeepsDomain
  <2>2. QED BY <1>1, <2>1 DEF LaidInv, HasRanges
<1>10. CASE FinishPart
  <2>1. flat' = flat /\ phase = "place" /\ phase' = "place" /\ stage' = stage BY <1>10 DEF FinishPart
  <2>2. QED BY <1>1, <2>1 DEF LaidInv, HasRanges
<1>11. CASE FinishStage
  <2>1. flat' = flat /\ phase = "place" BY <1>11 DEF FinishStage
  <2>2. CASE stage < Len(stages)
    <3>1. phase' = "masonry" /\ stage' = stage + 1 /\ part' = 1 BY <1>11, <2>2 DEF FinishStage
    <3>2. \A k \in AllParts : k[1] < stage + 1 => k[1] < stage \/ k[1] = stage BY <1>2, <1>3
    <3>3. QED BY <1>1, <2>1, <3>1, <3>2 DEF LaidInv, HasRanges
  <2>3. CASE ~(stage < Len(stages))
    <3>1. phase' = "build" BY <1>11, <2>3 DEF FinishStage
    <3>2. \A k \in AllParts : k[1] < stage \/ k[1] = stage
      <4>1. stages \in Circuits BY DEF TypeOK, LoopOK
      <4>2. \A k \in AllParts : k[1] \in 1 .. Len(stages) /\ Len(stages) \in Nat BY <1>3, <4>1, StagesTypes
      <4>3. QED BY <1>2, <2>3, <4>2
    <3>3. QED BY <1>1, <2>1, <3>1, <3>2 DEF LaidInv, HasRanges
  <2>4. QED BY <2>2, <2>3
<1>12. CASE BuildPart
  <2>1. flat' = flat /\ phase = "build" /\ phase' = "build" BY <1>12 DEF BuildPart
  <2>2. QED BY <1>1, <2>1 DEF LaidInv, HasRanges
<1>13. CASE Assemble
  <2>1. flat' = flat /\ phase = "build" /\ phase' \in {"build", "done"} BY <1>13 DEF Assemble
  <2>2. QED BY <1>1, <2>1 DEF LaidInv, HasRanges
<1>14. CASE Panic
  <2>1. flat' = flat /\ phase' = "panic" /\ stage' = stage BY <1>14 DEF Panic
  <2>2. QED BY <1>1, <2>1 DEF LaidInv, HasRanges
<1>15. CASE Done
  <2>1. UNCHANGED <<flat, phase, stage, part, blocks, block, slot>> BY <1>15 DEF Done, vars, layout
  <2>2. \A q : OnBlock(q)' = OnBlock(q) BY <2>1 DEF OnBlock
  <2>3. QED BY <1>1, <1>15, <2>1, <2>2 DEF LaidInv, HasRanges, Done
<1>16. QED
  BY <1>4, <1>5, <1>6, <1>7, <1>8, <1>9, <1>10, <1>11, <1>12, <1>13, <1>14, <1>15 DEF Next

LEMMA AllocInit ==
  ASSUME Init
  PROVE  AllocInv /\ PosInv
<1>1. DOMAIN flat = {} BY EmptyPartial DEF Init
<1>2. Words(Len(Layout)) \in Nat BY LayoutTypes, WordsHold
<1>3. QED BY <1>1, <1>2 DEF Init, AllocInv, PosInv

LEMMA AllocStep ==
  ASSUME TypeOK, LaidInv, PosInv, AllocInv, Next
  PROVE  AllocInv'
<1>1. stages' = stages /\ AllParts' = AllParts /\ \A k : PartOf(k)' = PartOf(k)
  BY StagesKept, SameParts
<1>2. \A k \in DOMAIN flat : /\ flat[k].stateStart \in Nat /\ flat[k].sramStart \in Nat
                             /\ StateEnd(k) \in Nat /\ SramEnd(k) \in Nat
  <2> SUFFICES ASSUME NEW k \in DOMAIN flat
               PROVE  /\ flat[k].stateStart \in Nat /\ flat[k].sramStart \in Nat
                      /\ StateEnd(k) \in Nat /\ SramEnd(k) \in Nat
    OBVIOUS
  <2>1. DOMAIN flat \subseteq AllParts /\ flat \in [DOMAIN flat -> Part]
    BY PartialIs DEF TypeOK, DataOK
  <2>2. flat[k] \in Part /\ k \in AllParts BY <2>1
  <2>3. PartOf(k) \in Partition BY <2>2, PartTypes DEF TypeOK, LoopOK
  <2>4. flat[k].stateStart \in Nat /\ flat[k].sramStart \in Nat BY <2>2 DEF Part
  <2>5. QED BY <2>3, <2>4, WriteoutsNat DEF StateEnd, SramEnd
<1>3. CASE Allocate
  <2>0. PICK c : c = <<stage, Slots[slot]>> OBVIOUS
  <2>1. /\ DOMAIN flat' = DOMAIN flat \cup {c} /\ flat'[c] = NewPart
        /\ \A l \in DOMAIN flat : l # c => flat'[l] = flat[l]
    BY <1>3, <2>0, AllocateStep
  <2>2. /\ PartOf(c) = Parts(stage)[Slots[slot]] /\ PartOf(c) \in Partition
    BY <1>3, <2>0, SlotIsPart
  <2>3. /\ stateSum' = stateSum + Writeouts(PartOf(c))
        /\ sramSum' = sramSum + SramSize * Srams(PartOf(c))
    BY <1>3, <2>2 DEF Allocate, Occupied
  <2>4. Writeouts(PartOf(c)) \in Nat /\ SramSize * Srams(PartOf(c)) \in Nat BY <2>2, WriteoutsNat
  <2>5. stateSum \in Nat /\ sramSum \in Nat BY DEF TypeOK, DataOK
  <2>6. flat'[c].stateStart = stateSum /\ flat'[c].sramStart = sramSum BY <2>1 DEF NewPart
  <2>7. StateEnd(c)' = stateSum' /\ SramEnd(c)' = sramSum'
    BY <1>1, <2>3, <2>6 DEF StateEnd, SramEnd
  <2>8. \A l \in DOMAIN flat : l # c => StateEnd(l)' = StateEnd(l) /\ SramEnd(l)' = SramEnd(l)
    BY <1>1, <2>1 DEF StateEnd, SramEnd
  <2>9. Words(Len(Layout)) \in Nat BY LayoutTypes, WordsHold
  <2>10. ASSUME NEW k \in DOMAIN flat'
         PROVE  /\ flat'[k].stateStart >= Words(Len(Layout))
                /\ StateEnd(k)' <= stateSum' /\ SramEnd(k)' <= sramSum'
    <3>1. CASE k = c BY <2>3, <2>4, <2>5, <2>6, <2>7, <2>9, <3>1 DEF AllocInv
    <3>2. CASE k # c
      <4>1. k \in DOMAIN flat /\ flat'[k] = flat[k] BY <2>1, <3>2
      <4>2. QED BY <1>2, <2>3, <2>4, <2>5, <2>8, <3>2, <4>1 DEF AllocInv
    <3>3. QED BY <3>1, <3>2
  <2>11. ASSUME NEW k \in DOMAIN flat', NEW l \in DOMAIN flat', k # l
         PROVE  /\ StateEnd(k)' <= flat'[l].stateStart \/ StateEnd(l)' <= flat'[k].stateStart
                /\ SramEnd(k)' <= flat'[l].sramStart \/ SramEnd(l)' <= flat'[k].sramStart
    <3>1. CASE k = c
      <4>1. l \in DOMAIN flat /\ l # c BY <2>1, <2>11, <3>1
      <4>2. QED BY <2>6, <2>8, <3>1, <4>1 DEF AllocInv
    <3>2. CASE l = c
      <4>1. k \in DOMAIN flat /\ k # c BY <2>1, <2>11, <3>2
      <4>2. QED BY <2>6, <2>8, <3>2, <4>1 DEF AllocInv
    <3>3. CASE k # c /\ l # c
      <4>1. k \in DOMAIN flat /\ l \in DOMAIN flat BY <2>1, <3>3
      <4>2. flat'[k] = flat[k] /\ flat'[l] = flat[l] BY <2>1, <3>3, <4>1
      <4>3. QED BY <2>8, <2>11, <3>3, <4>1, <4>2 DEF AllocInv
    <3>4. QED BY <3>1, <3>2, <3>3
  <2>12. stateSum' >= Words(Len(Layout)) BY <2>3, <2>4, <2>5, <2>9 DEF AllocInv
  <2>13. QED BY <2>10, <2>11, <2>12 DEF AllocInv
<1>4. ASSUME DOMAIN flat' = DOMAIN flat, UNCHANGED <<stateSum, sramSum>>,
             \A k \in DOMAIN flat : /\ flat'[k].stateStart = flat[k].stateStart
                                    /\ flat'[k].sramStart = flat[k].sramStart
      PROVE  AllocInv'
  <2>1. \A k \in DOMAIN flat : StateEnd(k)' = StateEnd(k) /\ SramEnd(k)' = SramEnd(k)
    BY <1>1, <1>4 DEF StateEnd, SramEnd
  <2>2. QED BY <1>4, <2>1 DEF AllocInv
<1>5. CASE PlaceOutput \/ PlaceStaged \/ PlaceRegister
  <2>1. /\ DOMAIN flat' = DOMAIN flat /\ Keeps(Cur, flat[Here], flat'[Here])
        /\ \A k \in DOMAIN flat : k # Here => flat'[k] = flat[k]
    BY <1>5, StoringKinds, StoreStep
  <2>2. UNCHANGED <<stateSum, sramSum>> BY <1>5, PlaceKeepsDomain
  <2>3. QED BY <1>4, <2>1, <2>2 DEF Keeps
<1>6. CASE PlaceRam
  <2>1. /\ DOMAIN flat' = DOMAIN flat
        /\ flat'[Here].stateStart = flat[Here].stateStart /\ flat'[Here].sramStart = flat[Here].sramStart
        /\ \A k \in DOMAIN flat : k # Here => flat'[k] = flat[k]
    BY <1>6, RamStep
  <2>2. UNCHANGED <<stateSum, sramSum>> BY <1>6, PlaceKeepsDomain
  <2>3. QED BY <1>4, <2>1, <2>2
<1>7. CASE UNCHANGED <<flat, stateSum, sramSum>> BY <1>4, <1>7
<1>8. LayPart \/ FinishMasonry \/ NextBlock \/ FinishAllocation \/ IgnoreZeroRegister \/ FinishPart
        \/ FinishStage \/ BuildPart \/ Assemble \/ Panic \/ Done => UNCHANGED <<flat, stateSum, sramSum>>
  BY DEF LayPart, FinishMasonry, NextBlock, FinishAllocation, IgnoreZeroRegister, Advance,
         FinishPart, FinishStage, BuildPart, Assemble, Panic, Done, vars
<1>9. QED BY <1>3, <1>5, <1>6, <1>7, <1>8 DEF Next

LEMMA NewPartSound ==
  ASSUME NEW p
  PROVE  Sound(p, NewPart)
<1>1. /\ DOMAIN NewPart.pos = {} /\ DOMAIN NewPart.copy = {} /\ DOMAIN NewPart.port = {}
      /\ NewPart.cnt = 0
  BY EmptyPartial DEF NewPart
<1>2. Later(p, NewPart) = {} BY <1>1 DEF Later
<1>3. NewPart.cnt = Cardinality(Later(p, NewPart)) BY <1>1, <1>2, FS_EmptySet
<1>4. QED BY <1>1, <1>3 DEF Sound

LEMMA PosStep ==
  ASSUME TypeOK, LaidInv, PosInv, Next
  PROVE  PosInv'
<1>1. stages' = stages /\ \A k : PartOf(k)' = PartOf(k) BY StagesKept, SameParts
<1>2. CASE Allocate
  <2>1. /\ DOMAIN flat' = DOMAIN flat \cup {<<stage, Slots[slot]>>}
        /\ flat'[<<stage, Slots[slot]>>] = NewPart
        /\ \A l \in DOMAIN flat : l # <<stage, Slots[slot]>> => flat'[l] = flat[l]
    BY <1>2, AllocateStep
  <2>2. ASSUME NEW k \in DOMAIN flat' PROVE Sound(PartOf(k), flat'[k])
    <3>1. CASE k = <<stage, Slots[slot]>> BY <2>1, <3>1, NewPartSound
    <3>2. CASE k # <<stage, Slots[slot]>> BY <2>1, <3>2 DEF PosInv
    <3>3. QED BY <3>1, <3>2
  <2>3. QED BY <1>1, <2>2 DEF PosInv
<1>3. ASSUME DOMAIN flat' = DOMAIN flat, part <= Len(Parts(stage)), Sound(Cur, flat'[Here]),
             \A k \in DOMAIN flat : k # Here => flat'[k] = flat[k]
      PROVE  PosInv'
  <2>1. Cur = PartOf(Here) BY <1>3, CurIsPart
  <2>2. ASSUME NEW k \in DOMAIN flat' PROVE Sound(PartOf(k), flat'[k])
    <3>1. CASE k = Here BY <1>3, <2>1, <3>1
    <3>2. CASE k # Here BY <1>3, <3>2 DEF PosInv
    <3>3. QED BY <3>1, <3>2
  <2>3. QED BY <1>1, <2>2 DEF PosInv
<1>4. CASE PlaceOutput \/ PlaceStaged \/ PlaceRegister
  <2>1. /\ DOMAIN flat' = DOMAIN flat /\ Sound(Cur, flat'[Here])
        /\ \A k \in DOMAIN flat : k # Here => flat'[k] = flat[k]
    BY <1>4, StoringKinds, StoreStep
  <2>2. part <= Len(Parts(stage)) BY <1>4, PlaceKeepsDomain
  <2>3. QED BY <1>3, <2>1, <2>2
<1>5. CASE PlaceRam
  <2>1. /\ DOMAIN flat' = DOMAIN flat /\ Sound(Cur, flat'[Here])
        /\ \A k \in DOMAIN flat : k # Here => flat'[k] = flat[k]
    BY <1>5, RamStep
  <2>2. part <= Len(Parts(stage)) BY <1>5, PlaceKeepsDomain
  <2>3. QED BY <1>3, <2>1, <2>2
<1>6. CASE UNCHANGED flat BY <1>1, <1>6 DEF PosInv
<1>7. LayPart \/ FinishMasonry \/ NextBlock \/ FinishAllocation \/ IgnoreZeroRegister \/ FinishPart
        \/ FinishStage \/ BuildPart \/ Assemble \/ Panic \/ Done => UNCHANGED flat
  BY DEF LayPart, FinishMasonry, NextBlock, FinishAllocation, IgnoreZeroRegister, Advance,
         FinishPart, FinishStage, BuildPart, Assemble, Panic, Done, vars
<1>8. QED BY <1>2, <1>4, <1>5, <1>6, <1>7 DEF Next

Handed == TypeOK /\ LaidInv /\ AllocInv /\ PosInv

LEMMA HandedStutter ==
  ASSUME Handed, UNCHANGED vars
  PROVE  Handed'
<1>1. /\ stages' = stages /\ UNCHANGED <<phase, stage, part, endpt, block, slot, load, blocks, flat>>
      /\ UNCHANGED <<stateSum, sramSum, inputMap, stagedMap, outputMap, reads, script>>
  BY DEF vars, layout, maps, built
<1>2. AllParts' = AllParts /\ \A k : PartOf(k)' = PartOf(k) BY <1>1, SameParts
<1>3. (\A q : OnBlock(q)' = OnBlock(q)) /\ (\A q : HasRanges(q)' = HasRanges(q))
  BY <1>1 DEF OnBlock, HasRanges
<1>4. \A k : StateEnd(k)' = StateEnd(k) /\ SramEnd(k)' = SramEnd(k)
  BY <1>1, <1>2 DEF StateEnd, SramEnd
<1>5. LoopOK' BY <1>1 DEF Handed, TypeOK, LoopOK, Parts
<1>6. BlocksOK' BY <1>1, <1>2 DEF Handed, TypeOK, BlocksOK, Parts
<1>7. DataOK' BY <1>1, <1>2 DEF Handed, TypeOK, DataOK
<1>8. LaidInv' BY <1>1, <1>2, <1>3 DEF Handed, LaidInv
<1>9. AllocInv' BY <1>1, <1>2, <1>4 DEF Handed, AllocInv
<1>10. PosInv' BY <1>1, <1>2 DEF Handed, PosInv
<1>11. QED BY <1>5, <1>6, <1>7, <1>8, <1>9, <1>10 DEF Handed, TypeOK

LEMMA HandedStep ==
  ASSUME Handed, Next
  PROVE  Handed'
BY LoopStep, BlocksStep, DataStep, LaidStep, AllocStep, PosStep DEF Handed, TypeOK

(* In every state of the assembler no two destinations share a bit and no  *)
(* two memories a word.                                                    *)
LEMMA HandedSeparates ==
  ASSUME Handed
  PROVE  OneWriterPerBit
<1>1. DOMAIN flat \subseteq AllParts /\ flat \in [DOMAIN flat -> Part]
  BY PartialIs DEF Handed, TypeOK, DataOK
<1>2. ASSUME NEW k \in DOMAIN flat
      PROVE  /\ \A x, y \in DOMAIN flat[k].pos : flat[k].pos[x] = flat[k].pos[y] => x = y
             /\ \A x \in DOMAIN flat[k].pos :
                  flat[k].pos[x] \in 0 .. (Writeouts(PartOf(k)) - Srams(PartOf(k))) * W - 1
             /\ DOMAIN flat[k].copy \cap DOMAIN flat[k].port = {}
  <2> DEFINE p == PartOf(k)
             f == flat[k]
  <2>1. f \in Part /\ Sound(p, f) /\ k \in AllParts BY <1>1 DEF Handed, PosInv
  <2>2. p \in Partition /\ Len(p.outs) = Normal(p) * W
    BY <2>1, PartTypes DEF Handed, TypeOK, LoopOK
  <2> HIDE DEF p, f
  <2>3. Normal(p) \in Nat /\ Dups(p) \in Nat /\ Srams(p) \in Nat /\ W \in Nat
    BY <2>2, NormalNat, KeysFinite, SramsNat
  <2>4. (Writeouts(p) - Srams(p)) * W = Normal(p) * W + Dups(p) * W
        /\ (Normal(p) + Dups(p)) * W = Normal(p) * W + Dups(p) * W
    <3>1. Writeouts(p) - Srams(p) = Normal(p) + Dups(p) BY <2>3 DEF Writeouts
    <3>2. QED BY <2>3, <3>1, Distributes
  <2>5. Normal(p) * W \in Nat /\ Dups(p) * W \in Nat BY <2>3
  <2>6. ASSUME NEW x \in DOMAIN f.pos
        PROVE  f.pos[x] \in 0 .. (Writeouts(p) - Srams(p)) * W - 1
    <3>1. CASE x \in FirstKeys(p)
      <4>1. f.pos[x] \in 0 .. Normal(p) * W - 1 BY <2>1, <2>2, <3>1, SoundPlaces
      <4>2. QED BY <2>4, <2>5, <4>1
    <3>2. CASE x \notin FirstKeys(p)
      <4>1. f.pos[x] \in Normal(p) * W .. (Normal(p) + Dups(p)) * W - 1
        BY <2>1, <2>2, <3>2, SoundPlaces
      <4>2. QED BY <2>4, <2>5, <4>1
    <3>3. QED BY <3>1, <3>2
  <2>7. ASSUME NEW b \in DOMAIN f.copy PROVE b \notin DOMAIN f.port
    <3>1. f.copy \in Partial(Bit, Bit) BY <2>1 DEF Part
    <3>2. b \in Int BY <3>1, PartialIs DEF Bit
    <3>3. Srams(p) * (4 * W) \in Int BY <2>3
    <3>4. b >= Srams(p) * (4 * W) BY <2>1 DEF Sound
    <3>5. \A d \in DOMAIN f.port : d < Srams(p) * (4 * W) BY <2>1 DEF Sound
    <3>6. QED BY <3>2, <3>3, <3>4, <3>5
  <2>8. \A x, y \in DOMAIN f.pos : f.pos[x] = f.pos[y] => x = y BY <2>1 DEF Sound
  <2>9. QED BY <2>6, <2>7, <2>8 DEF p, f
<1>3. QED BY <1>2 DEF OneWriterPerBit, Handed, AllocInv, StateEnd, SramEnd

----------------------------------------------------------------------------
(* The endpoints the placement has gone past.                              *)
Place == PlaceOutput \/ PlaceStaged \/ PlaceRegister \/ IgnoreZeroRegister \/ PlaceRam

LEMMA EndNumber ==
  ASSUME stages \in Circuits, NEW k \in AllParts, NEW n \in Ends(k)
  PROVE  /\ n \in 1 .. Len(PartOf(k).ends) /\ Len(PartOf(k).ends) \in Nat
         /\ k[1] \in 1 .. Len(stages) /\ k[2] \in 1 .. Len(stages[k[1]])
         /\ Len(stages) \in Nat /\ Len(stages[k[1]]) \in Nat
<1>1. PartOf(k) \in Partition /\ k[1] \in DOMAIN stages /\ k[2] \in DOMAIN stages[k[1]] BY PartTypes
<1>2. PartOf(k).ends \in Seq(Output \cup StagedPin \cup Register \cup Memory) BY <1>1 DEF Partition
<1>3. QED BY <1>1, <1>2, StagesTypes DEF Ends

LEMMA PastPlace ==
  ASSUME TypeOK, LaidInv, PosInv, Place, NEW k \in AllParts, NEW n \in Ends(k)
  PROVE  Past(k, n)' <=> Past(k, n) \/ (k = Here /\ n = endpt)
<1>1. /\ phase = "place" /\ phase' = "place" /\ stage' = stage /\ part' = part /\ endpt' = endpt + 1
  BY PlaceKeepsDomain DEF Place
<1>2. n \in Int /\ k[1] \in Int /\ k[2] \in Int /\ k = <<k[1], k[2]>>
  BY EndNumber, PartTypes DEF TypeOK, LoopOK
<1>3. endpt \in Int /\ part \in Int /\ stage \in Int BY StagesTypes DEF TypeOK, LoopOK
<1>4. k = Here <=> k[1] = stage /\ k[2] = part BY <1>2 DEF Here
<1>5. QED BY <1>1, <1>2, <1>3, <1>4 DEF Past

LEMMA PastKept ==
  ASSUME TypeOK, Next, ~Place, phase' # "panic", NEW k \in AllParts, NEW n \in Ends(k)
  PROVE  Past(k, n)' <=> Past(k, n)
<1>1. /\ n \in 1 .. Len(PartOf(k).ends) /\ Len(PartOf(k).ends) \in Nat
      /\ k[1] \in 1 .. Len(stages) /\ k[2] \in 1 .. Len(stages[k[1]])
      /\ Len(stages) \in Nat /\ Len(stages[k[1]]) \in Nat
  BY EndNumber DEF TypeOK, LoopOK
<1>2. /\ stage \in 1 .. Len(stages) /\ part \in Nat /\ endpt \in Nat \ {0}
      /\ phase \in {"masonry", "allocate", "place", "build", "done", "panic"}
  BY StagesTypes DEF TypeOK, LoopOK
<1>3. CASE LayPart \/ FinishMasonry \/ Allocate \/ NextBlock
  BY <1>3 DEF LayPart, FinishMasonry, Allocate, NextBlock, Past
<1>4. CASE FinishAllocation BY <1>1, <1>2, <1>4 DEF FinishAllocation, Past
<1>5. CASE FinishPart
  <2>1. k[1] = stage /\ k[2] = part => n < endpt
    <3>1. k[1] = stage /\ k[2] = part => Cur = PartOf(k) BY DEF Cur, PartOf, Parts
    <3>2. QED BY <1>1, <1>2, <1>5, <3>1 DEF FinishPart
  <2>2. QED BY <1>1, <1>2, <1>5, <2>1 DEF FinishPart, Past
<1>6. CASE FinishStage
  <2>1. k[1] = stage => k[2] < part BY <1>1, <1>2, <1>6 DEF FinishStage, Parts
  <2>2. QED BY <1>1, <1>2, <1>6, <2>1 DEF FinishStage, Past
<1>7. CASE BuildPart \/ Assemble BY <1>7 DEF BuildPart, Assemble, Past
<1>8. CASE Panic BY <1>8 DEF Panic
<1>9. CASE Done BY <1>9 DEF Done, vars, Past
<1>10. QED BY <1>3, <1>4, <1>5, <1>6, <1>7, <1>8, <1>9 DEF Next, Place

LEMMA PastHasRecord ==
  ASSUME TypeOK, LaidInv, NEW k \in AllParts, NEW n, Past(k, n)
  PROVE  k \in DOMAIN flat /\ flat[k] \in Part
<1>1. k \in DOMAIN flat BY DEF LaidInv, HasRanges, Past
<1>2. flat \in [DOMAIN flat -> Part] BY PartialIs DEF TypeOK, DataOK
<1>3. QED BY <1>1, <1>2

LEMMA PlaceOf ==
  ASSUME NEW k \in AllParts, NEW n \in Ends(k)
  PROVE  <<k, n>> \in PlacesOf(stages) /\ EndAt(stages, <<k, n>>) = PartOf(k).ends[n]
BY DEF PlacesOf, EndAt, AllParts, Ends, PartOf, Parts

(* Two endpoints never fill the same entry of the maps.                    *)
LEMMA EntriesApart ==
  ASSUME stages \in Circuits, NEW k \in AllParts, NEW n \in Ends(k),
         NEW l \in AllParts, NEW m \in Ends(l), <<k, n>> # <<l, m>>
  PROVE  /\ Driven(PartOf(k).ends[n]) \cap Driven(PartOf(l).ends[m]) = {}
         /\ PartOf(k).ends[n].kind = "Staged" /\ PartOf(l).ends[m].kind = "Staged"
              => PartOf(k).ends[n].d[1] # PartOf(l).ends[m].d[1]
<1>1. OneDriver(stages) /\ StagedOnce(stages) BY CircuitAssumption
<1>2. <<k, n>> \in PlacesOf(stages) /\ EndAt(stages, <<k, n>>) = PartOf(k).ends[n] BY PlaceOf
<1>3. <<l, m>> \in PlacesOf(stages) /\ EndAt(stages, <<l, m>>) = PartOf(l).ends[m] BY PlaceOf
<1>4. Driven(PartOf(k).ends[n]) \cap Driven(PartOf(l).ends[m]) = {}
  BY <1>1, <1>2, <1>3 DEF OneDriver
<1>5. ASSUME PartOf(k).ends[n].kind = "Staged", PartOf(l).ends[m].kind = "Staged",
             PartOf(k).ends[n].d[1] = PartOf(l).ends[m].d[1]
      PROVE  FALSE
  <2>1. PartOf(k).ends[n] \in StagedPin /\ PartOf(l).ends[m] \in StagedPin
    BY <1>5, PartTypes, EndTypes DEF Ends
  <2>2. PartOf(k).ends[n].d = PartOf(l).ends[m].d BY <1>5, <2>1 DEF StagedPin
  <2>3. QED BY <1>1, <1>2, <1>3, <1>5, <2>2 DEF StagedOnce
<1>6. QED BY <1>4, <1>5

(* What an endpoint's placement leaves behind lasts.                       *)
LEMMA DoneKept ==
  ASSUME NEW p \in Partition, NEW n \in DOMAIN p.ends, NEW f \in Part, NEW g \in Part,
         NEW im, NEW sm, NEW jm, NEW tm, DoneEnd(p, f, im, sm, n),
         g.stateStart = f.stateStart,
         \A x \in DOMAIN f.pos : x \in DOMAIN g.pos /\ g.pos[x] = f.pos[x],
         n \in RamEnds(p) /\ RamSound(p, f, n) => RamSound(p, g, n),
         \A x \in Driven(p.ends[n]) : x \in DOMAIN im => x \in DOMAIN jm /\ jm[x] = im[x],
         p.ends[n].kind = "Staged" =>
           (p.ends[n].d[1] \in DOMAIN sm
              => p.ends[n].d[1] \in DOMAIN tm /\ tm[p.ends[n].d[1]] = sm[p.ends[n].d[1]])
  PROVE  DoneEnd(p, g, jm, tm, n)
<1> DEFINE e == p.ends[n]
<1>1. e.kind # "RAM" /\ ~ZeroRegister(e) =>
        Key(e) \in DOMAIN g.pos /\ Global(g, BitOf(g, e)) = Global(f, BitOf(f, e))
  BY DEF DoneEnd, Global, BitOf
<1>2. e.kind = "Staged" => e.d[1] \in DOMAIN tm /\ tm[e.d[1]] = Global(g, BitOf(g, e))
  BY <1>1 DEF DoneEnd, ZeroRegister
<1>3. \A x \in Driven(e) : x \in DOMAIN jm BY DEF DoneEnd
<1>4. e.kind = "DFF" /\ ~ZeroRegister(e) => jm[e.q] = Global(g, BitOf(g, e))
  BY <1>1 DEF DoneEnd, Driven
<1>5. e.kind = "RAM" => RamSound(p, g, n) BY DEF DoneEnd, RamEnds
<1>6. e.kind = "RAM" => \A x \in Driven(e) : jm[x] = ReadAt(p, g, n, x)
  BY DEF DoneEnd, ReadAt, Global
<1>7. QED BY <1>1, <1>2, <1>3, <1>4, <1>5, <1>6 DEF DoneEnd

(* What one placement does to the maps and to this part's record.          *)
Filled ==
  /\ DOMAIN inputMap' = DOMAIN inputMap \cup Driven(Endpoint)
  /\ \A x \in DOMAIN inputMap : x \notin Driven(Endpoint) => inputMap'[x] = inputMap[x]
  /\ Endpoint.kind = "Staged" =>
       /\ DOMAIN stagedMap' = DOMAIN stagedMap \cup {Endpoint.d[1]}
       /\ \A x \in DOMAIN stagedMap : x # Endpoint.d[1] => stagedMap'[x] = stagedMap[x]
  /\ Endpoint.kind # "Staged" => stagedMap' = stagedMap
  /\ DoneEnd(Cur, flat'[Here], inputMap', stagedMap', endpt)
  /\ \A k \in DOMAIN flat : k # Here => flat'[k] = flat[k]
  /\ flat'[Here].stateStart = flat[Here].stateStart
  /\ \A x \in DOMAIN flat[Here].pos : x \in DOMAIN flat'[Here].pos /\ flat'[Here].pos[x] = flat[Here].pos[x]
  /\ \A m \in RamEnds(Cur) :
       m # endpt /\ RamSound(Cur, flat[Here], m) => RamSound(Cur, flat'[Here], m)

LEMMA StoreFills ==
  ASSUME TypeOK, LaidInv, PosInv, PlaceOutput \/ PlaceStaged \/ PlaceRegister
  PROVE  Filled
<1>1. /\ Keeps(Cur, flat[Here], flat'[Here]) /\ Here \in DOMAIN flat /\ DOMAIN flat' = DOMAIN flat
      /\ Key(Endpoint) \in DOMAIN flat'[Here].pos
      /\ \A k \in DOMAIN flat : k # Here => flat'[k] = flat[k]
      /\ Target(Endpoint) = Global(flat'[Here], BitOf(flat'[Here], Endpoint))
      /\ flat' \in Partial(AllParts, Part)
  BY StoringKinds, StoreStep
<1>2. Cur \in Partition /\ Endpoint = Cur.ends[endpt]
  BY StoringKinds, CurIsPart DEF Storing, Endpoint
<1>3. flat[Here] \in Part /\ flat'[Here] \in Part
  <2>1. flat \in [DOMAIN flat -> Part] BY PartialIs DEF TypeOK, DataOK
  <2>2. flat' \in [DOMAIN flat' -> Part] BY <1>1, PartialIs
  <2>3. QED BY <1>1, <2>1, <2>2
<1>4. \A m \in RamEnds(Cur) : RamSound(Cur, flat[Here], m) => RamSound(Cur, flat'[Here], m)
  BY <1>1, <1>2, <1>3, RamSoundKept
<1>5. /\ flat'[Here].stateStart = flat[Here].stateStart
      /\ \A x \in DOMAIN flat[Here].pos :
           x \in DOMAIN flat'[Here].pos /\ flat'[Here].pos[x] = flat[Here].pos[x]
  BY <1>1 DEF Keeps
<1> DEFINE t == Target(Endpoint)
<1>6. CASE PlaceOutput
  <2>1. Endpoint.kind = "PO" /\ inputMap' = inputMap /\ stagedMap' = stagedMap
    BY <1>6 DEF PlaceOutput, Placing
  <2>2. Driven(Endpoint) = {} BY <2>1 DEF Driven
  <2>3. DoneEnd(Cur, flat'[Here], inputMap', stagedMap', endpt)
    BY <1>1, <1>2, <2>1, <2>2 DEF DoneEnd
  <2>4. QED BY <1>1, <1>4, <1>5, <2>1, <2>2, <2>3 DEF Filled
<1>7. CASE PlaceStaged
  <2>1. Endpoint.kind = "Staged" /\ inputMap' = inputMap
        /\ stagedMap' = Insert(stagedMap, Endpoint.d[1], t)
    BY <1>7 DEF PlaceStaged, Placing
  <2> HIDE DEF t
  <2>2. Driven(Endpoint) = {} BY <2>1 DEF Driven
  <2>3. DOMAIN Insert(stagedMap, Endpoint.d[1], t) = DOMAIN stagedMap \cup {Endpoint.d[1]}
    BY InsertDomain
  <2>4. DOMAIN stagedMap' = DOMAIN stagedMap \cup {Endpoint.d[1]} BY <2>1, <2>3
  <2>5. stagedMap'[Endpoint.d[1]] = t BY <2>1, InsertHere
  <2>6. \A x \in DOMAIN stagedMap : x # Endpoint.d[1] => stagedMap'[x] = stagedMap[x]
    BY <2>1, InsertElse
  <2>7. DoneEnd(Cur, flat'[Here], inputMap', stagedMap', endpt)
    BY <1>1, <1>2, <2>1, <2>2, <2>4, <2>5 DEF DoneEnd, t
  <2>8. QED BY <1>1, <1>4, <1>5, <2>1, <2>2, <2>4, <2>6, <2>7 DEF Filled
<1>8. CASE PlaceRegister
  <2>1. Endpoint.kind = "DFF" /\ stagedMap' = stagedMap
        /\ inputMap' = Insert(inputMap, Endpoint.q, t)
    BY <1>8 DEF PlaceRegister, Placing
  <2> HIDE DEF t
  <2>2. Driven(Endpoint) = {Endpoint.q} BY <2>1 DEF Driven
  <2>3. DOMAIN Insert(inputMap, Endpoint.q, t) = DOMAIN inputMap \cup {Endpoint.q} BY InsertDomain
  <2>4. DOMAIN inputMap' = DOMAIN inputMap \cup {Endpoint.q} BY <2>1, <2>3
  <2>5. inputMap'[Endpoint.q] = t BY <2>1, InsertHere
  <2>6. \A x \in DOMAIN inputMap : x # Endpoint.q => inputMap'[x] = inputMap[x]
    BY <2>1, InsertElse
  <2>7. DoneEnd(Cur, flat'[Here], inputMap', stagedMap', endpt)
    BY <1>1, <1>2, <2>1, <2>2, <2>4, <2>5 DEF DoneEnd, t
  <2>8. QED BY <1>1, <1>4, <1>5, <2>1, <2>2, <2>4, <2>6, <2>7 DEF Filled
<1>9. QED BY <1>6, <1>7, <1>8

LEMMA ZeroFills ==
  ASSUME TypeOK, LaidInv, PosInv, IgnoreZeroRegister
  PROVE  Filled
<1>1. Endpoint.kind = "DFF" /\ ZeroRegister(Endpoint) /\ stagedMap' = stagedMap /\ flat' = flat
      /\ inputMap' = Insert(inputMap, Endpoint.q, 0) /\ Endpoint = Cur.ends[endpt]
  BY DEF IgnoreZeroRegister, Placing, Endpoint
<1>2. Driven(Endpoint) = {Endpoint.q} BY <1>1 DEF Driven
<1>3. DOMAIN Insert(inputMap, Endpoint.q, 0) = DOMAIN inputMap \cup {Endpoint.q} BY InsertDomain
<1>4. DOMAIN inputMap' = DOMAIN inputMap \cup {Endpoint.q} BY <1>1, <1>3
<1>5. \A x \in DOMAIN inputMap : x # Endpoint.q => inputMap'[x] = inputMap[x] BY <1>1, InsertElse
<1>6. DoneEnd(Cur, flat'[Here], inputMap', stagedMap', endpt) BY <1>1, <1>2, <1>4 DEF DoneEnd
<1>7. QED BY <1>1, <1>2, <1>4, <1>5, <1>6 DEF Filled

LEMMA RamFills ==
  ASSUME TypeOK, LaidInv, PosInv, PlaceRam
  PROVE  Filled
<1>1. /\ endpt \in RamEnds(Cur) /\ RamSound(Cur, flat'[Here], endpt)
      /\ flat'[Here].stateStart = flat[Here].stateStart /\ flat'[Here].pos = flat[Here].pos
      /\ \A m \in RamEnds(Cur) : m # endpt /\ RamSound(Cur, flat[Here], m) => RamSound(Cur, flat'[Here], m)
      /\ \A k \in DOMAIN flat : k # Here => flat'[k] = flat[k]
  BY RamStep
<1> DEFINE r == [x \in Driven(Endpoint) |-> ReadAt(Cur, Flat, endpt, x)]
<1>2. /\ Endpoint.kind = "RAM" /\ stagedMap' = stagedMap /\ inputMap' = With(inputMap, r)
      /\ Endpoint = Cur.ends[endpt]
  BY DEF PlaceRam, Placing, Endpoint
<1>3. DOMAIN r = Driven(Endpoint)
      /\ \A x \in Driven(Endpoint) : r[x] = ReadAt(Cur, flat'[Here], endpt, x)
  BY <1>1 DEF ReadAt, Global, Flat
<1> HIDE DEF r
<1>4. DOMAIN With(inputMap, r) = DOMAIN inputMap \cup DOMAIN r BY WithDomain
<1>5. DOMAIN inputMap' = DOMAIN inputMap \cup Driven(Endpoint) BY <1>2, <1>3, <1>4
<1>6. \A x \in DOMAIN inputMap : x \notin DOMAIN r => With(inputMap, r)[x] = inputMap[x] BY WithOld
<1>7. \A x \in DOMAIN r : With(inputMap, r)[x] = r[x] BY WithNew
<1>8. DoneEnd(Cur, flat'[Here], inputMap', stagedMap', endpt)
  <2>1. ~ZeroRegister(Endpoint) BY <1>2 DEF ZeroRegister
  <2>2. \A x \in Driven(Endpoint) : inputMap'[x] = ReadAt(Cur, flat'[Here], endpt, x)
    BY <1>2, <1>3, <1>7
  <2>3. QED BY <1>1, <1>2, <1>5, <2>1, <2>2 DEF DoneEnd
<1>9. QED BY <1>1, <1>2, <1>3, <1>5, <1>6, <1>8 DEF Filled

LEMMA PlaceFills ==
  ASSUME TypeOK, LaidInv, PosInv, Place
  PROVE  Filled
BY StoreFills, ZeroFills, RamFills DEF Place

LEMMA DoneStep ==
  ASSUME TypeOK, LaidInv, PosInv, DataOK', DoneInv, Next
  PROVE  DoneInv'
<1> SUFFICES ASSUME phase' # "panic", NEW k \in AllParts, NEW n \in Ends(k), Past(k, n)'
             PROVE  DoneEnd(PartOf(k), flat'[k], inputMap', stagedMap', n)
  BY StagesKept, SameParts DEF DoneInv
<1>1. PartOf(k) \in Partition /\ n \in DOMAIN PartOf(k).ends BY PartTypes DEF TypeOK, LoopOK, Ends
<1>2. ASSUME Past(k, n), phase # "panic"
      PROVE  /\ DoneEnd(PartOf(k), flat[k], inputMap, stagedMap, n)
             /\ k \in DOMAIN flat /\ flat[k] \in Part
  BY <1>2, PastHasRecord DEF DoneInv
<1>3. CASE Place
  <2>1. Filled BY <1>3, PlaceFills
  <2>2. phase = "place" /\ part <= Len(Parts(stage)) /\ DOMAIN flat' = DOMAIN flat
    BY <1>3, PlaceKeepsDomain DEF Place
  <2>3. Here \in AllParts /\ Cur = PartOf(Here) BY <2>2, CurIsPart
  <2>4. CASE k = Here /\ n = endpt BY <2>1, <2>3, <2>4 DEF Filled
  <2>5. CASE ~(k = Here /\ n = endpt)
    <3>1. Past(k, n) BY <1>3, <2>5, PastPlace
    <3>2. DoneEnd(PartOf(k), flat[k], inputMap, stagedMap, n) /\ k \in DOMAIN flat /\ flat[k] \in Part
      BY <1>2, <2>2, <3>1
    <3>3. flat'[k] \in Part
      <4>1. flat' \in [DOMAIN flat' -> Part] BY PartialIs DEF DataOK
      <4>2. QED BY <2>2, <3>2, <4>1
    <3>4. endpt \in Ends(Here) /\ Endpoint = PartOf(Here).ends[endpt]
      BY <1>3, <2>2, <2>3, Positions, PlaceKeepsDomain DEF Place, Ends, Endpoint
    <3>5. <<k, n>> # <<Here, endpt>> BY <2>5
    <3>6. /\ Driven(PartOf(k).ends[n]) \cap Driven(Endpoint) = {}
          /\ PartOf(k).ends[n].kind = "Staged" /\ Endpoint.kind = "Staged"
               => PartOf(k).ends[n].d[1] # Endpoint.d[1]
      <4>1. stages \in Circuits BY DEF TypeOK, LoopOK
      <4>2. \A l \in AllParts : \A m \in Ends(l) : <<k, n>> # <<l, m>> =>
              /\ Driven(PartOf(k).ends[n]) \cap Driven(PartOf(l).ends[m]) = {}
              /\ PartOf(k).ends[n].kind = "Staged" /\ PartOf(l).ends[m].kind = "Staged"
                   => PartOf(k).ends[n].d[1] # PartOf(l).ends[m].d[1]
        BY <4>1, EntriesApart
      <4>3. QED BY <2>3, <3>4, <3>5, <4>2
    <3>7. /\ flat'[k].stateStart = flat[k].stateStart
          /\ \A x \in DOMAIN flat[k].pos : x \in DOMAIN flat'[k].pos /\ flat'[k].pos[x] = flat[k].pos[x]
          /\ n \in RamEnds(PartOf(k)) /\ RamSound(PartOf(k), flat[k], n)
               => RamSound(PartOf(k), flat'[k], n)
      BY <2>1, <2>3, <2>5, <3>2 DEF Filled
    <3>8. \A x \in Driven(PartOf(k).ends[n]) :
            x \in DOMAIN inputMap => x \in DOMAIN inputMap' /\ inputMap'[x] = inputMap[x]
      BY <2>1, <3>6 DEF Filled
    <3>9. PartOf(k).ends[n].kind = "Staged" =>
            (PartOf(k).ends[n].d[1] \in DOMAIN stagedMap
               => /\ PartOf(k).ends[n].d[1] \in DOMAIN stagedMap'
                  /\ stagedMap'[PartOf(k).ends[n].d[1]] = stagedMap[PartOf(k).ends[n].d[1]])
      BY <2>1, <3>6 DEF Filled
    <3>10. QED BY <1>1, <3>2, <3>3, <3>7, <3>8, <3>9, DoneKept
  <2>6. QED BY <2>4, <2>5
<1>4. ASSUME ~Place, UNCHANGED <<inputMap, stagedMap>>, phase # "panic",
             k \in DOMAIN flat => flat'[k] = flat[k]
      PROVE  DoneEnd(PartOf(k), flat'[k], inputMap', stagedMap', n)
  <2>1. Past(k, n) BY <1>4, PastKept
  <2>2. QED BY <1>2, <1>4, <2>1
<1>5. CASE Allocate
  <2>1. phase = "allocate" /\ UNCHANGED <<inputMap, stagedMap>> /\ phase' = phase
    BY <1>5 DEF Allocate, maps
  <2>2. ~Place
    BY <2>1 DEF Place, PlaceOutput, PlaceStaged, PlaceRegister, IgnoreZeroRegister, PlaceRam, Placing
  <2>3. Past(k, n) BY <2>1, <2>2, PastKept
  <2>4. k # <<stage, Slots[slot]>>
    <3>1. k[1] < stage BY <2>1, <2>3 DEF Past
    <3>2. stage \in Int BY StagesTypes DEF TypeOK, LoopOK
    <3>3. QED BY <3>1, <3>2
  <2>5. k \in DOMAIN flat => flat'[k] = flat[k] BY <1>5, <2>4, AllocateStep
  <2>6. QED BY <1>4, <2>1, <2>2, <2>5
<1>6. CASE ~Place /\ ~Allocate
  <2>1. /\ UNCHANGED <<flat, inputMap, stagedMap>> /\ phase # "panic"
    BY <1>6 DEF Next, Place, LayPart, FinishMasonry, NextBlock, FinishAllocation, FinishPart,
         FinishStage, BuildPart, Assemble, Panic, Done, vars, maps
  <2>2. QED BY <1>4, <1>6, <2>1
<1>7. QED BY <1>3, <1>5, <1>6

LEMMA MapStep ==
  ASSUME TypeOK, LaidInv, PosInv, MapInv, Next
  PROVE  MapInv'
<1> SUFFICES ASSUME phase' # "panic" PROVE MapInv'
  BY DEF MapInv
<1>1. AllParts' = AllParts /\ \A k : PartOf(k)' = PartOf(k) /\ Ends(k)' = Ends(k)
  BY StagesKept, SameParts
<1>2. CASE Place
  <2>1. Filled BY <1>2, PlaceFills
  <2>2. phase = "place" /\ part <= Len(Parts(stage)) BY <1>2, PlaceKeepsDomain DEF Place
  <2>3. Here \in AllParts /\ Cur = PartOf(Here) BY <2>2, CurIsPart
  <2>4. endpt \in Ends(Here) /\ Endpoint = PartOf(Here).ends[endpt]
    BY <1>2, <2>2, <2>3, Positions, PlaceKeepsDomain DEF Place, Ends, Endpoint
  <2>5. \A k \in AllParts : \A n \in Ends(k) : Past(k, n)' <=> Past(k, n) \/ (k = Here /\ n = endpt)
    BY <1>2, PastPlace
  <2>6. PICK h : h = Here OBVIOUS
  <2>7. PICK m : m = endpt OBVIOUS
  <2>8. h \in AllParts /\ m \in Ends(h) /\ Past(h, m)' /\ Endpoint = PartOf(h).ends[m]
    BY <2>3, <2>4, <2>5, <2>6, <2>7
  <2>9. ASSUME NEW x \in DOMAIN inputMap'
        PROVE  \/ x \in Elements(Layout) /\ inputMap'[x] = LastPlace(Layout, x) - 1
               \/ \E k \in AllParts : \E n \in Ends(k) : Past(k, n)' /\ x \in Driven(PartOf(k).ends[n])
    <3>1. CASE x \in Driven(Endpoint) BY <2>8, <3>1
    <3>2. CASE x \notin Driven(Endpoint)
      <4>1. x \in DOMAIN inputMap /\ inputMap'[x] = inputMap[x] BY <2>1, <2>9, <3>2 DEF Filled
      <4>2. QED BY <2>2, <2>5, <4>1 DEF MapInv
    <3>3. QED BY <3>1, <3>2
  <2>10. ASSUME NEW x \in DOMAIN stagedMap'
         PROVE  \E k \in AllParts : \E n \in Ends(k) :
                  Past(k, n)' /\ PartOf(k).ends[n].kind = "Staged" /\ PartOf(k).ends[n].d[1] = x
    <3>1. CASE Endpoint.kind = "Staged" /\ x = Endpoint.d[1] BY <2>8, <3>1
    <3>2. CASE ~(Endpoint.kind = "Staged" /\ x = Endpoint.d[1])
      <4>1. x \in DOMAIN stagedMap BY <2>1, <2>10, <3>2 DEF Filled
      <4>2. QED BY <2>2, <2>5, <4>1 DEF MapInv
    <3>3. QED BY <3>1, <3>2
  <2>11. Elements(Layout) \ {NoPin} \subseteq DOMAIN inputMap' BY <2>1, <2>2 DEF MapInv, Filled
  <2>12. QED BY <1>1, <2>9, <2>10, <2>11 DEF MapInv
<1>3. CASE ~Place
  <2>1. UNCHANGED <<inputMap, stagedMap>> /\ phase # "panic"
    BY <1>3 DEF Next, Place, LayPart, FinishMasonry, Allocate, NextBlock, FinishAllocation,
         FinishPart, FinishStage, BuildPart, Assemble, Panic, Done, vars, maps
  <2>2. \A k \in AllParts : \A n \in Ends(k) : Past(k, n)' <=> Past(k, n) BY <1>3, PastKept
  <2>3. QED BY <1>1, <2>1, <2>2 DEF MapInv
<1>4. QED BY <1>2, <1>3

LEMMA MapsInit ==
  ASSUME Init
  PROVE  DoneInv /\ MapInv
<1>1. \A k \in AllParts : \A n \in Ends(k) : ~Past(k, n)
  <2>1. \A k \in AllParts : k[1] \in 1 .. Len(stages) /\ Len(stages) \in Nat
    BY TypeInit, PartTypes, StagesTypes DEF TypeOK, LoopOK
  <2>2. QED BY <2>1 DEF Init, Past
<1>2. DOMAIN inputMap = Elements(Layout) \ {NoPin} /\ DOMAIN stagedMap = {}
      /\ \A x \in DOMAIN inputMap : inputMap[x] = LastPlace(Layout, x) - 1
  BY EmptyPartial DEF Init
<1>3. QED BY <1>1, <1>2 DEF DoneInv, MapInv

----------------------------------------------------------------------------
(* What the kernel finds where the record says.                            *)
LEMMA SoundServes ==
  ASSUME stages \in Circuits, NEW k \in AllParts, flat[k] \in Part, Sound(PartOf(k), flat[k]),
         NEW n \in StoredEnds(PartOf(k)), Key(PartOf(k).ends[n]) \in DOMAIN flat[k].pos
  PROVE  LET e == PartOf(k).ends[n]
         IN  /\ Serves(k, BitOf(flat[k], e), e)
             /\ ServesAt(k, Global(flat[k], BitOf(flat[k], e)), e)
<1> DEFINE p == PartOf(k)
           f == flat[k]
           e == PartOf(k).ends[n]
           b == f.pos[Key(e)]
<1>1. p \in Partition /\ Len(p.outs) = Normal(p) * W BY PartTypes
<1>2. Key(e)[1] = e.d[1] /\ Key(e)[2] = <<Enable(e), e.d[2]>> BY <1>1, StoredTypes
<1>3. b \in DOMAIN f.clk /\ f.clk[b] = [en |-> Enable(e), inv |-> e.d[2]]
  BY <1>2 DEF Sound
<1>4. e.d[1] \in Elements(p.outs) BY <1>2 DEF Sound
<1>5. /\ OrigPos(p, e.d[1]) \in 0 .. Normal(p) * W - 1 /\ p.outs[OrigPos(p, e.d[1]) + 1] = e.d[1]
      /\ Normal(p) * W \in Nat
  BY <1>1, <1>4, OrigPlace, NormalNat
<1>6. b \in Int /\ KernelData(k, b) = e.d[1]
  <2>1. CASE Key(e) \in FirstKeys(p)
    <3>1. b = OrigPos(p, e.d[1]) BY <1>2, <2>1 DEF Sound
    <3>2. b \in Int /\ b < Normal(p) * W BY <1>5, <3>1
    <3>3. QED BY <1>5, <3>1, <3>2 DEF KernelData
  <2>2. CASE Key(e) \notin FirstKeys(p)
    <3>1. PICK i \in 1 .. f.cnt :
            b = DupBit(p, i) /\ f.copy[DupPerm(p, i)] = OrigPos(p, e.d[1])
      <4>1. \A x \in DOMAIN f.pos : x \notin FirstKeys(p) => \E i \in 1 .. f.cnt :
              f.pos[x] = DupBit(p, i) /\ f.copy[DupPerm(p, i)] = OrigPos(p, x[1])
        BY DEF Sound
      <4>2. \E i \in 1 .. f.cnt :
              /\ f.pos[Key(e)] = DupBit(p, i)
              /\ f.copy[DupPerm(p, i)] = OrigPos(p, Key(e)[1])
        BY <2>2, <4>1
      <4>3. QED BY <1>2, <4>2
    <3>2. i \in 1 .. Extra(p)
      <4>1. f.cnt \in Nat /\ f.cnt <= Extra(p) /\ Extra(p) \in Nat BY <1>1, SoundPlaces, KeysFinite
      <4>2. QED BY <4>1
    <3>3. /\ DupBit(p, i) \in Normal(p) * W .. (Normal(p) + Dups(p)) * W - 1
          /\ DupPerm(p, i) = Srams(p) * 4 * W + (DupBit(p, i) - Normal(p) * W)
      BY <1>1, <3>2, DupPlace
    <3>4. b \in Int /\ b >= Normal(p) * W BY <3>1, <3>3
    <3>5. ~(b < Normal(p) * W) BY <1>5, <3>4
    <3>6. Srams(p) * 4 * W + (b - Normal(p) * W) = DupPerm(p, i) BY <3>1, <3>3
    <3>7. KernelData(k, b) = p.outs[f.copy[DupPerm(p, i)] + 1] BY <3>5, <3>6 DEF KernelData
    <3>8. QED BY <1>5, <3>1, <3>4, <3>7
  <2>3. QED BY <2>1, <2>2
<1> HIDE DEF p
<1>7. Serves(k, b, e) BY <1>3, <1>6 DEF Serves
<1>8. Global(f, b) - f.stateStart * W = b
  <2>1. f.stateStart * W \in Int BY SizeAssumption DEF Part
  <2>2. QED BY <1>6, <2>1 DEF Global
<1>9. QED BY <1>7, <1>8 DEF ServesAt, BitOf

LEMMA RamsServed ==
  ASSUME stages \in Circuits, NEW k \in AllParts, NEW n \in Ends(k), flat[k] \in Part,
         PartOf(k).ends[n].kind = "RAM", DoneEnd(PartOf(k), flat[k], inputMap, stagedMap, n)
  PROVE  RamServed(k, n)
<1> DEFINE p == PartOf(k)
           f == flat[k]
           e == PartOf(k).ends[n]
<1>1. p \in Partition /\ n \in RamEnds(p) BY PartTypes DEF RamEnds, Ends
<1>2. RamSound(p, f, n) /\ \A x \in Driven(e) : inputMap[x] = ReadAt(p, f, n, x) BY DEF DoneEnd
<1>3. OneDriver(stages) BY CircuitAssumption
<1>4. \A i, j \in ReadBits(e) : e.rd[i] = e.rd[j] => i = j
  <2>1. <<k, n>> \in PlacesOf(stages) /\ EndAt(stages, <<k, n>>) = e BY PlaceOf
  <2>2. QED BY <1>3, <2>1 DEF OneDriver
<1>5. ASSUME NEW i \in ReadBits(e)
      PROVE  /\ inputMap[e.rd[i]] = (f.stateStart + ReadWord(p, n)) * W + i
             /\ f.clk[ReadWord(p, n) * W + i] = [en |-> e.en, inv |-> 0]
  <2>1. e.rd[i] \in Driven(e) BY DEF Driven
  <2>2. BitFor(e, e.rd[i]) = i BY <1>4 DEF BitFor
  <2>3. inputMap[e.rd[i]] = f.stateStart * W + (ReadWord(p, n) * W + i)
    BY <1>2, <2>1, <2>2 DEF ReadAt, Global
  <2>4. f.stateStart \in Nat /\ ReadWord(p, n) \in Nat /\ W \in Nat /\ i \in Nat
    BY <1>1, RamPlace, SizeAssumption DEF Part, ReadBits
  <2>5. (f.stateStart + ReadWord(p, n)) * W = f.stateStart * W + ReadWord(p, n) * W
    BY <2>4, Distributes
  <2>6. f.stateStart * W \in Int /\ ReadWord(p, n) * W \in Int BY <2>4
  <2>7. inputMap[e.rd[i]] = (f.stateStart + ReadWord(p, n)) * W + i BY <2>3, <2>4, <2>5, <2>6
  <2>8. ReadWord(p, n) * W + i \in ReadClk(p, n) BY DEF ReadClk
  <2>9. QED BY <1>2, <2>7, <2>8 DEF RamSound
<1>6. QED BY <1>2, <1>5 DEF RamServed, RamSound

LEMMA DoneServes ==
  ASSUME TypeOK, LaidInv, PosInv, DoneInv, phase # "panic", NEW k \in AllParts, NEW n \in Ends(k), Past(k, n)
  PROVE  EndServed(k, n)
<1> DEFINE e == PartOf(k).ends[n]
<1>1. DoneEnd(PartOf(k), flat[k], inputMap, stagedMap, n) BY DEF DoneInv
<1>2. k \in DOMAIN flat /\ flat[k] \in Part BY PastHasRecord
<1>3. Sound(PartOf(k), flat[k]) BY <1>2 DEF PosInv
<1>4. stages \in Circuits BY DEF TypeOK, LoopOK
<1>5. e.kind # "RAM" /\ ~ZeroRegister(e) =>
        Serves(k, BitOf(flat[k], e), e) /\ ServesAt(k, Global(flat[k], BitOf(flat[k], e)), e)
  BY <1>1, <1>2, <1>3, <1>4, SoundServes DEF DoneEnd, StoredEnds, Ends
<1>6. e.kind = "RAM" => RamServed(k, n) BY <1>1, <1>2, <1>4, RamsServed
<1>7. QED BY <1>1, <1>5, <1>6 DEF EndServed, DoneEnd, ZeroRegister

LEMMA AllKnown ==
  ASSUME TypeOK, LaidInv, DoneInv, MapInv, phase = "build"
  PROVE  /\ \A x \in Sources : x # NoPin => x \in DOMAIN inputMap
         /\ StagedPins \subseteq DOMAIN stagedMap
<1>1. ASSUME NEW x \in PlacesOf(stages)
      PROVE  \E k \in AllParts : \E n \in Ends(k) :
               /\ EndAt(stages, x) = PartOf(k).ends[n]
               /\ DoneEnd(PartOf(k), flat[k], inputMap, stagedMap, n)
  <2>1. PICK k \in AllParts : x \in {k} \X (DOMAIN stages[k[1]][k[2]].ends)
    BY DEF PlacesOf, AllParts
  <2>2. x[1] = k /\ x[2] \in Ends(k) /\ EndAt(stages, x) = PartOf(k).ends[x[2]]
    BY <2>1 DEF EndAt, Ends, PartOf, Parts
  <2>3. Past(k, x[2]) BY DEF Past
  <2>4. QED BY <2>2, <2>3 DEF DoneInv
<1>2. ASSUME NEW y \in PlacesOf(stages) PROVE Driven(EndAt(stages, y)) \subseteq DOMAIN inputMap
  BY <1>1 DEF DoneEnd
<1>3. ASSUME NEW y \in PlacesOf(stages), EndAt(stages, y).kind = "Staged"
      PROVE  EndAt(stages, y).d[1] \in DOMAIN stagedMap
  BY <1>1, <1>3 DEF DoneEnd
<1>4. \A x \in Elements(Layout) : x # NoPin => x \in DOMAIN inputMap BY DEF MapInv
<1>5. QED BY <1>2, <1>3, <1>4 DEF Sources, StagedPins

(* What the script says of a pin is right when it is written.              *)
LEMMA ResolvedRight ==
  ASSUME TypeOK, LaidInv, PosInv, DoneInv, MapInv, BuildPart, NEW x \in Cur.ins
  PROVE  Provided(Here, x, Resolved(x))
<1>1. /\ phase = "build" /\ Here \in AllParts /\ Cur = PartOf(Here) /\ Cur \in Partition
      /\ x \in DOMAIN inputMap \cup DOMAIN stagedMap
  BY CurIsPart DEF BuildPart, Known
<1>2. \A k \in AllParts : \A n \in Ends(k) : Past(k, n) BY <1>1 DEF Past
<1>3. ASSUME NEW k \in AllParts, NEW n \in Ends(k)
      PROVE  /\ DoneEnd(PartOf(k), flat[k], inputMap, stagedMap, n)
             /\ EndServed(k, n)
  BY <1>1, <1>2, DoneServes DEF DoneInv
<1>4. CASE x \in DOMAIN inputMap
  <2>1. Resolved(x).staged = FALSE /\ Resolved(x).at = inputMap[x] BY <1>4 DEF Resolved
  <2>2. CASE x \in Elements(Layout) /\ inputMap[x] = LastPlace(Layout, x) - 1
    <3>1. LastPlace(Layout, x) \in 1 .. Len(Layout) /\ Layout[LastPlace(Layout, x)] = x
      BY <2>2, LayoutTypes
    <3>2. inputMap[x] + 1 = LastPlace(Layout, x) BY <2>2, <3>1, LayoutTypes
    <3>3. QED BY <2>1, <3>1, <3>2 DEF Provided
  <2>3. CASE \E k \in AllParts : \E n \in Ends(k) : x \in Driven(PartOf(k).ends[n])
    <3>0. PICK k \in AllParts : \E n \in Ends(k) : x \in Driven(PartOf(k).ends[n]) BY <2>3
    <3>1. PICK n \in Ends(k) : x \in Driven(PartOf(k).ends[n]) BY <3>0
    <3>2. EndServed(k, n) BY <1>3
    <3>3. CASE PartOf(k).ends[n].kind = "DFF"
      <4>1. PartOf(k).ends[n].q = x BY <3>1, <3>3 DEF Driven
      <4>2. QED BY <2>1, <3>2, <3>3, <4>1 DEF Provided, EndServed
    <3>4. CASE PartOf(k).ends[n].kind = "RAM" BY <2>1, <3>1, <3>2, <3>4 DEF Provided, EndServed
    <3>5. QED BY <3>1, <3>3, <3>4 DEF Driven
  <2>4. QED BY <1>1, <1>4, <2>2, <2>3 DEF MapInv
<1>5. CASE x \notin DOMAIN inputMap
  <2>1. Resolved(x).staged = TRUE /\ Resolved(x).at = stagedMap[x] /\ x \in DOMAIN stagedMap
    BY <1>1, <1>5 DEF Resolved
  <2>0. PICK k \in AllParts :
          \E n \in Ends(k) : PartOf(k).ends[n].kind = "Staged" /\ PartOf(k).ends[n].d[1] = x
    BY <1>1, <2>1 DEF MapInv
  <2>2. PICK n \in Ends(k) : PartOf(k).ends[n].kind = "Staged" /\ PartOf(k).ends[n].d[1] = x
    BY <2>0
  <2>3. ServesAt(k, stagedMap[x], PartOf(k).ends[n]) BY <1>3, <2>2 DEF EndServed
  <2>4. x \notin Sources
    <3>1. x # NoPin BY <1>1, SizeAssumption DEF Partition
    <3>2. QED BY <1>1, <1>5, <3>1, AllKnown
  <2>5. k[1] < Here[1]
    <3>1. StagedBeforeRead(stages) BY CircuitAssumption DEF TypeOK, LoopOK
    <3>2. <<k, n>> \in PlacesOf(stages) /\ EndAt(stages, <<k, n>>) = PartOf(k).ends[n] BY PlaceOf
    <3>3. \A l \in PartsOf(stages) : \A y \in PlacesOf(stages) :
            EndAt(stages, y).kind = "Staged" /\ EndAt(stages, y).d[1] \in PartOf(l).ins
              => y[1][1] < l[1] \/ EndAt(stages, y).d[1] \in Sources
      BY <3>1 DEF StagedBeforeRead, Sources, PartOf, Parts
    <3>4. <<k, n>>[1][1] < Here[1] \/ x \in Sources BY <1>1, <2>2, <3>2, <3>3 DEF AllParts
    <3>5. QED BY <2>4, <3>4
  <2>6. QED BY <2>1, <2>2, <2>3, <2>5 DEF Provided
<1>6. QED BY <1>4, <1>5

LEMMA SameProvided ==
  ASSUME stages' = stages, flat' = flat, inputMap' = inputMap
  PROVE  \A k, x, r : Provided(k, x, r)' <=> Provided(k, x, r)
<1>1. AllParts' = AllParts /\ \A k : PartOf(k)' = PartOf(k) /\ Ends(k)' = Ends(k) BY SameParts
<1>2. \A k, b : KernelData(k, b)' = KernelData(k, b) BY <1>1 DEF KernelData
<1>3. \A k, b, e : Serves(k, b, e)' <=> Serves(k, b, e) BY <1>2 DEF Serves
<1>4. \A k, at, e : ServesAt(k, at, e)' <=> ServesAt(k, at, e) BY <1>3 DEF ServesAt
<1>5. \A k, n : RamServed(k, n)' <=> RamServed(k, n) BY <1>1 DEF RamServed
<1>6. QED BY <1>1, <1>4, <1>5 DEF Provided

LEMMA ReadsStep ==
  ASSUME TypeOK, LaidInv, PosInv, DoneInv, MapInv, ReadsInv, Next
  PROVE  ReadsInv'
<1>1. stages' = stages BY StagesKept
<1>2. CASE phase \in {"masonry", "allocate", "place"}
  <2>1. reads' = reads
    BY <1>2 DEF Next, LayPart, FinishMasonry, Allocate, NextBlock, FinishAllocation, PlaceOutput,
       PlaceStaged, PlaceRegister, IgnoreZeroRegister, PlaceRam, Advance, FinishPart,
       FinishStage, BuildPart, Assemble, Panic, Done, vars, built
  <2>2. DOMAIN reads = {} BY <1>2 DEF ReadsInv
  <2>3. QED BY <2>1, <2>2 DEF ReadsInv, ReadsInTime
<1>3. CASE BuildPart
  <2>1. UNCHANGED <<flat, inputMap>> /\ phase' = "build" BY <1>3 DEF BuildPart, maps
  <2>2. \A k, x, r : Provided(k, x, r)' <=> Provided(k, x, r) BY <1>1, <2>1, SameProvided
  <2> DEFINE r == [x \in Cur.ins |-> Resolved(x)]
  <2>3. reads' = Insert(reads, Here, r) BY <1>3 DEF BuildPart
  <2>4. DOMAIN r = Cur.ins /\ \A x \in Cur.ins : Provided(Here, x, r[x]) BY <1>3, ResolvedRight
  <2> HIDE DEF r
  <2>5. DOMAIN Insert(reads, Here, r) = DOMAIN reads \cup {Here} BY InsertDomain
  <2>6. reads'[Here] = r BY <2>3, InsertHere
  <2>7. \A k \in DOMAIN reads : k # Here => reads'[k] = reads[k] BY <2>3, InsertElse
  <2>8. ASSUME NEW k \in DOMAIN reads', NEW x \in DOMAIN reads'[k]
        PROVE  Provided(k, x, reads'[k][x])
    <3>1. CASE k = Here BY <2>4, <2>6, <2>8, <3>1
    <3>2. CASE k # Here
      <4>1. k \in DOMAIN reads /\ reads'[k] = reads[k] BY <2>3, <2>5, <2>7, <2>8, <3>2
      <4>2. QED BY <2>8, <4>1 DEF ReadsInv, ReadsInTime
    <3>3. QED BY <3>1, <3>2
  <2>9. QED BY <2>1, <2>2, <2>8 DEF ReadsInv, ReadsInTime
<1>4. CASE phase \notin {"masonry", "allocate", "place"} /\ ~BuildPart
  <2>1. UNCHANGED <<flat, inputMap, reads>> /\ phase' \in {"build", "done", "panic"}
    BY <1>4 DEF Next, LayPart, FinishMasonry, Allocate, NextBlock, FinishAllocation, PlaceOutput,
       PlaceStaged, PlaceRegister, IgnoreZeroRegister, PlaceRam, Placing, FinishPart,
       FinishStage, Assemble, Panic, Done, vars, built, maps
  <2>2. \A k, x, r : Provided(k, x, r)' <=> Provided(k, x, r) BY <1>1, <2>1, SameProvided
  <2>3. QED BY <2>1, <2>2 DEF ReadsInv, ReadsInTime
<1>5. QED BY <1>2, <1>3, <1>4

----------------------------------------------------------------------------
(* The panics.  When all of a part's endpoints are placed, the duplicates  *)
(* are the activations that come later, all of them counted in advance.    *)
LEMMA DuplicatesAreCounted ==
  ASSUME TypeOK, LaidInv, PosInv, DoneInv, phase = "place", part <= Len(Parts(stage)),
         endpt > Len(Cur.ends), ConstantsAgree(Cur)
  PROVE  DuplicatesMatch
<1>1. /\ Here \in AllParts /\ Cur = PartOf(Here) /\ Here[1] = stage /\ Here[2] = part
      /\ Cur \in Partition
  BY CurIsPart
<1>2. Here \in DOMAIN flat BY <1>1 DEF LaidInv, HasRanges
<1>3. Sound(Cur, flat[Here]) BY <1>1, <1>2 DEF PosInv
<1>4. ASSUME NEW n \in StoredEnds(Cur), Key(Cur.ends[n]) \notin FirstKeys(Cur)
      PROVE  Key(Cur.ends[n]) \in DOMAIN flat[Here].pos
  <2>1. n \in Ends(Here) /\ Cur.ends[n].kind # "RAM" BY <1>1 DEF StoredEnds, Ends
  <2>2. ~ZeroRegister(Cur.ends[n]) BY <1>4 DEF ConstantsAgree, StoredEnds
  <2>3. n < endpt
    <3>1. n \in 1 .. Len(Cur.ends) /\ Len(Cur.ends) \in Nat
      BY <1>1, <2>1, EndNumber DEF TypeOK, LoopOK
    <3>2. endpt \in Int BY DEF TypeOK, LoopOK
    <3>3. QED BY <3>1, <3>2
  <2>4. Past(Here, n) BY <1>1, <2>3 DEF Past
  <2>5. QED BY <1>1, <2>1, <2>2, <2>4 DEF DoneInv, DoneEnd
<1>5. Later(Cur, flat[Here]) = Keys(Cur) \ FirstKeys(Cur)
  <2>1. \A x \in Keys(Cur) : x \notin FirstKeys(Cur) => x \in DOMAIN flat[Here].pos
    BY <1>4 DEF Keys
  <2>2. DOMAIN flat[Here].pos \subseteq Keys(Cur) BY <1>3 DEF Sound
  <2>3. QED BY <2>1, <2>2 DEF Later
<1>6. Flat.cnt = Extra(Cur) BY <1>3, <1>5 DEF Sound, Extra, Flat
<1>7. QED BY <1>6 DEF DuplicatesMatch, Dups

Reason ==
  \E k \in AllParts :
    \/ \E n \in Ends(k) : ~CanPlace(PartOf(k), PartOf(k).ends[n])
    \/ ~(PartOf(k).ins \subseteq Sources \cup StagedPins)
    \/ ~ConstantsAgree(PartOf(k))

LEMMA PanicStep ==
  ASSUME TypeOK, LaidInv, PosInv, DoneInv, MapInv, NoPanic, Next
  PROVE  NoPanic'
<1>1. Reason' <=> Reason
  <2>1. stages' = stages /\ AllParts' = AllParts /\ \A k : PartOf(k)' = PartOf(k) /\ Ends(k)' = Ends(k)
    BY StagesKept, SameParts
  <2>2. Sources' = Sources /\ StagedPins' = StagedPins BY <2>1 DEF Sources, StagedPins
  <2>3. QED BY <2>1, <2>2 DEF Reason
<1>2. CASE Panic
  <2>1. Here \in AllParts /\ Cur = PartOf(Here) /\ Cur \in Partition BY <1>2, CurIsPart DEF Panic
  <2>2. CASE phase = "place" /\ endpt <= Len(Cur.ends) /\ ~CanPlace(Cur, Endpoint)
    <3>1. endpt \in Ends(Here) BY <1>2, <2>1, <2>2, Positions DEF Panic, Ends
    <3>2. Reason BY <2>1, <2>2, <3>1 DEF Reason, Endpoint
    <3>3. QED BY <1>1, <3>2 DEF NoPanic, Reason
  <2>3. CASE phase = "place" /\ endpt > Len(Cur.ends) /\ ~DuplicatesMatch
    <3>1. ~ConstantsAgree(Cur) BY <1>2, <2>3, DuplicatesAreCounted DEF Panic
    <3>2. Reason BY <2>1, <3>1 DEF Reason
    <3>3. QED BY <1>1, <3>2 DEF NoPanic, Reason
  <2>4. CASE phase = "build" /\ ~(Cur.ins \subseteq Known)
    <3>1. PICK x \in Cur.ins : x \notin DOMAIN inputMap \cup DOMAIN stagedMap BY <2>4 DEF Known
    <3>2. x # NoPin BY <2>1, SizeAssumption DEF Partition
    <3>3. x \notin Sources \cup StagedPins BY <2>4, <3>1, <3>2, AllKnown
    <3>4. Reason BY <2>1, <3>3 DEF Reason
    <3>5. QED BY <1>1, <3>4 DEF NoPanic, Reason
  <2>5. QED BY <1>2, <2>2, <2>3, <2>4 DEF Panic
<1>3. CASE ~Panic
  <2>1. phase' = "panic" => phase = "panic"
    BY <1>3 DEF Next, LayPart, FinishMasonry, Allocate, NextBlock, FinishAllocation, PlaceOutput,
       PlaceStaged, PlaceRegister, IgnoreZeroRegister, PlaceRam, Advance, FinishPart,
       FinishStage, BuildPart, Assemble, Done, vars
  <2>2. QED BY <1>1, <2>1 DEF NoPanic, Reason
<1>4. QED BY <1>2, <1>3

----------------------------------------------------------------------------
(* The whole invariant.                                                    *)
FlattenInv == Handed /\ DoneInv /\ MapInv /\ ReadsInv /\ NoPanic

LEMMA InvStutter ==
  ASSUME FlattenInv, UNCHANGED vars
  PROVE  FlattenInv'
<1>1. /\ UNCHANGED <<stages, phase, stage, part, endpt, flat, inputMap, stagedMap, reads>>
  BY DEF vars, layout, maps, built
<1>2. Handed' BY HandedStutter DEF FlattenInv
<1>3. AllParts' = AllParts /\ \A k : PartOf(k)' = PartOf(k) /\ Ends(k)' = Ends(k) BY <1>1, SameParts
<1>4. \A k, n : Past(k, n)' <=> Past(k, n) BY <1>1 DEF Past
<1>5. DoneInv' BY <1>1, <1>3, <1>4 DEF FlattenInv, DoneInv
<1>6. MapInv' BY <1>1, <1>3, <1>4 DEF FlattenInv, MapInv
<1>7. \A k, x, r : Provided(k, x, r)' <=> Provided(k, x, r) BY <1>1, SameProvided
<1>8. ReadsInv' BY <1>1, <1>7 DEF FlattenInv, ReadsInv, ReadsInTime
<1>9. Sources' = Sources /\ StagedPins' = StagedPins BY <1>1 DEF Sources, StagedPins
<1>10. NoPanic' BY <1>1, <1>3, <1>9 DEF FlattenInv, NoPanic
<1>11. QED BY <1>2, <1>5, <1>6, <1>8, <1>10 DEF FlattenInv

LEMMA FlattenInvariant == Spec => []FlattenInv
<1>1. Init => FlattenInv
  <2>1. Init => ReadsInv /\ NoPanic
    BY EmptyPartial DEF Init, ReadsInv, ReadsInTime, NoPanic
  <2>2. QED BY <2>1, TypeInit, LaidInit, AllocInit, MapsInit DEF FlattenInv, Handed
<1>2. FlattenInv /\ [Next]_vars => FlattenInv'
  <2>1. ASSUME FlattenInv, Next PROVE FlattenInv'
    <3>1. Handed' BY <2>1, HandedStep DEF FlattenInv
    <3>2. DoneInv' BY <2>1, <3>1, DoneStep DEF FlattenInv, Handed, TypeOK
    <3>3. MapInv' BY <2>1, MapStep DEF FlattenInv, Handed
    <3>4. ReadsInv' BY <2>1, ReadsStep DEF FlattenInv, Handed
    <3>5. NoPanic' BY <2>1, PanicStep DEF FlattenInv, Handed
    <3>6. QED BY <3>1, <3>2, <3>3, <3>4, <3>5 DEF FlattenInv
  <2>2. QED BY <2>1, InvStutter
<1>3. QED BY <1>1, <1>2, PTL DEF Spec

(* No bit of the state and no SRAM word is given to two destinations,      *)
(* whatever the circuit.                                                   *)
THEOREM EveryBitHasOneWriter == Spec => []OneWriterPerBit
BY FlattenInvariant, HandedSeparates, PTL DEF FlattenInv

(* When the scripts are built, every output, register, staged value and    *)
(* memory is stored where the maps say, with its polarity, under its       *)
(* enable.                                                                 *)
THEOREM EveryEndpointServed == Spec => []EndpointsServed
<1>1. FlattenInv => EndpointsServed
  <2> SUFFICES ASSUME FlattenInv, phase \in {"build", "done"}, NEW k \in AllParts, NEW n \in Ends(k)
               PROVE  EndServed(k, n)
    BY DEF EndpointsServed
  <2>1. Past(k, n) /\ phase # "panic" BY DEF Past
  <2>2. QED BY <2>1, DoneServes DEF FlattenInv, Handed
<1>2. QED BY <1>1, FlattenInvariant, PTL

(* Every partition's script reads a pin where it is stored, and a staged   *)
(* one from an earlier major stage.                                        *)
THEOREM EveryReadInTime == Spec => []ReadsInTime
<1>1. FlattenInv => ReadsInTime BY DEF FlattenInv, ReadsInv
<1>2. QED BY <1>1, FlattenInvariant, PTL

(* The assembler panics only for the reasons NoPanic names: the duplicate  *)
(* words counted in advance are always those that are used, unless         *)
(* registers of the constant 0 have different enables.                     *)
THEOREM PanicsForAReason == Spec => []NoPanic
<1>1. FlattenInv => NoPanic BY DEF FlattenInv
<1>2. QED BY <1>1, FlattenInvariant, PTL
============================================================================
