--------------------------- MODULE ExecutorProofs ---------------------------
(***************************************************************************)
(* Whatever way stages are built, the executor's run of them computes and  *)
(* stores the values of the graph, as long as each stage is sound and      *)
(* loses nothing (ComputesTheGraph, StoresTheGraph); and the code's own    *)
(* way, Boomerang's, builds stages that are sound and lose nothing, for    *)
(* every partition (MapsSoundly, LosesNothing).                            *)
(*                                                                         *)
(* The executor.  The places of a stage are computed upwards from what is  *)
(* shuffled in, and each holds its pin's value if the places below do      *)
(* (StageComputes, by the least place that is wrong).  So the state after  *)
(* a stage is right if the one before it was, and so are the words it      *)
(* writes out.  The words of stage k follow base[k] others both in what    *)
(* the assembler lists and in what the executor writes (ExecInv), so a pin *)
(* is looked up where its value is.  Two activations never share an output *)
(* bit, since copies are numbered one by one behind the words (Numbered,   *)
(* OutputsApart); so the last writer of a bit stores what each endpoint of *)
(* its activation asks for.                                                *)
(*                                                                         *)
(* The mapper.  A hierarchy in which nothing lies below a free slot, pins  *)
(* are of no higher level than their slots and each slot is made from      *)
(* those below it stays so when a pin of the right level is put in a free  *)
(* slot (PlaceKeeps), and is as before when it is taken back               *)
(* (PurgeUndoes); so it is so through the passes over the levels, the      *)
(* words and the slots of a stage (StageClosed).  A pin that is done is in *)
(* a word that goes out.  Whatever is left to do and has an open way to an *)
(* endpoint is necessary, so that it is placed or the stage is refused;    *)
(* the pins below what is left are then either in the hierarchy or         *)
(* computed again (Carried).  Each pass is a fold or a function that is    *)
(* recursive over a bounded domain, and FoldProofs has the induction.      *)
(***************************************************************************)
EXTENDS Executor, Boomerang, TLAPS, FiniteSetTheorems, WellFoundedInduction

----------------------------------------------------------------------------
(* Numbers.                                                                *)
LEMMA HasMinimum ==
  ASSUME NEW S \in SUBSET Nat, S # {}
  PROVE  \E d \in S : \A e \in S : d <= e
<1>1. IsWellFoundedOn(OpToRel(<, Nat), Nat) BY NatLessThanWellFounded
<1>2. PICK d \in S : \A e \in S : ~ (<<e, d>> \in OpToRel(<, Nat)) BY <1>1, WFMin
<1>3. \A e \in S : ~(e < d) BY <1>2 DEF OpToRel
<1>4. QED BY <1>3

LEMMA MaxIs ==
  ASSUME NEW n \in Nat, NEW S \in SUBSET (0 .. n), S # {}
  PROVE  Max(S) \in S /\ \A x \in S : x <= Max(S)
<1> DEFINE T == {n - x : x \in S}
<1>1. T \in SUBSET Nat /\ T # {}
  <2>1. \A x \in S : n - x \in Nat OBVIOUS
  <2>2. QED BY <2>1
<1>2. PICK d \in T : \A e \in T : d <= e BY <1>1, HasMinimum
<1>3. PICK m \in S : d = n - m BY <1>2
<1>4. \A x \in S : m >= x
  <2>1. TAKE x \in S
  <2>2. d <= n - x BY <1>2
  <2>3. QED BY <1>3, <2>2
<1>5. Max(S) \in S /\ \A x \in S : Max(S) >= x BY <1>3, <1>4 DEF Max
<1>6. QED BY <1>5

LEMMA MinIs ==
  ASSUME NEW S \in SUBSET Nat, S # {}
  PROVE  Min(S) \in S /\ \A x \in S : Min(S) <= x
<1>1. PICK d \in S : \A e \in S : d <= e BY HasMinimum
<1>2. QED BY <1>1 DEF Min

(* A bit of a word, and back. *)
LEMMA BitOfWord ==
  ASSUME NEW w \in Nat, NEW j \in 0 .. Word - 1
  PROVE  /\ w * Word + j \in Nat
         /\ (w * Word + j) \div Word = w
         /\ (w * Word + j) % Word = j
<1>1. Word \in Nat \ {0} BY SizeAssumption
<1>2. w * Word \in Nat BY <1>1
<1> DEFINE q == (w * Word + j) \div Word
<1>3. q \in Int /\ q * Word <= w * Word + j /\ w * Word + j < q * Word + Word
      /\ (w * Word + j) % Word = w * Word + j - q * Word
  BY <1>1, <1>2
<1>4. q = w
  <2>1. CASE q < w
    <3>1. (w - q - 1) * Word >= 0 BY <1>1, <1>3, <2>1
    <3>2. (w - q - 1) * Word = w * Word - q * Word - Word BY <1>1, <1>3
    <3>3. QED BY <1>1, <1>3, <3>1, <3>2
  <2>2. CASE q > w
    <3>1. (q - w - 1) * Word >= 0 BY <1>1, <1>3, <2>2
    <3>2. (q - w - 1) * Word = q * Word - w * Word - Word BY <1>1, <1>3
    <3>3. QED BY <1>1, <1>3, <3>1, <3>2
  <2>3. QED BY <1>3, <2>1, <2>2
<1>5. QED BY <1>1, <1>2, <1>3, <1>4

----------------------------------------------------------------------------
(* The levels double in width, and every place is on one of them.          *)
LEMMA LevelsNat == Levels \in Nat \ {0} /\ Word \in Nat \ {0}
BY SizeAssumption

WidthFrom(n, f) ==
  f = [h \in Levels - n .. Levels |-> IF h = Levels THEN 1 ELSE 2 * f[h + 1]]

LEMMA WidthsExist ==
  \A n \in 0 .. Levels : \E f : WidthFrom(n, f)
<1> DEFINE S == {n \in 0 .. Levels : ~ \E f : WidthFrom(n, f)}
<1>1. SUFFICES ASSUME S # {} PROVE FALSE OBVIOUS
<1>2. PICK n \in S : \A e \in S : n <= e
  <2>1. S \in SUBSET Nat BY LevelsNat
  <2>2. QED BY <1>1, <2>1, HasMinimum
<1>3. n # 0
  <2> DEFINE f == [h \in Levels - 0 .. Levels |-> 1]
  <2>1. f = [h \in Levels - 0 .. Levels |-> IF h = Levels THEN 1 ELSE 2 * f[h + 1]]
    BY LevelsNat
  <2>2. WidthFrom(0, f) BY <2>1 DEF WidthFrom
  <2>3. QED BY <2>2
<1>4. n - 1 \in 0 .. Levels /\ n - 1 \notin S BY <1>2, <1>3, LevelsNat
<1>5. PICK f : WidthFrom(n - 1, f) BY <1>4
<1> DEFINE g == [h \in Levels - n .. Levels |-> IF h = Levels - n THEN 2 * f[h + 1] ELSE f[h]]
<1>6. f = [h \in Levels - (n - 1) .. Levels |-> IF h = Levels THEN 1 ELSE 2 * f[h + 1]]
  BY <1>5 DEF WidthFrom
<1>7. \A h \in Levels - n .. Levels : g[h] = IF h = Levels THEN 1 ELSE 2 * g[h + 1]
  <2>1. TAKE h \in Levels - n .. Levels
  <2>2. CASE h = Levels - n
    <3>1. h # Levels /\ h + 1 \in Levels - n .. Levels /\ h + 1 # Levels - n
      BY <1>3, <1>4, <2>2, LevelsNat
    <3>2. g[h] = 2 * f[h + 1] /\ g[h + 1] = f[h + 1] BY <2>2, <3>1
    <3>3. QED BY <3>1, <3>2
  <2>3. CASE h # Levels - n /\ h # Levels
    <3>1. h \in Levels - (n - 1) .. Levels /\ h + 1 \in Levels - n .. Levels /\ h + 1 # Levels - n
      BY <1>4, <2>3, LevelsNat
    <3>2. g[h] = f[h] /\ g[h + 1] = f[h + 1] BY <2>3, <3>1
    <3>3. QED BY <1>6, <2>3, <3>1, <3>2
  <2>4. CASE h # Levels - n /\ h = Levels
    <3>1. h \in Levels - (n - 1) .. Levels BY <1>4, <2>4, LevelsNat
    <3>2. QED BY <1>6, <2>4, <3>1
  <2>5. QED BY <2>2, <2>3, <2>4
<1>8. g = [h \in Levels - n .. Levels |-> IF h = Levels THEN 1 ELSE 2 * g[h + 1]] BY <1>7
<1>9. WidthFrom(n, g) BY <1>8 DEF WidthFrom
<1>10. QED BY <1>2, <1>9

LEMMA WidthStep ==
  /\ Width(Levels) = 1
  /\ \A h \in 0 .. Levels - 1 : Width(h) = 2 * Width(h + 1)
<1>1. PICK f : WidthFrom(Levels, f) BY WidthsExist, LevelsNat
<1>2. f = [h \in 0 .. Levels |-> IF h = Levels THEN 1 ELSE 2 * f[h + 1]]
  <2>1. Levels - Levels = 0 BY LevelsNat
  <2>2. QED BY <1>1, <2>1 DEF WidthFrom
<1>3. Widths = [h \in 0 .. Levels |-> IF h = Levels THEN 1 ELSE 2 * Widths[h + 1]]
  BY <1>2 DEF Widths
<1>4. QED BY <1>3, LevelsNat DEF Width

LEMMA WidthNat == \A h \in 0 .. Levels : Width(h) \in Nat \ {0}
<1> DEFINE S == {n \in 0 .. Levels : Width(Levels - n) \notin Nat \ {0}}
<1>1. SUFFICES ASSUME S # {} PROVE FALSE
  <2>1. ASSUME S = {}, NEW h \in 0 .. Levels PROVE Width(h) \in Nat \ {0}
    <3>1. Levels - h \in 0 .. Levels /\ Levels - (Levels - h) = h BY LevelsNat
    <3>2. QED BY <2>1, <3>1
  <2>2. QED BY <2>1
<1>2. PICK n \in S : \A e \in S : n <= e
  <2>1. S \in SUBSET Nat BY LevelsNat
  <2>2. QED BY <1>1, <2>1, HasMinimum
<1>3. CASE n = 0
  <2>1. Levels - n = Levels BY <1>3, LevelsNat
  <2>2. QED BY <1>2, <2>1, WidthStep
<1>4. CASE n # 0
  <2>1. n - 1 \in 0 .. Levels /\ n - 1 \notin S BY <1>2, <1>4, LevelsNat
  <2>2. Width(Levels - (n - 1)) \in Nat \ {0} BY <2>1
  <2>3. Levels - n \in 0 .. Levels - 1 /\ Levels - n + 1 = Levels - (n - 1) BY <1>4, <2>1, LevelsNat
  <2>4. Width(Levels - n) = 2 * Width(Levels - (n - 1)) BY <2>3, WidthStep
  <2>5. QED BY <1>2, <2>2, <2>4
<1>5. QED BY <1>3, <1>4

(* No level is wider than the lowest one. *)
LEMMA WidthBound ==
  \A h \in 0 .. Levels : Width(h) <= Width(0) /\ (h # 0 => 2 * Width(h) <= Width(0))
<1> DEFINE S == {h \in 0 .. Levels : ~(Width(h) <= Width(0))}
<1>1. ASSUME S # {} PROVE FALSE
  <2>1. PICK h \in S : \A e \in S : h <= e
    <3>1. S \in SUBSET Nat BY LevelsNat
    <3>2. QED BY <1>1, <3>1, HasMinimum
  <2>2. h # 0 BY WidthNat, LevelsNat
  <2>3. h - 1 \in 0 .. Levels /\ h - 1 \notin S BY <2>1, <2>2, LevelsNat
  <2>4. Width(h - 1) <= Width(0) BY <2>3
  <2>5. h - 1 \in 0 .. Levels - 1 /\ h - 1 + 1 = h /\ 0 \in 0 .. Levels BY <2>1, <2>2, LevelsNat
  <2>6. Width(h - 1) = 2 * Width(h) BY <2>5, WidthStep
  <2>7. Width(h) \in Nat /\ Width(0) \in Nat BY <2>1, <2>5, WidthNat
  <2>8. QED BY <2>1, <2>4, <2>6, <2>7
<1>2. TAKE h \in 0 .. Levels
<1>3. Width(h) <= Width(0) BY <1>1
<1>4. ASSUME h # 0 PROVE 2 * Width(h) <= Width(0)
  <2>1. h - 1 \in 0 .. Levels - 1 /\ h - 1 + 1 = h /\ h - 1 \in 0 .. Levels BY <1>4, LevelsNat
  <2>2. Width(h - 1) = 2 * Width(h) BY <2>1, WidthStep
  <2>3. Width(h - 1) <= Width(0) BY <1>1, <2>1
  <2>4. QED BY <2>2, <2>3
<1>5. QED BY <1>3, <1>4

LEMMA LevelIs ==
  ASSUME NEW pos \in Place
  PROVE  LevelAt[pos] \in 0 .. Levels /\ pos \in Width(LevelAt[pos]) .. 2 * Width(LevelAt[pos]) - 1
<1> DEFINE S == {h \in 0 .. Levels : Width(h) <= pos}
<1>1. Width(0) \in Nat \ {0} /\ pos \in Nat \ {0} /\ pos <= 2 * Width(0) - 1
  BY WidthNat, LevelsNat DEF Place
<1>2. S \in SUBSET Nat /\ Levels \in S BY <1>1, WidthStep, LevelsNat
<1>3. PICK h \in S : \A e \in S : h <= e BY <1>2, HasMinimum
<1>4. pos <= 2 * Width(h) - 1
  <2>1. CASE h = 0 BY <1>1, <2>1
  <2>2. CASE h # 0
    <3>1. h - 1 \in 0 .. Levels - 1 /\ h - 1 \in 0 .. Levels /\ h - 1 + 1 = h /\ h - 1 \notin S
      BY <1>3, <2>2, LevelsNat
    <3>2. Width(h - 1) > pos /\ Width(h - 1) = 2 * Width(h)
      BY <1>1, <3>1, WidthStep, WidthNat
    <3>3. QED BY <1>1, <1>3, <3>2, WidthNat
  <2>3. QED BY <2>1, <2>2
<1>5. pos \in Width(h) .. 2 * Width(h) - 1 BY <1>1, <1>3, <1>4, WidthNat
<1>6. \E k \in 0 .. Levels : pos \in Width(k) .. 2 * Width(k) - 1 BY <1>3, <1>5
<1>7. LevelAt[pos] = CHOOSE k \in 0 .. Levels : pos \in Width(k) .. 2 * Width(k) - 1 BY DEF LevelAt
<1>8. QED BY <1>6, <1>7

(* A position is on a level above the lowest, and reads two places below.  *)
LEMMA PositionBelow ==
  ASSUME NEW pos \in Position
  PROVE  /\ pos \in Place /\ Beside(pos) \in Place /\ Across(pos) \in Place
         /\ Beside(pos) > pos /\ Across(pos) > pos
<1> DEFINE h == LevelAt[pos]
<1>1. Width(0) \in Nat \ {0} BY WidthNat, LevelsNat
<1>2. pos \in Place /\ pos < Width(0) BY <1>1 DEF Position, Place
<1>3. h \in 0 .. Levels /\ pos \in Width(h) .. 2 * Width(h) - 1 BY <1>2, LevelIs
<1>4. h # 0 BY <1>1, <1>2, <1>3
<1>5. h - 1 \in 0 .. Levels - 1 /\ h - 1 \in 0 .. Levels /\ h - 1 + 1 = h BY <1>3, <1>4, LevelsNat
<1>6. Width(h - 1) = 2 * Width(h) /\ Width(h - 1) <= Width(0) /\ Width(h) \in Nat \ {0}
  BY <1>3, <1>5, WidthStep, WidthBound, WidthNat
<1>7. pos + Width(h) \in Place /\ pos + 2 * Width(h) \in Place BY <1>1, <1>3, <1>6 DEF Place
<1>8. QED BY <1>2, <1>3, <1>6, <1>7 DEF Beside, Across

(* The lowest level's places hold what is shuffled in. *)
LEMMA LowestPlace ==
  ASSUME NEW pos \in Place, pos >= Width(0), NEW hier
  PROVE  pos - Width(0) \in Slot(0) /\ PinAt(hier, pos) = hier[0][pos - Width(0)]
<1> DEFINE h == LevelAt[pos]
<1>1. Width(0) \in Nat \ {0} BY WidthNat, LevelsNat
<1>2. h \in 0 .. Levels /\ pos \in Width(h) .. 2 * Width(h) - 1 BY LevelIs
<1>3. h = 0
  <2>1. SUFFICES ASSUME h # 0 PROVE FALSE OBVIOUS
  <2>2. 2 * Width(h) <= Width(0) BY <1>2, <2>1, WidthBound
  <2>3. QED BY <1>1, <1>2, <2>2, WidthNat
<1>4. pos # 0 /\ pos - Width(0) \in 0 .. Width(0) - 1 BY <1>1, <1>2, <1>3 DEF Place
<1>5. QED BY <1>3, <1>4 DEF PinAt, Slot

----------------------------------------------------------------------------
(* The values of a graph satisfy its gates.                                *)
ValueOf(aig, ones_, f, p) ==
  IF IsAnd(aig, p)
  THEN /\ f[Pin(aig[p].a)] # Inverted(aig[p].a)
       /\ f[Pin(aig[p].b)] # Inverted(aig[p].b)
  ELSE p \in ones_

LEMMA FaninsBelow ==
  ASSUME NEW aig \in Seq(Driver), Acyclic(aig), NEW p \in 0 .. Len(aig), IsAnd(aig, p)
  PROVE  /\ p \in 1 .. Len(aig) /\ aig[p].a \in Nat /\ aig[p].b \in Nat
         /\ Pin(aig[p].a) \in 0 .. p - 1 /\ Pin(aig[p].b) \in 0 .. p - 1
<1>1. p \in DOMAIN aig /\ p \in 1 .. Len(aig) BY DEF IsAnd
<1>2. aig[p] \in Driver BY <1>1
<1>3. aig[p].a \in Nat /\ aig[p].b \in Nat BY <1>2 DEF Driver
<1>4. Pin(aig[p].a) < p /\ Pin(aig[p].b) < p BY <1>1 DEF Acyclic
<1>5. Pin(aig[p].a) \in Nat /\ Pin(aig[p].b) \in Nat BY <1>3 DEF Pin
<1>6. QED BY <1>1, <1>3, <1>4, <1>5

LEMMA ValuesExist ==
  ASSUME NEW aig \in Seq(Driver), Acyclic(aig), NEW ones_
  PROVE  \A n \in 0 .. Len(aig) : \E f : f = [p \in 0 .. n |-> ValueOf(aig, ones_, f, p)]
<1> DEFINE S == {n \in 0 .. Len(aig) : ~ \E f : f = [p \in 0 .. n |-> ValueOf(aig, ones_, f, p)]}
<1>1. SUFFICES ASSUME S # {} PROVE FALSE OBVIOUS
<1>2. PICK n \in S : \A e \in S : n <= e
  <2>1. S \in SUBSET Nat OBVIOUS
  <2>2. QED BY <1>1, <2>1, HasMinimum
<1>3. n # 0
  <2> DEFINE f == [p \in 0 .. 0 |-> p \in ones_]
  <2>1. ~IsAnd(aig, 0) BY DEF IsAnd
  <2>2. \A p \in 0 .. 0 : f[p] = ValueOf(aig, ones_, f, p) BY <2>1 DEF ValueOf
  <2>3. f = [p \in 0 .. 0 |-> ValueOf(aig, ones_, f, p)] BY <2>2
  <2>4. 0 \notin S BY <2>3
  <2>5. QED BY <2>4
<1>4. n - 1 \in 0 .. Len(aig) /\ n - 1 \notin S BY <1>2, <1>3
<1>5. PICK f : f = [p \in 0 .. n - 1 |-> ValueOf(aig, ones_, f, p)] BY <1>4
<1> DEFINE g == [p \in 0 .. n |-> IF p = n THEN ValueOf(aig, ones_, f, n) ELSE f[p]]
<1>6. \A p \in 0 .. n : ValueOf(aig, ones_, f, p) = ValueOf(aig, ones_, g, p)
  <2>1. TAKE p \in 0 .. n
  <2>2. CASE ~IsAnd(aig, p) BY <2>2 DEF ValueOf
  <2>3. CASE IsAnd(aig, p)
    <3>1. Pin(aig[p].a) \in 0 .. p - 1 /\ Pin(aig[p].b) \in 0 .. p - 1
      BY <1>4, <2>3, FaninsBelow
    <3>2. g[Pin(aig[p].a)] = f[Pin(aig[p].a)] /\ g[Pin(aig[p].b)] = f[Pin(aig[p].b)]
      BY <1>4, <3>1
    <3>3. QED BY <2>3, <3>2 DEF ValueOf
  <2>4. QED BY <2>2, <2>3
<1>7. \A p \in 0 .. n : g[p] = ValueOf(aig, ones_, g, p)
  <2>1. TAKE p \in 0 .. n
  <2>2. CASE p = n BY <1>6, <2>2
  <2>3. CASE p # n
    <3>1. p \in 0 .. n - 1 BY <1>4, <2>3
    <3>2. f[p] = ValueOf(aig, ones_, f, p) BY <1>5, <3>1
    <3>3. QED BY <1>6, <2>3, <3>2
  <2>4. QED BY <2>2, <2>3
<1>8. g = [p \in 0 .. n |-> ValueOf(aig, ones_, g, p)] BY <1>7
<1>9. QED BY <1>2, <1>8

LEMMA ValuesAre ==
  ASSUME NEW aig \in Seq(Driver), Acyclic(aig), NEW ones_, NEW p \in 0 .. Len(aig)
  PROVE  /\ PinValue(aig, ones_, p) = ValueOf(aig, ones_, PinValues(aig, ones_), p)
         /\ PinValue(aig, ones_, p) \in BOOLEAN
<1> DEFINE v == PinValues(aig, ones_)
<1>1. \E f : f = [q \in 0 .. Len(aig) |-> ValueOf(aig, ones_, f, q)] BY ValuesExist
<1>2. v = CHOOSE f : f = [q \in 0 .. Len(aig) |-> ValueOf(aig, ones_, f, q)]
  BY DEF PinValues, ValueOf
<1>3. v = [q \in 0 .. Len(aig) |-> ValueOf(aig, ones_, v, q)] BY <1>1, <1>2
<1>4. v[p] = ValueOf(aig, ones_, v, p) BY <1>3
<1>5. PinValue(aig, ones_, p) = v[p] BY DEF PinValue
<1>6. ValueOf(aig, ones_, v, p) \in BOOLEAN
  <2>1. CASE IsAnd(aig, p) BY <2>1 DEF ValueOf
  <2>2. CASE ~IsAnd(aig, p)
    <3>1. (p \in ones_) \in BOOLEAN OBVIOUS
    <3>2. QED BY <2>2, <3>1 DEF ValueOf
  <2>3. QED BY <2>1, <2>2
<1>7. QED BY <1>4, <1>5, <1>6

LEMMA GateValue ==
  ASSUME NEW aig \in Seq(Driver), Acyclic(aig), NEW ones_, NEW p \in 0 .. Len(aig), IsAnd(aig, p),
         NEW x, NEW y, x = PinValue(aig, ones_, Pin(aig[p].a)), y = PinValue(aig, ones_, Pin(aig[p].b))
  PROVE  PinValue(aig, ones_, p) = (x # Inverted(aig[p].a) /\ y # Inverted(aig[p].b))
BY ValuesAre DEF ValueOf, PinValue

----------------------------------------------------------------------------
(* The bits of a stage satisfy its hierarchy.                              *)
BitOf(k, f, pos) ==
  LET hier == stages[k].hier
  IN  IF pos >= Width(0) THEN Shuffled(k, PinAt(hier, pos))
      ELSE /\ f[Beside(pos)] # XorA(hier, pos)
           /\ (f[Across(pos)] # XorB(hier, pos)) \/ PassThrough(hier, pos)

PlacesFrom(n) == 2 * Width(0) - n .. 2 * Width(0) - 1

LEMMA BitsExist ==
  ASSUME NEW k
  PROVE  \A n \in 0 .. 2 * Width(0) - 1 : \E f : f = [pos \in PlacesFrom(n) |-> BitOf(k, f, pos)]
<1> DEFINE N == 2 * Width(0)
           S == {n \in 0 .. N - 1 : ~ \E f : f = [pos \in PlacesFrom(n) |-> BitOf(k, f, pos)]}
<1>w. Width(0) \in Nat \ {0} BY WidthNat, LevelsNat
<1>1. SUFFICES ASSUME S # {} PROVE FALSE OBVIOUS
<1>2. PICK n \in S : \A e \in S : n <= e
  <2>1. S \in SUBSET Nat BY <1>w
  <2>2. QED BY <1>1, <2>1, HasMinimum
<1>3. n # 0
  <2> DEFINE f == [pos \in PlacesFrom(0) |-> 0]
  <2>1. PlacesFrom(0) = {} BY <1>w DEF PlacesFrom
  <2>2. f = [pos \in PlacesFrom(0) |-> BitOf(k, f, pos)] BY <2>1
  <2>3. 0 \notin S BY <2>2
  <2>4. QED BY <2>3
<1>4. n - 1 \in 0 .. N - 1 /\ n - 1 \notin S BY <1>w, <1>2, <1>3
<1>5. PICK f : f = [pos \in PlacesFrom(n - 1) |-> BitOf(k, f, pos)] BY <1>4
<1> DEFINE new == N - n
           g == [pos \in PlacesFrom(n) |-> IF pos = new THEN BitOf(k, f, new) ELSE f[pos]]
<1>6. PlacesFrom(n) = PlacesFrom(n - 1) \cup {new} /\ new \notin PlacesFrom(n - 1) /\ new \in Nat
      /\ PlacesFrom(n) \subseteq Place
  BY <1>w, <1>4 DEF PlacesFrom, Place
<1>7. \A pos \in PlacesFrom(n) : BitOf(k, f, pos) = BitOf(k, g, pos)
  <2>1. TAKE pos \in PlacesFrom(n)
  <2>2. CASE pos >= Width(0) BY <2>2 DEF BitOf
  <2>3. CASE ~(pos >= Width(0))
    <3>1. pos \in Position BY <1>w, <1>6, <2>3 DEF Position, Place
    <3>2. Beside(pos) \in PlacesFrom(n - 1) /\ Across(pos) \in PlacesFrom(n - 1)
      <4>1. /\ Beside(pos) \in Place /\ Across(pos) \in Place
            /\ Beside(pos) > pos /\ Across(pos) > pos BY <3>1, PositionBelow
      <4>2. QED BY <1>w, <1>4, <4>1 DEF PlacesFrom, Place
    <3>3. g[Beside(pos)] = f[Beside(pos)] /\ g[Across(pos)] = f[Across(pos)] BY <1>6, <3>2
    <3>4. QED BY <2>3, <3>3 DEF BitOf
  <2>4. QED BY <2>2, <2>3
<1>8. \A pos \in PlacesFrom(n) : g[pos] = BitOf(k, g, pos)
  <2>1. TAKE pos \in PlacesFrom(n)
  <2>2. CASE pos = new BY <1>7, <2>2
  <2>3. CASE pos # new
    <3>1. pos \in PlacesFrom(n - 1) BY <1>6, <2>3
    <3>2. f[pos] = BitOf(k, f, pos) BY <1>5, <3>1
    <3>3. QED BY <1>7, <2>3, <3>2
  <2>4. QED BY <2>2, <2>3
<1>9. g = [pos \in PlacesFrom(n) |-> BitOf(k, g, pos)] BY <1>8
<1>10. QED BY <1>2, <1>9

LEMMA BitsAre ==
  ASSUME NEW k, NEW pos \in Place
  PROVE  Bits(k)[pos] = BitOf(k, Bits(k), pos)
<1> DEFINE v == Bits(k)
<1>w. Width(0) \in Nat \ {0} BY WidthNat, LevelsNat
<1>1. PlacesFrom(2 * Width(0) - 1) = Place BY <1>w DEF PlacesFrom, Place
<1>2. 2 * Width(0) - 1 \in 0 .. 2 * Width(0) - 1 BY <1>w
<1>3. \E f : f = [q \in Place |-> BitOf(k, f, q)]
  <2>1. \E f : f = [q \in PlacesFrom(2 * Width(0) - 1) |-> BitOf(k, f, q)] BY <1>2, BitsExist
  <2>2. QED BY <1>1, <2>1
<1>4. v = CHOOSE f : f = [q \in Place |-> BitOf(k, f, q)] BY DEF Bits, BitOf
<1>5. v = [q \in Place |-> BitOf(k, v, q)] BY <1>3, <1>4
<1>6. QED BY <1>5

----------------------------------------------------------------------------
(* What is asked of a stage: the part of HierarchySound and NothingLost    *)
(* that is about it alone, or about it and the stage before it.            *)
StageSound(k) ==
  LET hier == stages[k].hier
  IN  /\ stages[k].outs \in Seq(0 .. Width(0) \div Word - 1)
      /\ \A pos \in Position :
           \/ PinAt(hier, pos) = Free
           \/ PassThrough(hier, pos)
           \/ /\ IsAnd(part.aig, PinAt(hier, pos))
              /\ Pin(part.aig[PinAt(hier, pos)].a) = PinAt(hier, Beside(pos))
              /\ Pin(part.aig[PinAt(hier, pos)].b) = PinAt(hier, Across(pos))
      /\ \A j \in Slot(0) :
           hier[0][j] # Free =>
             IF k = 1 THEN hier[0][j] \in Sources \cup part.inputs
             ELSE PlacesOf(stages[k - 1].hier, hier[0][j]) # {}

StagesSound == \A k \in DOMAIN stages : StageSound(k)

LEMMA SoundIsAsked == HierarchySound /\ NothingLost => StagesSound
BY DEF HierarchySound, NothingLost, StagesSound, StageSound

(* A bit is right if its place is empty or it has the value of the pin.    *)
Right(p, bit) ==
  p # Free => p \in 0 .. Len(part.aig) /\ bit = PinValue(part.aig, ones, p)

StateRight(k) ==
  \A pos \in Position : Right(PinAt(stages[k].hier, pos), state[pos])

LEMMA PartTypes ==
  ASSUME part \in Partitions
  PROVE  /\ part.aig \in Seq(Driver) /\ Acyclic(part.aig) /\ Len(part.aig) \in Nat
         /\ part.inputs \subseteq 1 .. Len(part.aig) /\ Sources \subseteq 1 .. Len(part.aig)
         /\ DOMAIN part.aig = 1 .. Len(part.aig)
BY PartitionAssumption DEF Sources

LEMMA PositionIn == Position \subseteq 0 .. Width(0)
BY WidthNat, LevelsNat DEF Position

(* The pins of the stage before are where the permutation looks for them.  *)
LEMMA ShuffledRight ==
  ASSUME part \in Partitions, NEW k \in Nat \ {0}, StageSound(k),
         k > 1 => StateRight(k - 1), NEW j \in Slot(0)
  PROVE  Right(stages[k].hier[0][j], Shuffled(k, stages[k].hier[0][j]))
<1> DEFINE p == stages[k].hier[0][j]
<1>1. SUFFICES ASSUME p # Free
               PROVE  p \in 0 .. Len(part.aig) /\ Shuffled(k, p) = PinValue(part.aig, ones, p)
  BY DEF Right
<1>2. CASE k = 1
  <2>1. p \in Sources \cup part.inputs BY <1>1, <1>2 DEF StageSound
  <2>2. p \in 0 .. Len(part.aig) BY <2>1, PartTypes
  <2>3. QED BY <1>1, <1>2, <2>2 DEF Shuffled
<1>3. CASE k # 1
  <2> DEFINE before == stages[k - 1].hier
  <2>1. k > 1 BY <1>3
  <2>2. PlacesOf(before, p) # {} BY <1>1, <1>3 DEF StageSound
  <2>3. PlacesOf(before, p) \in SUBSET (0 .. Width(0)) BY PositionIn DEF PlacesOf
  <2>4. Width(0) \in Nat BY WidthNat, LevelsNat
  <2>5. LocalPos(before, p) \in PlacesOf(before, p) BY <2>2, <2>3, <2>4, MaxIs DEF LocalPos
  <2>6. LocalPos(before, p) \in Position /\ PinAt(before, LocalPos(before, p)) = p
    BY <2>5 DEF PlacesOf
  <2>7. Right(p, state[LocalPos(before, p)]) BY <2>1, <2>6 DEF StateRight
  <2>8. Shuffled(k, p) = state[LocalPos(before, p)] BY <1>1, <1>3, <2>1 DEF Shuffled
  <2>9. QED BY <1>1, <2>7, <2>8 DEF Right
<1>4. QED BY <1>2, <1>3

LEMMA StageComputes ==
  ASSUME part \in Partitions, NEW k \in Nat \ {0}, StageSound(k),
         k > 1 => StateRight(k - 1), NEW pos \in Place
  PROVE  Right(PinAt(stages[k].hier, pos), Bits(k)[pos])
<1> DEFINE hier == stages[k].hier
           bits == Bits(k)
           N == 2 * Width(0)
           S == {n \in Nat : N - n \in Place /\ ~Right(PinAt(hier, N - n), bits[N - n])}
<1>w. Width(0) \in Nat \ {0} BY WidthNat, LevelsNat
<1>1. ASSUME S # {} PROVE FALSE
  <2>1. S \in SUBSET Nat OBVIOUS
  <2>2. PICK n \in S : \A e \in S : n <= e BY <1>1, <2>1, HasMinimum
  <2> DEFINE q == N - n
             p == PinAt(hier, q)
  <2>3. q \in Place /\ ~Right(p, bits[q]) BY <2>2
  <2>4. \A r \in Place : r > q => Right(PinAt(hier, r), bits[r])
    <3>1. TAKE r \in Place
    <3>2. HAVE r > q
    <3>3. N - r \in Nat /\ N - (N - r) = r BY <1>w DEF Place
    <3>4. N - r < n BY <1>w, <2>2, <2>3, <3>2 DEF Place
    <3>5. N - r \notin S BY <2>2, <3>3, <3>4
    <3>6. QED BY <3>3, <3>5
  <2>5. bits[q] = BitOf(k, bits, q) BY <2>3, BitsAre
  <2>6. CASE q >= Width(0)
    <3>1. q - Width(0) \in Slot(0) /\ p = hier[0][q - Width(0)] BY <2>3, <2>6, LowestPlace
    <3>2. bits[q] = Shuffled(k, p) BY <2>5, <2>6 DEF BitOf
    <3>3. Right(p, Shuffled(k, p)) BY <3>1, ShuffledRight
    <3>4. QED BY <2>3, <3>2, <3>3
  <2>7. CASE ~(q >= Width(0))
    <3>1. q \in Position BY <1>w, <2>3, <2>7 DEF Position, Place
    <3>2. /\ Beside(q) \in Place /\ Across(q) \in Place
          /\ Beside(q) > q /\ Across(q) > q BY <3>1, PositionBelow
    <3>3. /\ Right(PinAt(hier, Beside(q)), bits[Beside(q)])
          /\ Right(PinAt(hier, Across(q)), bits[Across(q)]) BY <2>4, <3>2
    <3>4. bits[q] = (/\ bits[Beside(q)] # XorA(hier, q)
                     /\ (bits[Across(q)] # XorB(hier, q)) \/ PassThrough(hier, q))
      BY <2>5, <2>7 DEF BitOf
    <3>5. p # Free BY <2>3 DEF Right
    <3>6. CASE PassThrough(hier, q)
      <4>1. p = PinAt(hier, Beside(q)) /\ XorA(hier, q) = FALSE
        BY <3>6 DEF PassThrough, XorA, Gate
      <4>2. p \in 0 .. Len(part.aig) /\ bits[Beside(q)] = PinValue(part.aig, ones, p)
        BY <3>3, <3>5, <4>1 DEF Right
      <4>3. PinValue(part.aig, ones, p) \in BOOLEAN BY <4>2, PartTypes, ValuesAre
      <4>4. bits[q] = (bits[Beside(q)] # FALSE) BY <3>4, <3>6, <4>1
      <4>5. bits[q] = PinValue(part.aig, ones, p) BY <4>2, <4>3, <4>4
      <4>6. QED BY <2>3, <4>2, <4>5 DEF Right
    <3>7. CASE ~PassThrough(hier, q)
      <4>1. /\ IsAnd(part.aig, p)
            /\ Pin(part.aig[p].a) = PinAt(hier, Beside(q))
            /\ Pin(part.aig[p].b) = PinAt(hier, Across(q))
        BY <3>1, <3>5, <3>7 DEF StageSound
      <4>2. p \in 0 .. Len(part.aig) BY <4>1, PartTypes DEF IsAnd
      <4>3. Pin(part.aig[p].a) \in 0 .. p - 1 /\ Pin(part.aig[p].b) \in 0 .. p - 1
        BY <4>1, <4>2, PartTypes, FaninsBelow
      <4>4. PinAt(hier, Beside(q)) # Free /\ PinAt(hier, Across(q)) # Free
        BY <4>1, <4>3 DEF Free
      <4>5. /\ bits[Beside(q)] = PinValue(part.aig, ones, Pin(part.aig[p].a))
            /\ bits[Across(q)] = PinValue(part.aig, ones, Pin(part.aig[p].b))
        BY <3>3, <4>1, <4>4 DEF Right
      <4>6. XorA(hier, q) = Inverted(part.aig[p].a) /\ XorB(hier, q) = Inverted(part.aig[p].b)
        BY <3>5, <3>7 DEF XorA, XorB, Gate, Inverted
      <4>7. PinValue(part.aig, ones, p) =
              (bits[Beside(q)] # Inverted(part.aig[p].a) /\ bits[Across(q)] # Inverted(part.aig[p].b))
        BY <4>1, <4>2, <4>5, PartTypes, GateValue
      <4>8. bits[q] = (bits[Beside(q)] # XorA(hier, q) /\ bits[Across(q)] # XorB(hier, q))
        BY <3>4, <3>7
      <4>9. bits[q] = PinValue(part.aig, ones, p) BY <4>6, <4>7, <4>8
      <4>10. QED BY <2>3, <4>2, <4>9 DEF Right
    <3>8. QED BY <3>6, <3>7
  <2>8. QED BY <2>6, <2>7
<1>2. N - pos \in Nat /\ N - (N - pos) = pos BY <1>w DEF Place
<1>3. QED BY <1>1, <1>2

----------------------------------------------------------------------------
(* Sequences.                                                              *)
LEMMA AppendFacts ==
  ASSUME NEW S, NEW s \in Seq(S), NEW e
  PROVE  /\ Append(s, e) \in Seq(S \cup {e}) /\ Len(Append(s, e)) = Len(s) + 1
         /\ \A k \in 1 .. Len(s) : Append(s, e)[k] = s[k]
         /\ Append(s, e)[Len(s) + 1] = e
<1>1. s \in Seq(S \cup {e}) /\ e \in S \cup {e} OBVIOUS
<1>2. QED BY <1>1

LEMMA ConcatFacts ==
  ASSUME NEW S, NEW T, NEW s \in Seq(S), NEW t \in Seq(T)
  PROVE  /\ s \o t \in Seq(S \cup T) /\ Len(s \o t) = Len(s) + Len(t)
         /\ \A k \in 1 .. Len(s) : (s \o t)[k] = s[k]
         /\ \A k \in 1 .. Len(t) : (s \o t)[Len(s) + k] = t[k]
<1>1. s \in Seq(S \cup T) /\ t \in Seq(S \cup T) OBVIOUS
<1>2. QED BY <1>1

LEMMA ElementIn ==
  ASSUME NEW S, NEW s \in Seq(S), NEW i \in 1 .. Len(s)
  PROVE  s[i] \in S
OBVIOUS

LEMMA WordsOfFacts ==
  ASSUME NEW O, NEW outs \in Seq(O), NEW bits
  PROVE  /\ WordsOf(bits, outs) \in Seq({WordFrom(bits, outs[i]) : i \in DOMAIN outs})
         /\ Len(WordsOf(bits, outs)) = Len(outs)
         /\ \A i \in 1 .. Len(outs) : WordsOf(bits, outs)[i] = WordFrom(bits, outs[i])
BY DEF WordsOf

(* The positions of a word are positions. *)
LEMMA WordInside ==
  ASSUME NEW w \in 0 .. Width(0) \div Word - 1, NEW j \in 1 .. Word
  PROVE  w * Word + j - 1 \in 0 .. Width(0) - 1
<1> DEFINE q == Width(0) \div Word
<1>1. Word \in Nat \ {0} /\ Width(0) \in Nat BY WidthNat, LevelsNat
<1>2. q \in Nat /\ q * Word <= Width(0) BY <1>1
<1>3. (q - w - 1) * Word >= 0 BY <1>1, <1>2
<1>4. (q - w - 1) * Word = q * Word - w * Word - Word BY <1>1, <1>2
<1>5. w * Word \in Nat /\ q * Word \in Nat BY <1>1, <1>2
<1>6. QED BY <1>1, <1>2, <1>3, <1>4, <1>5

----------------------------------------------------------------------------
(* The words of stage k are written out after base[k] others.              *)
Offsets(base) ==
  /\ base \in [1 .. Len(stages) + 1 -> Nat] /\ base[1] = 0
  /\ \A k \in DOMAIN stages : base[k + 1] = base[k] + Len(stages[k].outs)
  /\ written = base[Len(stages) + 1]

Flattened(base, n) ==
  /\ \E S : wos \in Seq(S)
  /\ Len(wos) = base[n + 1]
  /\ \A k \in 1 .. n : \A i \in 1 .. Len(stages[k].outs) :
       /\ base[k] + i \in 1 .. Len(wos)
       /\ wos[base[k] + i] = WordFrom(After(stages[k].hier), stages[k].outs[i])

WordsRight ==
  \A n \in 1 .. Len(writeouts) : \A i \in 1 .. Word : Right(wos[n][i], writeouts[n][i])

Executed(base) ==
  /\ Flattened(base, Len(stages))
  /\ \E S : writeouts \in Seq(S)
  /\ Len(writeouts) = base[at + 1]
  /\ at > 0 => StateRight(at)
  /\ WordsRight

Sequential == \E S : stages \in Seq(S)

Progress ==
  /\ at \in 0 .. Len(stages)
  /\ phase \in {"map", "refused", "flatten", "run", "done"}
  /\ phase \in {"map", "refused"} => at = 0 /\ wos = <<>>
  /\ phase \in {"map", "refused", "flatten"} => writeouts = <<>>
  /\ phase \in {"flatten", "run", "done"} => unrealized = <<>>
  /\ phase = "done" => at = Len(stages)

(* The inductive invariant: with sound stages, every word written out so   *)
(* far has the values of its pins, and so has the state it came from.      *)
ExecInv ==
  /\ part \in Partitions /\ Sequential /\ Progress
  /\ ones \subseteq Sources
  /\ StagesSound => \E base : /\ Offsets(base)
                              /\ phase = "flatten" => Flattened(base, at)
                              /\ phase \in {"run", "done"} => Executed(base)

LEMMA InitStep == Init => ExecInv
<1> SUFFICES ASSUME Init PROVE ExecInv OBVIOUS
<1>1. stages = <<>> /\ wos = <<>> /\ writeouts = <<>> /\ at = 0 /\ phase = "map" BY DEF Init
<1>2. Sequential
  <2>1. <<>> \in Seq({}) OBVIOUS
  <2>2. QED BY <1>1, <2>1 DEF Sequential
<1>3. Progress BY <1>1 DEF Progress
<1> DEFINE base == [k \in 1 .. Len(stages) + 1 |-> 0]
<1>4. Len(stages) = 0 /\ DOMAIN stages = {} BY <1>1
<1>5. base \in [1 .. Len(stages) + 1 -> Nat] OBVIOUS
<1>6. base[1] = 0 /\ base[Len(stages) + 1] = 0 BY <1>4
<1>7. Offsets(base) BY <1>4, <1>5, <1>6 DEF Offsets, Init
<1>8. part \in Partitions /\ ones = {} BY DEF Init
<1>9. QED BY <1>1, <1>2, <1>3, <1>7, <1>8 DEF ExecInv

(* A stage more leaves what was asked of those before it as it was.        *)
LEMMA MapStep ==
  ASSUME ExecInv, MapStage
  PROVE  ExecInv'
<1>1. PICK S : stages \in Seq(S) BY DEF ExecInv, Sequential
<1>2. PICK s : /\ stages' = Append(stages, s.stage)
               /\ written' = written + Len(s.stage.outs)
  BY DEF MapStage
<1>3. /\ phase = "map" /\ phase' = "map" /\ part' = part
      /\ ones' = ones /\ at' = at /\ wos' = wos /\ writeouts' = writeouts
  BY DEF MapStage, running
<1>n. PICK n : n = Len(stages) OBVIOUS
<1>4. /\ n = Len(stages) /\ stages' \in Seq(S \cup {s.stage}) /\ Len(stages') = n + 1 /\ n \in Nat
      /\ \A k \in 1 .. n : stages'[k] = stages[k]
      /\ stages'[n + 1] = s.stage
      /\ DOMAIN stages = 1 .. n /\ DOMAIN stages' = 1 .. n + 1
  BY <1>n, <1>1, <1>2, AppendFacts
<1>5. Sequential' BY <1>4 DEF Sequential
<1>6. Progress' BY <1>3, <1>4 DEF ExecInv, Progress
<1>7. ones' \subseteq Sources' BY <1>3 DEF ExecInv, Sources
<1>8. ASSUME StagesSound' PROVE StagesSound
  <2>1. SUFFICES ASSUME NEW k \in 1 .. n PROVE StageSound(k) BY <1>4 DEF StagesSound
  <2>2. StageSound(k)' BY <1>4, <1>8 DEF StagesSound
  <2>3. stages'[k] = stages[k] /\ (k # 1 => stages'[k - 1] = stages[k - 1]) BY <1>4
  <2>4. QED BY <1>3, <2>2, <2>3 DEF StageSound, PassThrough, Sources
<1>9. ASSUME StagesSound' PROVE \E base : Offsets(base)'
  <2>1. PICK base : Offsets(base) BY <1>8, <1>9 DEF ExecInv
  <2> DEFINE more == [k \in 1 .. n + 2 |-> IF k = n + 2 THEN base[n + 1] + Len(s.stage.outs) ELSE base[k]]
  <2>2. StageSound(n + 1)' BY <1>4, <1>9 DEF StagesSound
  <2>3. Len(s.stage.outs) \in Nat
    <3>1. s.stage.outs \in Seq(0 .. Width(0) \div Word - 1) BY <1>4, <2>2 DEF StageSound
    <3>2. QED BY <3>1
  <2>4. /\ base \in [1 .. n + 1 -> Nat] /\ base[1] = 0
        /\ \A k \in 1 .. n : base[k + 1] = base[k] + Len(stages[k].outs)
        /\ written = base[n + 1]
    BY <1>4, <2>1 DEF Offsets
  <2>5. more \in [1 .. n + 2 -> Nat] BY <1>4, <2>3, <2>4
  <2>6. more[1] = 0 BY <1>4, <2>4
  <2>7. \A k \in 1 .. n + 1 : more[k + 1] = more[k] + Len(stages'[k].outs)
    <3>1. TAKE k \in 1 .. n + 1
    <3>2. CASE k = n + 1 BY <1>4, <3>2
    <3>3. CASE k # n + 1
      <4>1. k \in 1 .. n /\ more[k + 1] = base[k + 1] /\ more[k] = base[k] BY <1>4, <3>3
      <4>2. QED BY <1>4, <2>4, <4>1
    <3>4. QED BY <3>2, <3>3
  <2>8. written' = more[n + 2] BY <1>2, <1>4, <2>4
  <2>9. Len(stages') + 1 = n + 2 BY <1>4
  <2>10. Offsets(more)' BY <1>4, <2>5, <2>6, <2>7, <2>8, <2>9 DEF Offsets
  <2>11. QED BY <2>10
<1>10. part' \in Partitions BY <1>3 DEF ExecInv
<1>11. QED BY <1>3, <1>5, <1>6, <1>7, <1>9, <1>10 DEF ExecInv

(* What the steps that leave the mapping alone keep of it. *)
LEMMA SameMapping ==
  ASSUME UNCHANGED mapping
  PROVE  /\ StagesSound' = StagesSound /\ Sources' = Sources
         /\ part' = part /\ stages' = stages /\ unrealized' = unrealized
         /\ \A base : Offsets(base)' = Offsets(base)
<1>1. part' = part /\ stages' = stages /\ unrealized' = unrealized /\ written' = written
  BY DEF mapping
<1>2. \A k : StageSound(k)' = StageSound(k)
  BY <1>1 DEF StageSound, PassThrough, Sources
<1>3. StagesSound' = StagesSound BY <1>1, <1>2 DEF StagesSound
<1>4. Sources' = Sources BY <1>1 DEF Sources
<1>5. \A base : Offsets(base)' = Offsets(base) BY <1>1 DEF Offsets
<1>6. QED BY <1>1, <1>3, <1>4, <1>5

LEMMA IdleStep ==
  ASSUME ExecInv, Refuse \/ Flatten \/ Load \/ StoreOutputs
  PROVE  ExecInv'
<1>1. /\ UNCHANGED mapping /\ wos' = wos /\ writeouts' = writeouts /\ state' = state
      /\ ones' \subseteq Sources
  BY DEF Refuse, Flatten, Load, StoreOutputs, running, ExecInv
<1>2. /\ StagesSound' = StagesSound /\ Sources' = Sources
      /\ part' = part /\ stages' = stages /\ unrealized' = unrealized
      /\ \A base : Offsets(base)' = Offsets(base)
  BY <1>1, SameMapping
<1>3. Sequential' BY <1>2 DEF ExecInv, Sequential
<1>4. PICK S : stages \in Seq(S) BY DEF ExecInv, Sequential
<1>5. Len(stages) \in Nat BY <1>4
<1>6. Progress'
  <2>1. CASE Refuse BY <1>1, <1>2, <2>1 DEF Refuse, running, ExecInv, Progress
  <2>2. CASE Flatten BY <1>1, <1>2, <2>2 DEF Flatten, running, ExecInv, Progress
  <2>3. CASE Load BY <1>1, <1>2, <1>5, <2>3 DEF Load, ExecInv, Progress
  <2>4. CASE StoreOutputs BY <1>1, <1>2, <2>4 DEF StoreOutputs, ExecInv, Progress
  <2>5. QED BY <2>1, <2>2, <2>3, <2>4
<1>7. ASSUME StagesSound
      PROVE  \E base : /\ Offsets(base)
                       /\ phase' = "flatten" => Flattened(base, at)'
                       /\ phase' \in {"run", "done"} => Executed(base)'
  <2>1. PICK base : /\ Offsets(base)
                    /\ phase = "flatten" => Flattened(base, at)
                    /\ phase \in {"run", "done"} => Executed(base)
    BY <1>7 DEF ExecInv
  <2>2. base[1] = 0 BY <2>1 DEF Offsets
  <2>3. CASE Refuse BY <2>1, <2>3 DEF Refuse
  <2>4. CASE Flatten
    <3>1. at = 0 /\ at' = 0 /\ wos' = <<>> /\ phase' = "flatten"
      BY <1>1, <2>4 DEF Flatten, running, ExecInv, Progress
    <3>2. wos' \in Seq({}) BY <3>1
    <3>3. Flattened(base, at)' BY <2>2, <3>1, <3>2 DEF Flattened
    <3>4. QED BY <2>1, <3>1, <3>3
  <2>5. CASE Load
    <3>1. phase = "flatten" /\ phase' = "run" /\ at = Len(stages) /\ at' = 0 /\ writeouts = <<>>
      BY <2>5 DEF Load, ExecInv, Progress
    <3>2. Flattened(base, Len(stages)) BY <2>1, <3>1
    <3>3. Flattened(base, Len(stages))' BY <1>1, <1>2, <3>2 DEF Flattened
    <3>4. Len(writeouts') = base[at' + 1] BY <1>1, <2>2, <3>1
    <3>5. WordsRight' BY <1>1, <3>1 DEF WordsRight
    <3>6. writeouts' \in Seq({}) BY <1>1, <3>1
    <3>7. Executed(base)' BY <3>1, <3>3, <3>4, <3>5, <3>6 DEF Executed
    <3>8. QED BY <2>1, <3>1, <3>7
  <2>6. CASE StoreOutputs
    <3>1. phase = "run" /\ phase' = "done" /\ at' = at /\ ones' = ones BY <2>6 DEF StoreOutputs
    <3>2. Executed(base) BY <2>1, <3>1
    <3>3. Executed(base)'
      BY <1>1, <1>2, <3>1, <3>2 DEF Executed, Flattened, StateRight, WordsRight, Right
    <3>4. QED BY <2>1, <3>1, <3>3
  <2>7. QED BY <2>3, <2>4, <2>5, <2>6
<1>8. part' \in Partitions BY <1>2 DEF ExecInv
<1>9. QED BY <1>1, <1>2, <1>3, <1>6, <1>7, <1>8 DEF ExecInv

(* The words of one more stage are known. *)
LEMMA FlattenStep ==
  ASSUME ExecInv, FlattenStage
  PROVE  ExecInv'
<1>1. /\ UNCHANGED mapping /\ phase = "flatten" /\ phase' = "flatten" /\ ones' = ones
      /\ writeouts' = writeouts /\ at < Len(stages) /\ at' = at + 1
      /\ wos' = wos \o WordsOf(After(stages[at'].hier), stages[at'].outs)
  BY DEF FlattenStage
<1>2. /\ StagesSound' = StagesSound /\ Sources' = Sources
      /\ part' = part /\ stages' = stages /\ unrealized' = unrealized
      /\ \A base : Offsets(base)' = Offsets(base)
  BY <1>1, SameMapping
<1>3. PICK S : stages \in Seq(S) BY DEF ExecInv, Sequential
<1>4. at \in Nat /\ Len(stages) \in Nat /\ DOMAIN stages = 1 .. Len(stages)
  BY <1>3 DEF ExecInv, Progress
<1>5. Progress' BY <1>1, <1>2, <1>4 DEF ExecInv, Progress
<1>k. PICK k : k = at + 1 OBVIOUS
<1>6. k \in DOMAIN stages /\ k \in Nat /\ at' = k BY <1>1, <1>4, <1>k
<1> DEFINE outs == stages[k].outs
           more == WordsOf(After(stages[k].hier), outs)
<1>7. wos' = wos \o more BY <1>1, <1>6
<1>8. ASSUME StagesSound
      PROVE  \E base : Offsets(base) /\ Flattened(base, at)'
  <2>1. PICK base : Offsets(base) /\ Flattened(base, at) BY <1>1, <1>8 DEF ExecInv
  <2>2. PICK T : wos \in Seq(T) BY <2>1 DEF Flattened
  <2>3. StageSound(k) BY <1>6, <1>8 DEF StagesSound
  <2>4. outs \in Seq(0 .. Width(0) \div Word - 1) /\ Len(outs) \in Nat BY <2>3 DEF StageSound
  <2>5. PICK U : more \in Seq(U) BY <2>4, WordsOfFacts
  <2>6. Len(more) = Len(outs) /\ \A i \in 1 .. Len(outs) : more[i] = WordFrom(After(stages[k].hier), outs[i])
    BY <2>4, WordsOfFacts
  <2>7. /\ wos' \in Seq(T \cup U) /\ Len(wos') = Len(wos) + Len(outs)
        /\ \A i \in 1 .. Len(wos) : wos'[i] = wos[i]
        /\ \A i \in 1 .. Len(outs) : wos'[Len(wos) + i] = more[i]
    <3>1. /\ wos \o more \in Seq(T \cup U) /\ Len(wos \o more) = Len(wos) + Len(more)
          /\ \A i \in 1 .. Len(wos) : (wos \o more)[i] = wos[i]
          /\ \A i \in 1 .. Len(more) : (wos \o more)[Len(wos) + i] = more[i]
      BY <2>2, <2>5, ConcatFacts
    <3>2. Len(more) = Len(outs) BY <2>6
    <3>3. QED BY <1>7, <3>1, <3>2
  <2>8. /\ base[k + 1] = base[k] + Len(outs) /\ Len(wos) = base[k] /\ Len(wos) \in Nat
    BY <1>6, <1>k, <2>1, <2>2 DEF Offsets, Flattened
  <2>9. Len(wos') = base[at' + 1] BY <1>6, <2>7, <2>8
  <2>10. ASSUME NEW l \in 1 .. k, NEW i \in 1 .. Len(stages[l].outs)
         PROVE  /\ base[l] + i \in 1 .. Len(wos')
                /\ wos'[base[l] + i] = WordFrom(After(stages[l].hier), stages[l].outs[i])
    <3>1. CASE l = k
      <4>1. base[l] + i = Len(wos) + i /\ i \in 1 .. Len(outs) BY <2>8, <3>1
      <4>2. Len(wos) + i \in 1 .. Len(wos') BY <2>4, <2>7, <2>8, <4>1
      <4>3. QED BY <2>6, <2>7, <3>1, <4>1, <4>2
    <3>2. CASE l # k
      <4>1. l \in 1 .. at BY <1>4, <1>k, <3>2
      <4>2. /\ base[l] + i \in 1 .. Len(wos)
            /\ wos[base[l] + i] = WordFrom(After(stages[l].hier), stages[l].outs[i])
        BY <2>1, <4>1 DEF Flattened
      <4>3. base[l] + i \in 1 .. Len(wos') BY <2>4, <2>7, <2>8, <4>2
      <4>4. QED BY <2>7, <4>2, <4>3
    <3>3. QED BY <3>1, <3>2
  <2>11. Flattened(base, at)' BY <1>2, <1>6, <2>7, <2>9, <2>10 DEF Flattened
  <2>12. QED BY <2>1, <2>11
<1>9. Sequential' BY <1>2 DEF ExecInv, Sequential
<1>10. part' \in Partitions /\ ones' \subseteq Sources' BY <1>1, <1>2 DEF ExecInv
<1>11. QED BY <1>1, <1>2, <1>5, <1>8, <1>9, <1>10 DEF ExecInv

(* The words of a stage that has been executed have the values of their    *)
(* pins.                                                                   *)
LEMMA WordRight ==
  ASSUME part \in Partitions, NEW k \in Nat \ {0}, StageSound(k),
         k > 1 => StateRight(k - 1),
         NEW after, after = [pos \in Position \cup {0} |-> IF pos = 0 THEN FALSE ELSE Bits(k)[pos]],
         NEW w \in 0 .. Width(0) \div Word - 1, NEW j \in 1 .. Word
  PROVE  Right(WordFrom(After(stages[k].hier), w)[j], WordFrom(after, w)[j])
<1> DEFINE pos == w * Word + j - 1
<1>1. Width(0) \in Nat \ {0} BY WidthNat, LevelsNat
<1>2. pos \in 0 .. Width(0) - 1 BY WordInside
<1>3. WordFrom(After(stages[k].hier), w)[j] = PinAt(stages[k].hier, pos)
  BY <1>2 DEF WordFrom, After
<1>4. pos \in Position \cup {0} BY <1>1, <1>2 DEF Position
<1>5. WordFrom(after, w)[j] = IF pos = 0 THEN FALSE ELSE Bits(k)[pos] BY <1>4 DEF WordFrom
<1>6. CASE pos = 0 BY <1>3, <1>6 DEF PinAt, Right
<1>7. CASE pos # 0
  <2>1. pos \in Place BY <1>1, <1>2, <1>7 DEF Place
  <2>2. Right(PinAt(stages[k].hier, pos), Bits(k)[pos]) BY <2>1, StageComputes
  <2>3. QED BY <1>3, <1>5, <1>7, <2>2
<1>8. QED BY <1>6, <1>7

LEMMA RunStep ==
  ASSUME ExecInv, RunStage
  PROVE  ExecInv'
<1>1. /\ UNCHANGED mapping /\ phase = "run" /\ phase' = "run" /\ ones' = ones
      /\ wos' = wos /\ at < Len(stages) /\ at' = at + 1
      /\ state' = [pos \in Position \cup {0} |-> IF pos = 0 THEN FALSE ELSE Bits(at')[pos]]
      /\ writeouts' = writeouts \o WordsOf(state', stages[at'].outs)
  BY DEF RunStage
<1>2. /\ StagesSound' = StagesSound /\ Sources' = Sources
      /\ part' = part /\ stages' = stages /\ unrealized' = unrealized
      /\ \A base : Offsets(base)' = Offsets(base)
  BY <1>1, SameMapping
<1>3. PICK S : stages \in Seq(S) BY DEF ExecInv, Sequential
<1>4. at \in Nat /\ Len(stages) \in Nat /\ DOMAIN stages = 1 .. Len(stages)
  BY <1>3 DEF ExecInv, Progress
<1>5. Progress' BY <1>1, <1>2, <1>4 DEF ExecInv, Progress
<1>k. PICK k : k = at + 1 OBVIOUS
<1>6. k \in DOMAIN stages /\ k \in Nat \ {0} /\ at' = k /\ k - 1 = at /\ k \in 1 .. Len(stages)
  BY <1>1, <1>4, <1>k
<1> DEFINE outs == stages[k].outs
<1>a. PICK after : after = state' OBVIOUS
<1> DEFINE more == WordsOf(after, outs)
<1>7. /\ writeouts' = writeouts \o more
      /\ after = [pos \in Position \cup {0} |-> IF pos = 0 THEN FALSE ELSE Bits(k)[pos]]
  BY <1>1, <1>6, <1>a
<1>8. ASSUME StagesSound
      PROVE  \E base : Offsets(base) /\ Executed(base)'
  <2>1. PICK base : Offsets(base) /\ Executed(base) BY <1>1, <1>8 DEF ExecInv
  <2>2. PICK T : writeouts \in Seq(T) BY <2>1 DEF Executed
  <2>3. StageSound(k) BY <1>6, <1>8 DEF StagesSound
  <2>4. outs \in Seq(0 .. Width(0) \div Word - 1) /\ Len(outs) \in Nat BY <2>3 DEF StageSound
  <2>5. PICK U : more \in Seq(U) BY <2>4, WordsOfFacts
  <2>6. Len(more) = Len(outs) /\ \A i \in 1 .. Len(outs) : more[i] = WordFrom(after, outs[i])
    BY <2>4, WordsOfFacts
  <2>7. /\ writeouts' \in Seq(T \cup U) /\ Len(writeouts') = Len(writeouts) + Len(outs)
        /\ \A i \in 1 .. Len(writeouts) : writeouts'[i] = writeouts[i]
        /\ \A i \in 1 .. Len(outs) : writeouts'[Len(writeouts) + i] = more[i]
    <3>1. /\ writeouts \o more \in Seq(T \cup U) /\ Len(writeouts \o more) = Len(writeouts) + Len(more)
          /\ \A i \in 1 .. Len(writeouts) : (writeouts \o more)[i] = writeouts[i]
          /\ \A i \in 1 .. Len(more) : (writeouts \o more)[Len(writeouts) + i] = more[i]
      BY <2>2, <2>5, ConcatFacts
    <3>2. Len(more) = Len(outs) BY <2>6
    <3>3. QED BY <1>7, <3>1, <3>2
  <2>8. /\ base[k + 1] = base[k] + Len(outs) /\ Len(writeouts) = base[k] /\ Len(writeouts) \in Nat
    BY <1>6, <1>k, <2>1, <2>2 DEF Offsets, Executed
  <2>9. Len(writeouts') = base[at' + 1] BY <1>6, <2>7, <2>8
  <2>10. k > 1 => StateRight(k - 1) BY <1>4, <1>6, <2>1 DEF Executed
  <2>11. part \in Partitions BY DEF ExecInv
  <2>12. StateRight(k)'
    <3>1. SUFFICES ASSUME NEW pos \in Position
                   PROVE  Right(PinAt(stages[k].hier, pos), after[pos])
      BY <1>1, <1>2, <1>a DEF StateRight, Right
    <3>2. pos \in Place /\ pos # 0 BY PositionBelow DEF Position
    <3>3. after[pos] = Bits(k)[pos] BY <1>7, <3>2
    <3>4. QED BY <1>6, <2>3, <2>10, <2>11, <3>2, <3>3, StageComputes
  <2>13. WordsRight'
    <3>0. \A p, bit : Right(p, bit)' = Right(p, bit) BY <1>1, <1>2 DEF Right
    <3>1. SUFFICES ASSUME NEW n \in 1 .. Len(writeouts) + Len(outs), NEW i \in 1 .. Word
                   PROVE  Right(wos[n][i], writeouts'[n][i])
      <4>1. wos' = wos /\ Len(writeouts') = Len(writeouts) + Len(outs) BY <1>1, <2>7
      <4>2. QED BY <3>0, <4>1 DEF WordsRight
    <3>2. CASE n <= Len(writeouts)
      <4>1. n \in 1 .. Len(writeouts) BY <2>8, <3>2
      <4>2. QED BY <2>1, <2>7, <4>1 DEF Executed, WordsRight
    <3>3. CASE ~(n <= Len(writeouts))
      <4>m. PICK m : m = n - Len(writeouts) OBVIOUS
      <4>1. m \in 1 .. Len(outs) /\ n = Len(writeouts) + m BY <2>4, <2>8, <3>3, <4>m
      <4>2. writeouts'[n] = WordFrom(after, outs[m]) BY <2>6, <2>7, <4>1
      <4>3. wos[base[k] + m] = WordFrom(After(stages[k].hier), outs[m])
        BY <1>6, <2>1, <4>1 DEF Executed, Flattened
      <4>4. wos[n] = WordFrom(After(stages[k].hier), outs[m]) BY <2>8, <4>1, <4>3
      <4>5. outs[m] \in 0 .. Width(0) \div Word - 1 BY <2>4, <4>1, ElementIn
      <4>6. Right(WordFrom(After(stages[k].hier), outs[m])[i], WordFrom(after, outs[m])[i])
        BY <1>6, <1>7, <2>3, <2>10, <2>11, <4>5, WordRight
      <4>7. QED BY <4>2, <4>4, <4>6
    <3>4. QED BY <3>2, <3>3
  <2>14. Flattened(base, Len(stages))' BY <1>1, <1>2, <2>1 DEF Executed, Flattened
  <2>15. Executed(base)' BY <1>2, <1>6, <2>7, <2>9, <2>12, <2>13, <2>14 DEF Executed
  <2>16. QED BY <2>1, <2>15
<1>9. Sequential' BY <1>2 DEF ExecInv, Sequential
<1>10. part' \in Partitions /\ ones' \subseteq Sources' BY <1>1, <1>2 DEF ExecInv
<1>11. QED BY <1>1, <1>2, <1>5, <1>8, <1>9, <1>10 DEF ExecInv

(* While the stages are sound, the words written out so far and the state  *)
(* of the last stage run hold the values the graph gives to their pins     *)
(* (flatten.rs:229, cuda_test.rs:401).                                     *)
THEOREM Invariance == Spec => []ExecInv
<1>1. Init => ExecInv BY InitStep
<1>2. ExecInv /\ [Next]_vars => ExecInv'
  <2> SUFFICES ASSUME ExecInv, [Next]_vars PROVE ExecInv' OBVIOUS
  <2>1. CASE Refuse BY <2>1, IdleStep
  <2>2. CASE MapStage BY <2>2, MapStep
  <2>3. CASE Flatten BY <2>3, IdleStep
  <2>4. CASE FlattenStage BY <2>4, FlattenStep
  <2>5. CASE Load BY <2>5, IdleStep
  <2>6. CASE RunStage BY <2>6, RunStep
  <2>7. CASE StoreOutputs BY <2>7, IdleStep
  <2>8. CASE UNCHANGED vars
    <3>1. UNCHANGED mapping /\ UNCHANGED <<phase, ones, state, at, wos, writeouts>>
      BY <2>8 DEF vars, running
    <3>2. /\ StagesSound' = StagesSound /\ Sources' = Sources
          /\ part' = part /\ stages' = stages /\ unrealized' = unrealized
          /\ \A base : Offsets(base)' = Offsets(base)
      BY <3>1, SameMapping
    <3>3. Sequential' /\ Progress' BY <3>1, <3>2 DEF ExecInv, Sequential, Progress
    <3>4. \A base : /\ Flattened(base, at)' = Flattened(base, at)
                    /\ Executed(base)' = Executed(base)
      BY <3>1, <3>2 DEF Flattened, Executed, StateRight, WordsRight, Right
    <3>5. QED BY <3>1, <3>2, <3>3, <3>4 DEF ExecInv
  <2>9. QED BY <2>1, <2>2, <2>3, <2>4, <2>5, <2>6, <2>7, <2>8 DEF Next
<1>3. QED BY <1>1, <1>2, PTL DEF Spec

----------------------------------------------------------------------------
(* Executed: the stages are sound and all of them have been run. *)
AllRun ==
  /\ ExecInv /\ StagesSound
  /\ phase \in {"run", "done"} /\ at = Len(stages)

LEMMA WrittenTypes ==
  ASSUME AllRun
  PROVE  /\ Len(wos) \in Nat /\ Len(writeouts) = Len(wos) /\ Len(wos) = written
         /\ WordsRight
         /\ \A k \in DOMAIN stages : \A i \in 1 .. Len(stages[k].outs) :
              \E n \in 1 .. Len(wos) :
                wos[n] = WordFrom(After(stages[k].hier), stages[k].outs[i])
<1>1. PICK base : Offsets(base) /\ Executed(base) BY DEF AllRun, ExecInv
<1>2. Flattened(base, Len(stages)) BY <1>1 DEF Executed
<1>3. PICK S : wos \in Seq(S) BY <1>2 DEF Flattened
<1>4. PICK T : stages \in Seq(T) BY DEF AllRun, ExecInv, Sequential
<1>5. Len(wos) \in Nat /\ DOMAIN stages = 1 .. Len(stages) BY <1>3, <1>4
<1>6. Len(wos) = base[Len(stages) + 1] /\ Len(writeouts) = base[Len(stages) + 1]
  BY <1>1, <1>2 DEF Executed, Flattened, AllRun
<1>7. written = base[Len(stages) + 1] BY <1>1 DEF Offsets
<1>8. ASSUME NEW k \in DOMAIN stages, NEW i \in 1 .. Len(stages[k].outs)
      PROVE  \E n \in 1 .. Len(wos) : wos[n] = WordFrom(After(stages[k].hier), stages[k].outs[i])
  BY <1>2, <1>5 DEF Flattened
<1>9. QED BY <1>1, <1>5, <1>6, <1>7, <1>8 DEF Executed

(* An index of the bits written out is a word and a bit of it. *)
LEMMA WrittenIndex ==
  ASSUME AllRun, NEW i \in WrittenAt
  PROVE  i \div Word + 1 \in 1 .. Len(wos) /\ (i % Word) + 1 \in 1 .. Word
<1>1. Word \in Nat \ {0} /\ Len(wos) \in Nat BY LevelsNat, WrittenTypes
<1>2. i \in Nat /\ i < Len(wos) * Word
  <2>1. Len(wos) * Word \in Nat BY <1>1
  <2>2. QED BY <2>1 DEF WrittenAt
<1> DEFINE q == i \div Word
<1>3. q \in Nat /\ q * Word <= i /\ i % Word \in 0 .. Word - 1 BY <1>1, <1>2
<1>4. q < Len(wos)
  <2>1. SUFFICES ASSUME q >= Len(wos) PROVE FALSE BY <1>1, <1>3
  <2>2. (q - Len(wos)) * Word >= 0 BY <1>1, <1>3, <2>1
  <2>3. (q - Len(wos)) * Word = q * Word - Len(wos) * Word BY <1>1, <1>3
  <2>4. QED BY <1>1, <1>2, <1>3, <2>2, <2>3
<1>5. QED BY <1>1, <1>3, <1>4

LEMMA IndexOf ==
  ASSUME AllRun, NEW n \in 1 .. Len(wos), NEW j \in 1 .. Word
  PROVE  /\ (n - 1) * Word + j - 1 \in WrittenAt
         /\ WrittenPin((n - 1) * Word + j - 1) = wos[n][j]
<1>1. Word \in Nat \ {0} /\ Len(wos) \in Nat BY LevelsNat, WrittenTypes
<1> DEFINE i == (n - 1) * Word + (j - 1)
<1>2. i \in Nat /\ i \div Word = n - 1 /\ i % Word = j - 1
  <2>1. n - 1 \in Nat /\ j - 1 \in 0 .. Word - 1 BY <1>1
  <2>2. ASSUME NEW w \in Nat, NEW b \in 0 .. Word - 1
        PROVE  w * Word + b \in Nat /\ (w * Word + b) \div Word = w /\ (w * Word + b) % Word = b
    BY BitOfWord
  <2>3. QED BY <2>1, <2>2
<1>3. i < Len(wos) * Word
  <2>1. (Len(wos) - n) * Word >= 0 BY <1>1
  <2>2. (Len(wos) - n) * Word = Len(wos) * Word - (n - 1) * Word - Word BY <1>1
  <2>3. (n - 1) * Word \in Nat /\ Len(wos) * Word \in Nat BY <1>1
  <2>4. QED BY <1>1, <2>1, <2>2, <2>3
<1>4. (n - 1) * Word + j - 1 = i
  <2>1. (n - 1) * Word \in Nat BY <1>1
  <2>2. QED BY <1>1, <2>1
<1>5. i \in WrittenAt
  <2>1. Len(wos) * Word \in Nat BY <1>1
  <2>2. QED BY <1>2, <1>3, <2>1 DEF WrittenAt
<1>6. WrittenPin(i) = wos[n - 1 + 1][j - 1 + 1] BY <1>2 DEF WrittenPin
<1>7. n - 1 + 1 = n /\ j - 1 + 1 = j BY <1>1
<1>8. QED BY <1>4, <1>5, <1>6, <1>7

(* A pin that is written out at all has its value where it is looked up.   *)
LEMMA LookedUp ==
  ASSUME AllRun, NEW p, p # Free, \E i \in WrittenAt : WrittenPin(i) = p
  PROVE  /\ WrittenPos(p) \in WrittenAt /\ WrittenPin(WrittenPos(p)) = p
         /\ p \in 0 .. Len(part.aig)
         /\ WrittenBit(WrittenPos(p)) = PinValue(part.aig, ones, p)
<1> DEFINE S == {i \in WrittenAt : WrittenPin(i) = p}
<1>1. Word \in Nat \ {0} /\ Len(wos) \in Nat BY LevelsNat, WrittenTypes
<1>2. Len(wos) * Word \in Nat BY <1>1
<1>3. S # {} /\ S \in SUBSET (0 .. Len(wos) * Word) BY <1>2 DEF WrittenAt
<1>4. WrittenPos(p) \in S BY <1>2, <1>3, MaxIs DEF WrittenPos
<1>5. WrittenPos(p) \in WrittenAt /\ WrittenPin(WrittenPos(p)) = p BY <1>4
<1> DEFINE n == WrittenPos(p) \div Word + 1
           j == (WrittenPos(p) % Word) + 1
<1>6. n \in 1 .. Len(writeouts) /\ j \in 1 .. Word BY <1>5, WrittenIndex, WrittenTypes
<1>7. Right(wos[n][j], writeouts[n][j]) BY <1>6, WrittenTypes DEF WordsRight
<1>8. wos[n][j] = p /\ writeouts[n][j] = WrittenBit(WrittenPos(p))
  BY <1>5 DEF WrittenPin, WrittenBit
<1>9. QED BY <1>5, <1>7, <1>8 DEF Right

LEMMA EndpointTypes ==
  ASSUME part \in Partitions, NEW e \in ToSet(part.endpoints)
  PROVE  /\ e \in Endpoint /\ e.lits \in Seq(Nat)
         /\ \A i \in DOMAIN e.lits : e.lits[i] \in Nat /\ Pin(e.lits[i]) \in 0 .. Len(part.aig)
<1>1. e \in Endpoint BY PartitionAssumption DEF ToSet
<1>2. e.lits \in Seq(Nat) BY <1>1 DEF Endpoint
<1>3. ASSUME NEW i \in DOMAIN e.lits PROVE e.lits[i] \in Nat /\ Pin(e.lits[i]) \in 0 .. Len(part.aig)
  <2>1. e.lits[i] \in Nat BY <1>2
  <2>2. Pin(e.lits[i]) <= Len(part.aig) BY PartitionAssumption
  <2>3. QED BY <2>1, <2>2, PartTypes DEF Pin
<1>4. QED BY <1>1, <1>2, <1>3

LEMMA AllWritten ==
  ASSUME AllRun, NothingLost, NEW e \in ToSet(part.endpoints), NEW p \in InputSet(e)
  PROVE  p # Free /\ \E i \in WrittenAt : WrittenPin(i) = p
<1>1. p \in Nat BY EndpointTypes DEF AllRun, ExecInv, InputSet
<1>2. unrealized = <<>> BY DEF AllRun, ExecInv, Progress
<1>3. ~Contains(unrealized, p) BY <1>2 DEF Contains
<1>k. PICK k \in DOMAIN stages : \E w \in ToSet(stages[k].outs) : \E i \in 0 .. Word - 1 :
        PinAt(stages[k].hier, w * Word + i) = p
  BY <1>3 DEF NothingLost
<1>4. PICK w \in ToSet(stages[k].outs) : \E i \in 0 .. Word - 1 :
        PinAt(stages[k].hier, w * Word + i) = p
  BY <1>k
<1>i. PICK i \in 0 .. Word - 1 : PinAt(stages[k].hier, w * Word + i) = p BY <1>4
<1>5. stages[k].outs \in Seq(0 .. Width(0) \div Word - 1) BY <1>4 DEF AllRun, StagesSound, StageSound
<1>6. PICK m \in 1 .. Len(stages[k].outs) : w = stages[k].outs[m] BY <1>4, <1>5 DEF ToSet
<1>7. w \in 0 .. Width(0) \div Word - 1 BY <1>5, <1>6, ElementIn
<1>8. PICK n \in 1 .. Len(wos) : wos[n] = WordFrom(After(stages[k].hier), w)
  BY <1>4, <1>6, WrittenTypes
<1>9. i + 1 \in 1 .. Word BY <1>i, LevelsNat
<1>10. w * Word + (i + 1) - 1 = w * Word + i
  <2>1. w * Word \in Int BY <1>7, LevelsNat
  <2>2. QED BY <1>i, <2>1, LevelsNat
<1>11. w * Word + i \in 0 .. Width(0) - 1 BY <1>7, <1>9, <1>10, WordInside
<1>12. wos[n][i + 1] = p BY <1>i, <1>8, <1>9, <1>10, <1>11 DEF WordFrom, After
<1>13. QED BY <1>1, <1>8, <1>9, <1>12, IndexOf DEF Free

(* As long as the mapper's stages are sound and lose nothing, the executor *)
(* has computed, when it has run them, the value the graph gives to each   *)
(* pin an endpoint needs, where the assembler looks for it                 *)
(* (flatten.rs:341, cuda_test.rs:503), for any graph, number of levels,    *)
(* word size and way to build stages.                                      *)
THEOREM ComputesTheGraph == Spec => [](HierarchySound /\ NothingLost => EndpointsComputed)
<1>1. ExecInv /\ HierarchySound /\ NothingLost => EndpointsComputed
  <2> SUFFICES ASSUME ExecInv, HierarchySound, NothingLost, phase = "run", at = Len(stages),
                      NEW e \in ToSet(part.endpoints), NEW p \in InputSet(e)
               PROVE  /\ \E i \in WrittenAt : WrittenPin(i) = p
                      /\ WrittenBit(WrittenPos(p)) = PinValue(part.aig, ones, p)
    BY DEF EndpointsComputed
  <2>1. AllRun BY SoundIsAsked DEF AllRun
  <2>2. p # Free /\ \E i \in WrittenAt : WrittenPin(i) = p BY <2>1, AllWritten
  <2>3. QED BY <2>1, <2>2, LookedUp
<1>2. QED BY <1>1, Invariance, PTL

----------------------------------------------------------------------------
(* Literals are found by the position of their pin.                        *)
LEMMA ConstantIsZero ==
  ASSUME AllRun
  PROVE  PinValue(part.aig, ones, 0) = FALSE
<1>1. ones \subseteq 1 .. Len(part.aig) BY PartTypes DEF AllRun, ExecInv
<1>2. ~IsAnd(part.aig, 0) BY PartTypes DEF IsAnd, AllRun, ExecInv
<1>3. 0 \notin ones BY <1>1
<1>4. 0 \in 0 .. Len(part.aig) BY PartTypes DEF AllRun, ExecInv
<1>5. PinValue(part.aig, ones, 0) = ValueOf(part.aig, ones, PinValues(part.aig, ones), 0)
  BY <1>4, PartTypes, ValuesAre DEF AllRun, ExecInv
<1>6. ValueOf(part.aig, ones, PinValues(part.aig, ones), 0) = FALSE BY <1>2, <1>3 DEF ValueOf
<1>7. QED BY <1>5, <1>6

LEMMA LiteralRight ==
  ASSUME AllRun, NEW l \in Nat, Pin(l) \in 0 .. Len(part.aig),
         l > 1 => \E i \in WrittenAt : WrittenPin(i) = Pin(l)
  PROVE  Permuted(QueryPermute(l)) = LitValue(part.aig, ones, l)
<1>1. CASE l <= 1
  <2>1. Pin(l) = 0 BY <1>1 DEF Pin
  <2>2. LitValue(part.aig, ones, l) = (FALSE # Inverted(l)) BY <2>1, ConstantIsZero DEF LitValue
  <2>3. Permuted(QueryPermute(l)) = (FALSE # Inverted(l)) BY <1>1 DEF Permuted, QueryPermute
  <2>4. QED BY <2>2, <2>3
<1>2. CASE ~(l <= 1)
  <2>1. l > 1 BY <1>2
  <2>2. Pin(l) # Free BY DEF Free
  <2>3. WrittenBit(WrittenPos(Pin(l))) = PinValue(part.aig, ones, Pin(l)) BY <2>1, <2>2, LookedUp
  <2>4. PinValue(part.aig, ones, Pin(l)) \in BOOLEAN
    BY PartTypes, ValuesAre DEF AllRun, ExecInv
  <2>5. Permuted(QueryPermute(l)) = (WrittenBit(WrittenPos(Pin(l))) # Inverted(l))
    BY <1>2, <2>3, <2>4 DEF Permuted, QueryPermute
  <2>6. QED BY <2>3, <2>5 DEF LitValue
<1>3. QED BY <1>1, <1>2

----------------------------------------------------------------------------
(* Activations.                                                            *)
End(i) == part.endpoints[i]

LEMMA StoredTypes ==
  ASSUME part \in Partitions, NEW i \in StoredAt
  PROVE  /\ i \in 1 .. Len(part.endpoints) /\ End(i) \in ToSet(part.endpoints)
         /\ End(i).kind # "ram" /\ Data(End(i)) # 0
         /\ Data(End(i)) \in Nat /\ Enable(End(i)) \in Nat
         /\ Pin(Data(End(i))) \in 0 .. Len(part.aig) /\ Pin(Enable(End(i))) \in 0 .. Len(part.aig)
         /\ Data(End(i)) > 1 => Pin(Data(End(i))) \in InputSet(End(i))
         /\ Enable(End(i)) > 1 => Pin(Enable(End(i))) \in InputSet(End(i))
         /\ Activation(End(i)) = <<Pin(Data(End(i))), 2 * Enable(End(i)) + (Data(End(i)) % 2)>>
<1>1. /\ i \in DOMAIN part.endpoints /\ End(i).kind # "ram" /\ Data(End(i)) # 0
  BY DEF StoredAt, End
<1>2. i \in 1 .. Len(part.endpoints) BY <1>1, PartitionAssumption
<1>3. End(i) \in ToSet(part.endpoints) BY <1>1 DEF ToSet, End
<1> DEFINE e == End(i)
<1>4. /\ e.kind \in {"port", "dff", "staged"} /\ e.lits \in Seq(Nat)
      /\ \A k \in DOMAIN e.lits : e.lits[k] \in Nat /\ Pin(e.lits[k]) \in 0 .. Len(part.aig)
  BY <1>1, <1>3, EndpointTypes DEF Endpoint
<1>5. /\ Len(e.lits) >= IF e.kind = "dff" THEN 2 ELSE 1
      /\ e.kind = "staged" => ~Inverted(e.lits[1])
  BY <1>3, PartitionAssumption
<1>6. 1 \in DOMAIN e.lits /\ (e.kind = "dff" => 2 \in DOMAIN e.lits) BY <1>4, <1>5
<1>7. Data(e) \in Nat /\ Pin(Data(e)) \in 0 .. Len(part.aig)
  BY <1>4, <1>6 DEF Data
<1>8. Enable(e) \in Nat /\ Pin(Enable(e)) \in 0 .. Len(part.aig)
  <2>1. CASE e.kind = "dff" BY <1>4, <1>6, <2>1 DEF Enable
  <2>2. CASE e.kind # "dff"
    <3>1. Pin(1) = 0 BY DEF Pin
    <3>2. QED BY <2>2, <3>1, PartTypes DEF Enable
  <2>3. QED BY <2>1, <2>2
<1>9. Data(e) > 1 => Pin(Data(e)) \in InputSet(e)
  BY <1>4, <1>6 DEF Data, InputSet, Pin
<1>10. Enable(e) > 1 => Pin(Enable(e)) \in InputSet(e)
  BY <1>4, <1>6 DEF Enable, InputSet, Pin
<1>11. Activation(e) = <<Pin(Data(e)), 2 * Enable(e) + (Data(e) % 2)>>
  <2>1. CASE e.kind = "dff" BY <2>1 DEF Activation, Data, Enable
  <2>2. CASE e.kind = "port" BY <2>2 DEF Activation, Data, Enable
  <2>3. CASE e.kind = "staged"
    <3>1. e.lits[1] \in Nat /\ e.lits[1] % 2 = 0 BY <1>4, <1>5, <1>6, <2>3 DEF Inverted
    <3>2. Activation(e) = <<Pin(e.lits[1]), 2>> BY <2>3 DEF Activation
    <3>3. Data(e) = e.lits[1] /\ Enable(e) = 1 BY <2>3 DEF Data, Enable
    <3>4. QED BY <3>1, <3>2, <3>3
  <2>4. QED BY <1>4, <2>1, <2>2, <2>3
<1>12. QED BY <1>1, <1>2, <1>3, <1>7, <1>8, <1>9, <1>10, <1>11

(* Endpoints of the same activation have the same literal and enable. *)
LEMMA SameActivation ==
  ASSUME part \in Partitions, NEW i \in StoredAt, NEW k \in StoredAt,
         Activation(End(i)) = Activation(End(k))
  PROVE  Data(End(i)) = Data(End(k)) /\ Enable(End(i)) = Enable(End(k))
<1>1. /\ Data(End(i)) \in Nat /\ Enable(End(i)) \in Nat
      /\ Data(End(k)) \in Nat /\ Enable(End(k)) \in Nat BY StoredTypes
<1>2. /\ Pin(Data(End(i))) = Pin(Data(End(k)))
      /\ 2 * Enable(End(i)) + (Data(End(i)) % 2) = 2 * Enable(End(k)) + (Data(End(k)) % 2)
  BY StoredTypes
<1>3. ASSUME NEW x \in Nat, NEW y \in Nat, NEW u \in Nat, NEW v \in Nat,
             x \div 2 = y \div 2, 2 * u + (x % 2) = 2 * v + (y % 2)
      PROVE  x = y /\ u = v
  <2>1. x % 2 \in 0 .. 1 /\ y % 2 \in 0 .. 1 BY <1>3
  <2>2. u = v /\ x % 2 = y % 2 BY <1>3, <2>1
  <2>3. QED BY <1>3, <2>2
<1>4. QED BY <1>1, <1>2, <1>3 DEF Pin

(* Each activation has a first endpoint of its own. *)
LEMMA FirstIs ==
  ASSUME part \in Partitions, NEW a \in Activations
  PROVE  FirstAt(a) \in StoredAt /\ Activation(End(FirstAt(a))) = a /\ FirstAt(a) \in Nat
<1> DEFINE S == {i \in StoredAt : Activation(part.endpoints[i]) = a}
<1>1. S # {} BY DEF Activations
<1>2. S \in SUBSET Nat BY StoredTypes
<1>3. FirstAt(a) \in S BY <1>1, <1>2, MinIs DEF FirstAt
<1>4. QED BY <1>2, <1>3 DEF End

LEMMA ActivationsFinite ==
  ASSUME part \in Partitions
  PROVE  IsFiniteSet(Activations) /\ IsFiniteSet(Copies)
<1>1. Len(part.endpoints) \in Nat BY PartitionAssumption
<1>2. StoredAt \subseteq 1 .. Len(part.endpoints) BY StoredTypes
<1>3. IsFiniteSet(StoredAt)
  <2>1. IsFiniteSet(1 .. Len(part.endpoints)) BY <1>1, FS_Interval
  <2>2. QED BY <1>2, <2>1, FS_Subset
<1> DEFINE f == [i \in StoredAt |-> Activation(part.endpoints[i])]
<1>4. f \in Surjection(StoredAt, Activations) BY DEF Surjection, Activations
<1>5. IsFiniteSet(Activations) BY <1>3, <1>4, FS_Surjection
<1>6. Copies \subseteq Activations BY DEF Copies
<1>7. QED BY <1>5, <1>6, FS_Subset

(* Copies are numbered one by one. *)
LEMMA Numbered ==
  ASSUME part \in Partitions, NEW a \in Copies
  PROVE  /\ CopyNumber(a) \in 1 .. Cardinality(Copies) /\ Cardinality(Copies) \in Nat
         /\ \A b \in Copies : CopyNumber(a) = CopyNumber(b) => a = b
<1> DEFINE Upto(b) == {c \in Copies : FirstAt(c) <= FirstAt(b)}
<1>1. IsFiniteSet(Copies) /\ Copies \subseteq Activations BY ActivationsFinite DEF Copies
<1>2. \A b \in Copies : FirstAt(b) \in Nat /\ b \in Upto(b) /\ Activation(End(FirstAt(b))) = b
  BY <1>1, FirstIs
<1>3. \A b \in Copies : IsFiniteSet(Upto(b)) /\ Cardinality(Upto(b)) \in Nat
                          /\ Cardinality(Upto(b)) <= Cardinality(Copies)
  <2>1. TAKE b \in Copies
  <2>2. Upto(b) \in SUBSET Copies OBVIOUS
  <2>3. IsFiniteSet(Upto(b)) /\ Cardinality(Upto(b)) <= Cardinality(Copies)
    BY <1>1, <2>2, FS_Subset
  <2>4. QED BY <2>3, FS_CardinalityType
<1>4. \A b \in Copies : CopyNumber(b) = Cardinality(Upto(b)) BY DEF CopyNumber
<1>5. CopyNumber(a) \in 1 .. Cardinality(Copies)
  <2>1. Cardinality(Upto(a)) # 0 BY <1>2, <1>3, FS_EmptySet
  <2>2. Cardinality(Copies) \in Nat BY <1>1, FS_CardinalityType
  <2>3. QED BY <1>3, <1>4, <2>1, <2>2
<1>6. ASSUME NEW b \in Copies, NEW c \in Copies, FirstAt(b) < FirstAt(c)
      PROVE  CopyNumber(b) # CopyNumber(c)
  <2>1. Upto(b) \in SUBSET Upto(c) BY <1>2, <1>6
  <2>2. c \in Upto(c) /\ c \notin Upto(b) BY <1>2, <1>6
  <2>3. Cardinality(Upto(c)) # Cardinality(Upto(b)) BY <1>3, <2>1, <2>2, FS_Subset
  <2>4. QED BY <1>4, <2>3
<1>7. ASSUME NEW b \in Copies, CopyNumber(a) = CopyNumber(b) PROVE a = b
  <2>1. ~(FirstAt(a) < FirstAt(b)) /\ ~(FirstAt(b) < FirstAt(a)) BY <1>6, <1>7
  <2>2. FirstAt(a) = FirstAt(b) BY <1>2, <2>1
  <2>3. QED BY <1>2, <2>2
<1>8. QED BY <1>1, <1>5, <1>7, FS_CardinalityType

(* What the assembler checks: the pins are there and the copies fit.       *)
Accepted ==
  /\ \A e \in Placed : \A p \in InputSet(e) : \E i \in WrittenAt : WrittenPin(i) = p
  /\ \A e \in Placed : e.kind # "ram" => Data(e) > 1
  /\ (Cardinality(Copies) + Word - 1) \div Word = NumDuplicates

LEMMA StoredPin ==
  ASSUME AllRun, Accepted, NEW i \in StoredAt
  PROVE  LET e == End(i) IN
         /\ e \in Placed /\ e.kind # "ram" /\ Data(e) > 1
         /\ Pin(Data(e)) # Free /\ \E k \in WrittenAt : WrittenPin(k) = Pin(Data(e))
         /\ Activation(e)[1] = Pin(Data(e))
         /\ Permuted(QueryPermute(Enable(e))) = LitValue(part.aig, ones, Enable(e))
<1> DEFINE e == End(i)
<1>0. part \in Partitions BY DEF AllRun, ExecInv
<1>1. e \in ToSet(part.endpoints) /\ e.kind # "ram" /\ Data(e) # 0 BY <1>0, StoredTypes
<1>2. e \in Placed BY <1>1 DEF Placed
<1>3. Data(e) > 1 BY <1>1, <1>2 DEF Accepted
<1>4. Pin(Data(e)) \in InputSet(e) BY <1>0, <1>3, StoredTypes
<1>5. \E k \in WrittenAt : WrittenPin(k) = Pin(Data(e)) BY <1>2, <1>4 DEF Accepted
<1>6. Pin(Data(e)) # Free
  <2>1. Pin(Data(e)) \in 0 .. Len(part.aig) BY <1>0, StoredTypes
  <2>2. QED BY <2>1, <1>0, PartTypes DEF Free
<1>7. Activation(e)[1] = Pin(Data(e))
  <2>1. Activation(e) = <<Pin(Data(e)), 2 * Enable(e) + (Data(e) % 2)>> BY <1>0, StoredTypes
  <2>2. QED BY <2>1
<1>8. Permuted(QueryPermute(Enable(e))) = LitValue(part.aig, ones, Enable(e))
  <2>1. /\ Enable(e) \in Nat /\ Pin(Enable(e)) \in 0 .. Len(part.aig)
        /\ Enable(e) > 1 => Pin(Enable(e)) \in InputSet(e) BY <1>0, StoredTypes
  <2>2. Enable(e) > 1 => \E k \in WrittenAt : WrittenPin(k) = Pin(Enable(e))
    BY <1>2, <2>1 DEF Accepted
  <2>3. QED BY <2>1, <2>2, LiteralRight
<1>9. QED BY <1>1, <1>2, <1>3, <1>5, <1>6, <1>7, <1>8

(* An output bit is in the words written out, or is a copy behind them.    *)
LEMMA PlaceOfOutput ==
  ASSUME AllRun, Accepted, NEW a \in Activations
  PROVE  /\ a \in Copies => OutputPos(a) \in Int /\ OutputPos(a) >= written * Word
         /\ a \notin Copies => /\ OutputPos(a) = WrittenPos(a[1]) /\ OutputPos(a) \in WrittenAt
                               /\ WrittenPin(OutputPos(a)) = a[1]
                               /\ OutputPos(a) \in Int /\ OutputPos(a) < written * Word
<1>0. part \in Partitions BY DEF AllRun, ExecInv
<1>1. Word \in Nat \ {0} /\ written \in Nat /\ written = Len(wos) BY LevelsNat, WrittenTypes
<1>2. ASSUME a \in Copies PROVE OutputPos(a) \in Int /\ OutputPos(a) >= written * Word
  <2>1. CopyNumber(a) \in 1 .. Cardinality(Copies) /\ Cardinality(Copies) \in Nat BY <1>0, <1>2, Numbered
  <2> DEFINE c == Cardinality(Copies)
             d == (c + Word - 1) \div Word
  <2>2. c + Word - 1 \in Nat BY <1>1, <2>1
  <2>3. d \in Nat /\ c + Word - 1 < d * Word + Word BY <1>1, <2>2
  <2>4. d = NumDuplicates BY DEF Accepted
  <2>5. d * Word \in Nat /\ c <= d * Word BY <1>1, <2>1, <2>3
  <2>6. (written + d) * Word = written * Word + d * Word BY <1>1, <2>3
  <2>7. OutputPos(a) = (written + d) * Word - CopyNumber(a) BY <1>2, <2>4 DEF OutputPos, CopyPos
  <2>8. written * Word \in Nat BY <1>1
  <2>9. QED BY <2>1, <2>5, <2>6, <2>7, <2>8
<1>3. ASSUME a \notin Copies
      PROVE  /\ OutputPos(a) = WrittenPos(a[1]) /\ OutputPos(a) \in WrittenAt
             /\ WrittenPin(OutputPos(a)) = a[1]
             /\ OutputPos(a) \in Int /\ OutputPos(a) < written * Word
  <2>1. PICK i \in StoredAt : a = Activation(End(i)) BY DEF Activations, End
  <2>2. a[1] # Free /\ \E k \in WrittenAt : WrittenPin(k) = a[1] BY <2>1, StoredPin
  <2>3. WrittenPos(a[1]) \in WrittenAt /\ WrittenPin(WrittenPos(a[1])) = a[1] BY <2>2, LookedUp
  <2>4. OutputPos(a) = WrittenPos(a[1]) BY <1>3 DEF OutputPos
  <2>5. Len(wos) * Word \in Nat BY <1>1
  <2>6. QED BY <1>1, <2>3, <2>4, <2>5 DEF WrittenAt
<1>4. QED BY <1>2, <1>3

(* No two activations share an output bit. *)
LEMMA OutputsApart ==
  ASSUME AllRun, Accepted, NEW a \in Activations, NEW b \in Activations, OutputPos(a) = OutputPos(b)
  PROVE  a = b
<1>0. part \in Partitions BY DEF AllRun, ExecInv
<1>1. written * Word \in Int BY LevelsNat, WrittenTypes
<1>2. a \in Copies <=> b \in Copies BY <1>1, PlaceOfOutput
<1>3. CASE a \in Copies
  <2>1. b \in Copies BY <1>2, <1>3
  <2>2. CopyPos(CopyNumber(a)) = CopyPos(CopyNumber(b)) BY <1>3, <2>1 DEF OutputPos
  <2>3. CopyNumber(a) \in Int /\ CopyNumber(b) \in Int BY <1>0, <1>3, <2>1, Numbered
  <2> DEFINE top == (written + NumDuplicates) * Word
  <2>4. Cardinality(Copies) \in Nat BY <1>0, <1>3, Numbered
  <2>5. top \in Int
    <3>1. Word \in Nat \ {0} /\ written \in Nat BY LevelsNat, WrittenTypes
    <3>2. NumDuplicates \in Int BY <2>4, <3>1 DEF Accepted
    <3>3. QED BY <3>1, <3>2
  <2>6. top - CopyNumber(a) = top - CopyNumber(b) BY <2>2 DEF CopyPos
  <2>7. CopyNumber(a) = CopyNumber(b) BY <2>3, <2>5, <2>6
  <2>8. QED BY <1>0, <1>3, <2>1, <2>7, Numbered
<1>4. CASE a \notin Copies
  <2>1. b \notin Copies BY <1>2, <1>4
  <2>2. a[1] = b[1] BY <1>4, <2>1, PlaceOfOutput
  <2>3. ~(FirstAt(b) < FirstAt(a)) /\ ~(FirstAt(a) < FirstAt(b))
    BY <1>4, <2>1, <2>2 DEF Copies
  <2>4. FirstAt(a) = FirstAt(b) BY <1>0, <2>3, FirstIs
  <2>5. QED BY <1>0, <2>4, FirstIs
<1>5. QED BY <1>3, <1>4
----------------------------------------------------------------------------
(* What the last step stores.                                              *)
OutputBit(pos) ==
  LET e == Writer(pos)
      bit == IF pos >= written * Word THEN WrittenBit(WrittenPos(Pin(Data(e))))
             ELSE WrittenBit(pos)
  IN  IF Permuted(QueryPermute(Enable(e))) THEN bit # Inverted(Data(e)) ELSE stale

OutputBits == [pos \in {OutputPos(a) : a \in Activations} |-> OutputBit(pos)]

StoredInv == phase = "done" => Accepted /\ stored = OutputBits

(* It depends on the words written out, and on nothing that changes then.  *)
LEMMA SameLookup ==
  ASSUME UNCHANGED <<part, written, stale, wos, writeouts>>
  PROVE  Accepted' = Accepted /\ OutputBits' = OutputBits
<1>1. part' = part /\ written' = written /\ stale' = stale /\ wos' = wos /\ writeouts' = writeouts
  OBVIOUS
<1>2. /\ WrittenAt' = WrittenAt
      /\ \A i : WrittenPin(i)' = WrittenPin(i)
      /\ \A i : WrittenBit(i)' = WrittenBit(i)
  BY <1>1 DEF WrittenAt, WrittenPin, WrittenBit
<1>3. \A p : WrittenPos(p)' = WrittenPos(p)
  <2>1. TAKE p
  <2>2. {i \in WrittenAt : WrittenPin(i) = p}' = {i \in WrittenAt : WrittenPin(i) = p} BY <1>2
  <2>3. QED BY <2>2 DEF WrittenPos
<1>4. /\ StoredAt' = StoredAt /\ Activations' = Activations
      /\ Placed' = Placed /\ NumDuplicates' = NumDuplicates
  BY <1>1 DEF StoredAt, Activations, Placed, NumDuplicates
<1>5. \A a : FirstAt(a)' = FirstAt(a)
  <2>1. TAKE a
  <2>2. {i \in StoredAt : Activation(part.endpoints[i]) = a}'
        = {i \in StoredAt : Activation(part.endpoints[i]) = a} BY <1>1, <1>4
  <2>3. QED BY <2>2 DEF FirstAt
<1>6. Copies' = Copies BY <1>4, <1>5 DEF Copies
<1>7. \A a : CopyNumber(a)' = CopyNumber(a)
  <2>1. TAKE a
  <2>2. {b \in Copies : FirstAt(b) <= FirstAt(a)}' = {b \in Copies : FirstAt(b) <= FirstAt(a)}
    BY <1>5, <1>6
  <2>3. QED BY <2>2 DEF CopyNumber
<1>8. \A a : OutputPos(a)' = OutputPos(a)
  BY <1>1, <1>3, <1>4, <1>6, <1>7 DEF OutputPos, CopyPos
<1>9. \A l : QueryPermute(l)' = QueryPermute(l) BY <1>3 DEF QueryPermute
<1>10. \A l : Permuted(QueryPermute(l))' = Permuted(QueryPermute(l))
  BY <1>2, <1>9 DEF Permuted
<1>11. \A pos : Writer(pos)' = Writer(pos)
  <2>1. TAKE pos
  <2>2. {i \in StoredAt : OutputPos(Activation(part.endpoints[i])) = pos}'
        = {i \in StoredAt : OutputPos(Activation(part.endpoints[i])) = pos} BY <1>1, <1>4, <1>8
  <2>3. QED BY <1>1, <2>2 DEF Writer
<1>12. \A pos : OutputBit(pos)' = OutputBit(pos)
  BY <1>1, <1>2, <1>3, <1>10, <1>11 DEF OutputBit
<1>13. OutputBits' = OutputBits BY <1>4, <1>8, <1>12 DEF OutputBits
<1>14. Accepted' = Accepted BY <1>2, <1>4, <1>6 DEF Accepted
<1>15. QED BY <1>13, <1>14

LEMMA StoredInvariance == Spec => []StoredInv
<1>1. Init => StoredInv BY DEF Init, StoredInv
<1>2. StoredInv /\ [Next]_vars => StoredInv'
  <2> SUFFICES ASSUME StoredInv, [Next]_vars, phase' = "done"
               PROVE  Accepted' /\ stored' = OutputBits'
    BY DEF StoredInv
  <2>1. CASE StoreOutputs
    <3>1. UNCHANGED <<part, written, stale, wos, writeouts>> BY <2>1 DEF StoreOutputs, mapping
    <3>2. Accepted BY <2>1 DEF StoreOutputs, Accepted
    <3>3. stored' = OutputBits BY <2>1 DEF StoreOutputs, OutputBits, OutputBit
    <3>4. QED BY <3>1, <3>2, <3>3, SameLookup
  <2>2. CASE UNCHANGED vars
    <3>1. UNCHANGED <<part, written, stale, wos, writeouts>> /\ phase = "done" /\ stored' = stored
      BY <2>2 DEF vars, mapping, running
    <3>2. QED BY <3>1, SameLookup DEF StoredInv
  <2>3. CASE Refuse \/ Flatten \/ FlattenStage \/ Load BY <2>3 DEF Refuse, Flatten, FlattenStage, Load
  <2>4. CASE MapStage \/ RunStage BY <2>4 DEF MapStage, RunStage
  <2>5. QED BY <2>1, <2>2, <2>3, <2>4 DEF Next
<1>3. QED BY <1>1, <1>2, PTL DEF Spec

(* The endpoint stored at the place of an activation is one of its own.    *)
LEMMA WriterIs ==
  ASSUME AllRun, Accepted, NEW i \in StoredAt
  PROVE  \E k \in StoredAt : /\ Writer(OutputPos(Activation(End(i)))) = End(k)
                            /\ Activation(End(k)) = Activation(End(i))
<1> DEFINE pos == OutputPos(Activation(End(i)))
           S == {k \in StoredAt : OutputPos(Activation(part.endpoints[k])) = pos}
<1>0. part \in Partitions BY DEF AllRun, ExecInv
<1>1. Len(part.endpoints) \in Nat BY <1>0, PartitionAssumption
<1>2. S \in SUBSET (0 .. Len(part.endpoints)) BY <1>0, <1>1, StoredTypes
<1>3. i \in S BY DEF End
<1>4. Max(S) \in S BY <1>1, <1>2, <1>3, MaxIs
<1>k. PICK k : k = Max(S) OBVIOUS
<1>5. k \in StoredAt /\ OutputPos(Activation(End(k))) = pos BY <1>4, <1>k DEF End
<1>6. Writer(pos) = End(k) BY <1>k DEF Writer, End
<1>7. Activation(End(k)) \in Activations /\ Activation(End(i)) \in Activations
  BY <1>5 DEF Activations, End
<1>8. Activation(End(k)) = Activation(End(i)) BY <1>5, <1>7, OutputsApart
<1>9. QED BY <1>5, <1>6, <1>8

(* The bit an output takes its value from is that of its pin.              *)
LEMMA OutputRight ==
  ASSUME AllRun, Accepted, NEW i \in StoredAt
  PROVE  OutputBit(OutputPos(Activation(End(i)))) =
           IF LitValue(part.aig, ones, Enable(End(i))) THEN LitValue(part.aig, ones, Data(End(i))) ELSE stale
<1> DEFINE a == Activation(End(i))
           pos == OutputPos(a)
<1>0. part \in Partitions BY DEF AllRun, ExecInv
<1>1. PICK k \in StoredAt : Writer(pos) = End(k) /\ Activation(End(k)) = a BY WriterIs
<1>2. Data(End(k)) = Data(End(i)) /\ Enable(End(k)) = Enable(End(i)) BY <1>0, <1>1, SameActivation
<1>3. /\ Pin(Data(End(i))) # Free /\ a[1] = Pin(Data(End(i)))
      /\ \E n \in WrittenAt : WrittenPin(n) = Pin(Data(End(i)))
      /\ Permuted(QueryPermute(Enable(End(i)))) = LitValue(part.aig, ones, Enable(End(i)))
  BY StoredPin
<1>4. WrittenBit(WrittenPos(Pin(Data(End(i))))) = PinValue(part.aig, ones, Pin(Data(End(i))))
  BY <1>3, LookedUp
<1>5. a \in Activations BY DEF Activations, End
<1>6. ASSUME ~(pos >= written * Word)
      PROVE  WrittenBit(pos) = WrittenBit(WrittenPos(Pin(Data(End(i)))))
  <2>1. a \notin Copies BY <1>5, <1>6, PlaceOfOutput
  <2>2. pos = WrittenPos(a[1]) BY <1>5, <2>1, PlaceOfOutput
  <2>3. QED BY <1>3, <2>2
<1>7. OutputBit(pos) =
        IF Permuted(QueryPermute(Enable(End(i))))
        THEN WrittenBit(WrittenPos(Pin(Data(End(i))))) # Inverted(Data(End(i))) ELSE stale
  BY <1>1, <1>2, <1>6 DEF OutputBit
<1>8. QED BY <1>3, <1>4, <1>7 DEF LitValue

(* As long as the mapper's stages are sound and lose nothing, a cycle      *)
(* leaves each output bit the value the graph gives the literal of every   *)
(* endpoint stored there, or its old value while the enable is off, and no *)
(* two that differ share a bit (flatten.rs:350, cuda_test.rs:550).         *)
THEOREM StoresTheGraph == Spec => [](HierarchySound /\ NothingLost => EndpointsStored)
<1>1. ExecInv /\ StoredInv /\ HierarchySound /\ NothingLost => EndpointsStored
  <2> SUFFICES ASSUME ExecInv, StoredInv, HierarchySound, NothingLost, phase = "done", NEW e \in Placed
               PROVE  IF e.kind = "ram"
                      THEN \A i \in DOMAIN e.lits :
                             Permuted(QueryPermute(e.lits[i])) = LitValue(part.aig, ones, e.lits[i])
                      ELSE stored[OutputPos(Activation(e))] =
                             IF LitValue(part.aig, ones, Enable(e))
                             THEN LitValue(part.aig, ones, Data(e)) ELSE stale
    BY DEF EndpointsStored
  <2>1. AllRun BY SoundIsAsked DEF AllRun, ExecInv, Progress
  <2>2. Accepted /\ stored = OutputBits BY DEF StoredInv
  <2>3. part \in Partitions /\ e \in ToSet(part.endpoints) BY DEF ExecInv, Placed
  <2>4. ASSUME NEW i \in DOMAIN e.lits
        PROVE  Permuted(QueryPermute(e.lits[i])) = LitValue(part.aig, ones, e.lits[i])
    <3>1. e.lits[i] \in Nat /\ Pin(e.lits[i]) \in 0 .. Len(part.aig) BY <2>3, EndpointTypes
    <3>2. e.lits[i] > 1 => Pin(e.lits[i]) \in InputSet(e) BY <3>1 DEF InputSet, Pin
    <3>3. e.lits[i] > 1 => \E n \in WrittenAt : WrittenPin(n) = Pin(e.lits[i])
      BY <2>2, <3>2 DEF Accepted
    <3>4. QED BY <2>1, <3>1, <3>3, LiteralRight
  <2>5. ASSUME e.kind # "ram"
        PROVE  stored[OutputPos(Activation(e))] =
                 IF LitValue(part.aig, ones, Enable(e)) THEN LitValue(part.aig, ones, Data(e)) ELSE stale
    <3>1. PICK i \in DOMAIN part.endpoints : part.endpoints[i] = e
      BY <2>3, PartitionAssumption DEF ToSet
    <3>2. i \in StoredAt /\ End(i) = e BY <2>5, <3>1 DEF StoredAt, Placed, End
    <3>3. OutputPos(Activation(e)) \in {OutputPos(a) : a \in Activations}
      BY <3>2 DEF Activations, End
    <3>4. stored[OutputPos(Activation(e))] = OutputBit(OutputPos(Activation(e)))
      BY <2>2, <3>3 DEF OutputBits
    <3>5. QED BY <2>1, <2>2, <3>2, <3>4, OutputRight
  <2>6. QED BY <2>4, <2>5
<1>2. QED BY <1>1, Invariance, StoredInvariance, PTL

----------------------------------------------------------------------------
(* Sequences. *)
LEMMA ToSetOf ==
  ASSUME NEW T, NEW s \in Seq(T)
  PROVE  /\ DOMAIN s = 1 .. Len(s) /\ Len(s) \in Nat
         /\ ToSet(s) \in SUBSET T /\ \A i \in 1 .. Len(s) : s[i] \in T /\ s[i] \in ToSet(s)
         /\ \A x \in ToSet(s) : \E i \in 1 .. Len(s) : s[i] = x
BY DEF ToSet

LEMMA AppendedSet ==
  ASSUME NEW T, NEW s \in Seq(T), NEW x \in T
  PROVE  /\ Append(s, x) \in Seq(T) /\ Len(Append(s, x)) = Len(s) + 1
         /\ Append(s, x)[Len(s) + 1] = x
         /\ \A i \in 1 .. Len(s) : Append(s, x)[i] = s[i]
         /\ ToSet(Append(s, x)) = ToSet(s) \cup {x}
<1> DEFINE t == Append(s, x)
<1>1. t \in Seq(T) /\ Len(t) = Len(s) + 1 /\ t[Len(s) + 1] = x /\ DOMAIN t = 1 .. Len(s) + 1
      /\ \A i \in 1 .. Len(s) : t[i] = s[i]
  OBVIOUS
<1>2. DOMAIN s = 1 .. Len(s) /\ Len(s) \in Nat OBVIOUS
<1> HIDE DEF t
<1>3. \A y \in ToSet(t) : y \in ToSet(s) \cup {x}
  <2>1. TAKE y \in ToSet(t)
  <2>2. PICK i \in 1 .. Len(s) + 1 : t[i] = y BY <1>1 DEF ToSet
  <2>3. CASE i = Len(s) + 1 BY <1>1, <2>2, <2>3
  <2>4. CASE i \in 1 .. Len(s) BY <1>1, <1>2, <2>2, <2>4 DEF ToSet
  <2>5. QED BY <1>2, <2>3, <2>4
<1>4. \A y \in ToSet(s) : y \in ToSet(t)
  <2>1. TAKE y \in ToSet(s)
  <2>2. PICK i \in 1 .. Len(s) : s[i] = y BY <1>2 DEF ToSet
  <2>3. t[i] = y /\ i \in 1 .. Len(s) + 1 BY <1>1, <1>2, <2>2
  <2>4. QED BY <1>1, <2>3 DEF ToSet
<1>5. x \in ToSet(t)
  <2>1. Len(s) + 1 \in 1 .. Len(s) + 1 BY <1>2
  <2>2. QED BY <1>1, <2>1 DEF ToSet
<1>6. QED BY <1>1, <1>3, <1>4, <1>5 DEF t

(* What Kept keeps. *)
KeptStep(c, kept, x) == IF x \in c.set THEN Append(kept, x) ELSE kept
KeptInv(c, i, kept) ==
  /\ kept \in Seq(ToSet(c.seq))
  /\ ToSet(kept) = {c.seq[k] : k \in 1 .. i} \cap c.set
  /\ IsInjective(c.seq) => IsInjective(kept)
KeptFold == INSTANCE FoldProofs WITH Op <- KeptStep, Inv <- KeptInv

(* What is kept of a sequence, in its order. *)
LEMMA KeptIs ==
  ASSUME NEW T, NEW s \in Seq(T), NEW S
  PROVE  /\ Kept(s, S) \in Seq(T) /\ ToSet(Kept(s, S)) = ToSet(s) \cap S
         /\ IsInjective(s) => IsInjective(Kept(s, S))
<1> DEFINE c == [seq |-> s, set |-> S]
<1>1. DOMAIN s = 1 .. Len(s) /\ Len(s) \in Nat /\ ToSet(s) \in SUBSET T BY ToSetOf
<1>2. KeptInv(c, 0, <<>>)
  <2>1. <<>> \in Seq(ToSet(s)) /\ ToSet(<<>>) = {} /\ IsInjective(<<>>) BY DEF ToSet, IsInjective
  <2>2. {s[k] : k \in 1 .. 0} = {} OBVIOUS
  <2>3. QED BY <2>1, <2>2 DEF KeptInv
<1>3. KeptFold!Steps(c, s)
  <2>1. SUFFICES ASSUME NEW i \in 1 .. Len(s), NEW kept, KeptInv(c, i - 1, kept)
                 PROVE  KeptInv(c, i, KeptStep(c, kept, s[i]))
    BY <1>1 DEF KeptFold!Steps
  <2>2. {s[k] : k \in 1 .. i} = {s[k] : k \in 1 .. i - 1} \cup {s[i]}
    <3>1. \A k \in 1 .. i : k \in 1 .. i - 1 \/ k = i OBVIOUS
    <3>2. \A k \in 1 .. i - 1 : k \in 1 .. i OBVIOUS
    <3>3. i \in 1 .. i OBVIOUS
    <3>4. QED BY <3>1, <3>2, <3>3
  <2>3. /\ kept \in Seq(ToSet(s)) /\ ToSet(kept) = {s[k] : k \in 1 .. i - 1} \cap S
        /\ IsInjective(s) => IsInjective(kept)
    BY <2>1 DEF KeptInv
  <2>4. CASE s[i] \notin S
    <3>1. KeptStep(c, kept, s[i]) = kept BY <2>4 DEF KeptStep
    <3>2. QED BY <2>2, <2>3, <2>4, <3>1 DEF KeptInv
  <2>5. CASE s[i] \in S
    <3>1. s[i] \in ToSet(s) BY <1>1 DEF ToSet
    <3>2. KeptStep(c, kept, s[i]) = Append(kept, s[i]) BY <2>5 DEF KeptStep
    <3> DEFINE t == Append(kept, s[i])
    <3>3. /\ t \in Seq(ToSet(s)) /\ Len(t) = Len(kept) + 1 /\ t[Len(kept) + 1] = s[i]
          /\ \A k \in 1 .. Len(kept) : t[k] = kept[k]
          /\ ToSet(t) = ToSet(kept) \cup {s[i]}
      BY <2>3, <3>1, AppendedSet
    <3>4. DOMAIN kept = 1 .. Len(kept) /\ Len(kept) \in Nat /\ DOMAIN t = 1 .. Len(kept) + 1
      BY <2>3, <3>3
    <3> HIDE DEF t
    <3>5. ASSUME IsInjective(s) PROVE IsInjective(t)
      <4>1. IsInjective(kept) BY <2>3, <3>5
      <4>2. s[i] \notin ToSet(kept)
        <5>1. \A k \in 1 .. i - 1 : s[k] # s[i] BY <1>1, <3>5 DEF IsInjective
        <5>2. QED BY <2>3, <5>1
      <4>3. \A k \in 1 .. Len(kept) : kept[k] \in ToSet(kept) BY <3>4 DEF ToSet
      <4>4. SUFFICES ASSUME NEW a \in 1 .. Len(kept) + 1, NEW b \in 1 .. Len(kept) + 1, t[a] = t[b]
                     PROVE  a = b
        BY <3>4 DEF IsInjective
      <4>5. CASE a = Len(kept) + 1 /\ b # a
        <5>1. b \in 1 .. Len(kept) BY <3>4, <4>5
        <5>2. t[b] = kept[b] /\ t[a] = s[i] BY <3>3, <4>5, <5>1
        <5>3. QED BY <4>2, <4>3, <4>4, <5>1, <5>2
      <4>6. CASE b = Len(kept) + 1 /\ b # a
        <5>1. a \in 1 .. Len(kept) BY <3>4, <4>6
        <5>2. t[a] = kept[a] /\ t[b] = s[i] BY <3>3, <4>6, <5>1
        <5>3. QED BY <4>2, <4>3, <4>4, <5>1, <5>2
      <4>7. CASE a \in 1 .. Len(kept) /\ b \in 1 .. Len(kept)
        <5>1. kept[a] = kept[b] BY <3>3, <4>4, <4>7
        <5>2. QED BY <3>4, <4>1, <4>7, <5>1 DEF IsInjective
      <4>8. QED BY <3>4, <4>5, <4>6, <4>7
    <3>6. ToSet(t) = {s[k] : k \in 1 .. i} \cap S BY <2>2, <2>3, <2>5, <3>3
    <3>7. QED BY <3>2, <3>3, <3>5, <3>6 DEF KeptInv, t
  <2>6. QED BY <2>4, <2>5
<1>4. KeptInv(c, Len(s), KeptFold!Folded(c, <<>>, s)) BY <1>1, <1>2, <1>3, KeptFold!FoldKeeps
<1>5. KeptFold!Folded(c, <<>>, s) = Kept(s, S)
  BY DEF Kept, KeptFold!Folded, KeptStep, FoldLeft, MapThenFoldSet, Max,
         KeptFold!Highest
<1>6. {s[k] : k \in 1 .. Len(s)} = ToSet(s) BY <1>1 DEF ToSet
<1>7. Seq(ToSet(s)) \subseteq Seq(T) BY <1>1
<1>8. QED BY <1>4, <1>5, <1>6, <1>7 DEF KeptInv

(* Sorting a set gives a sequence of its elements. *)
SortStep(c, sorted, i) == Picked(sorted, c.rank)
SortInv(c, i, sorted) ==
  /\ sorted.left \in SUBSET c.set /\ IsFiniteSet(sorted.left)
  /\ Cardinality(sorted.left) = Cardinality(c.set) - i
  /\ sorted.seq \in Seq(c.set) /\ Len(sorted.seq) = i
SortFold == INSTANCE FoldProofs WITH Op <- SortStep, Inv <- SortInv

LEMMA LowestRank ==
  ASSUME NEW S, S # {}, NEW rank, \A x \in S : rank[x] \in Nat
  PROVE  \E x \in S : \A y \in S : rank[x] <= rank[y]
<1> DEFINE R == {rank[x] : x \in S}
<1>1. R \in SUBSET Nat /\ R # {} OBVIOUS
<1>2. PICK d \in R : \A e \in R : d <= e BY <1>1, HasMinimum
<1>3. QED BY <1>2

(* Sorting repeats nothing and adds nothing. *)
LEMMA SortedInside ==
  ASSUME NEW S, IsFiniteSet(S), NEW rank, \A x \in S : rank[x] \in Nat
  PROVE  SortedBy(S, rank) \in Seq(S) /\ Len(SortedBy(S, rank)) = Cardinality(S)
<1> DEFINE c == [set |-> S, rank |-> rank]
           base == [left |-> S, seq |-> <<>>]
           n == Cardinality(S)
           seq == [i \in 1 .. n |-> i]
<1>1. n \in Nat BY FS_CardinalityType
<1>2. DOMAIN seq = 1 .. n OBVIOUS
<1>3. SortInv(c, 0, base) BY <1>1 DEF SortInv
<1>4. SortFold!Steps(c, seq)
  <2>1. SUFFICES ASSUME NEW i \in 1 .. n, NEW sorted, SortInv(c, i - 1, sorted)
                 PROVE  SortInv(c, i, SortStep(c, sorted, seq[i]))
    BY <1>2 DEF SortFold!Steps
  <2> DEFINE x == CHOOSE x \in sorted.left : \A y \in sorted.left : rank[x] <= rank[y]
  <2>2. /\ sorted.left \in SUBSET S /\ IsFiniteSet(sorted.left)
        /\ Cardinality(sorted.left) = n - (i - 1) /\ sorted.seq \in Seq(S) /\ Len(sorted.seq) = i - 1
    BY <2>1 DEF SortInv
  <2>3. sorted.left # {}
    <3>1. n - (i - 1) # 0 BY <1>1
    <3>2. QED BY <2>2, <3>1, FS_EmptySet
  <2>4. \E y \in sorted.left : \A z \in sorted.left : rank[y] <= rank[z] BY <2>2, <2>3, LowestRank
  <2>5. x \in sorted.left BY <2>4
  <2>6. SortStep(c, sorted, seq[i]) = [left |-> sorted.left \ {x}, seq |-> Append(sorted.seq, x)]
    BY DEF SortStep, Picked
  <2> HIDE DEF x
  <2>7. IsFiniteSet(sorted.left \ {x}) /\ Cardinality(sorted.left \ {x}) = Cardinality(sorted.left) - 1
    BY <2>2, <2>5, FS_RemoveElement
  <2>8. Append(sorted.seq, x) \in Seq(S) /\ Len(Append(sorted.seq, x)) = i BY <2>2, <2>5
  <2>9. n - (i - 1) - 1 = n - i BY <1>1
  <2> DEFINE next == [left |-> sorted.left \ {x}, seq |-> Append(sorted.seq, x)]
  <2>10. /\ next.left \in SUBSET S /\ IsFiniteSet(next.left)
         /\ next.seq \in Seq(S) /\ Len(next.seq) = i
    BY <2>2, <2>7, <2>8
  <2>11. Cardinality(next.left) = n - i BY <2>2, <2>7, <2>9
  <2>12. c.set = S OBVIOUS
  <2> HIDE DEF next, c
  <2>13. SortInv(c, i, next) BY <2>10, <2>11, <2>12 DEF SortInv
  <2>14. QED BY <2>6, <2>13 DEF next
<1>5. SortInv(c, n, SortFold!Folded(c, base, seq))
  <2> HIDE DEF c, base, n, seq
  <2>1. QED BY <1>1, <1>2, <1>3, <1>4, SortFold!FoldKeeps
<1>6. SortFold!Folded(c, base, seq).seq = SortedBy(S, rank)
  BY DEF SortedBy, SortFold!Folded, SortStep, FoldLeft, MapThenFoldSet, Max,
         SortFold!Highest
<1>7. QED BY <1>5, <1>6 DEF SortInv

(* What is removed one by one is gone, and nothing else is.                *)
RemoveStep(c, s, x) == SwapRemove(s, x)
RemoveInv(c, i, s) ==
  /\ s \in Seq(c.all) /\ IsInjective(s)
  /\ ToSet(s) = c.all \ {c.gone[k] : k \in 1 .. i}
RemoveFold == INSTANCE FoldProofs WITH Op <- RemoveStep, Inv <- RemoveInv

(* Swap-removal takes out exactly the given pin. *)
LEMMA OneRemoved ==
  ASSUME NEW T, NEW s \in Seq(T), IsInjective(s), NEW x \in ToSet(s)
  PROVE  /\ SwapRemove(s, x) \in Seq(T) /\ IsInjective(SwapRemove(s, x))
         /\ ToSet(SwapRemove(s, x)) = ToSet(s) \ {x}
<1> DEFINE i == CHOOSE i \in DOMAIN s : s[i] = x
           n == Len(s)
           t == [s EXCEPT ![i] = Last(s)]
           u == Front(t)
<1>1. DOMAIN s = 1 .. n /\ n = Len(s) /\ n \in Nat /\ \A k \in 1 .. n : s[k] \in T BY ToSetOf
<1>0. n \in Nat BY <1>1
<1> HIDE DEF n
<1>2. \E k \in DOMAIN s : s[k] = x BY DEF ToSet
<1>3. i \in 1 .. n /\ s[i] = x BY <1>1, <1>2
<1>4. SwapRemove(s, x) = u BY DEF SwapRemove
<1> HIDE DEF i
<1>5. n \in 1 .. n /\ Last(s) = s[n] BY <1>1, <1>3 DEF Last
<1>6. t \in Seq(T) /\ Len(t) = n /\ \A k \in 1 .. n : t[k] = IF k = i THEN s[n] ELSE s[k]
  <2>1. s[n] \in T BY <1>1, <1>5
  <2>2. t \in Seq(T) /\ Len(t) = n BY <1>1, <1>3, <1>5, <2>1
  <2>3. \A k \in 1 .. n : t[k] = IF k = i THEN s[n] ELSE s[k] BY <1>1, <1>5
  <2>4. QED BY <2>2, <2>3
<1> HIDE DEF t
<1>7. u = SubSeq(t, 1, n - 1) BY <1>6 DEF Front
<1>8. u \in Seq(T) /\ Len(u) = n - 1 /\ \A k \in 1 .. n - 1 : u[k] = t[k]
  <2>1. n - 1 \in Nat /\ n - 1 <= Len(t) BY <1>1, <1>5, <1>6
  <2>2. QED BY <1>1, <1>6, <1>7, <2>1
<1>9. DOMAIN u = 1 .. n - 1 BY <1>8
<1> HIDE DEF u
<1>10. \A a, b \in 1 .. n : s[a] = s[b] => a = b BY <1>1 DEF IsInjective
<1>11. \A k \in 1 .. n - 1 : u[k] = IF k = i THEN s[n] ELSE s[k]
  <2>1. \A k \in 1 .. n - 1 : k \in 1 .. n BY <1>1
  <2>2. QED BY <1>6, <1>8, <2>1
<1>12. IsInjective(u)
  <2>1. SUFFICES ASSUME NEW a \in 1 .. n - 1, NEW b \in 1 .. n - 1, u[a] = u[b] PROVE a = b
    BY <1>9 DEF IsInjective
  <2>2. a \in 1 .. n /\ b \in 1 .. n /\ a # n /\ b # n BY <1>0
  <2>3. QED BY <1>5, <1>10, <1>11, <2>1, <2>2
<1>s. \A k \in 1 .. n : s[k] \in ToSet(s) BY <1>1 DEF ToSet
<1>13. \A y \in ToSet(u) : y \in ToSet(s) \ {x}
  <2>1. TAKE y \in ToSet(u)
  <2>2. PICK k \in 1 .. n - 1 : u[k] = y BY <1>9 DEF ToSet
  <2>3. k \in 1 .. n /\ k # n BY <1>0
  <2>4. CASE k = i
    <3>1. y = s[n] /\ i # n BY <1>11, <2>2, <2>3, <2>4
    <3>2. s[n] # s[i] BY <1>3, <1>5, <1>10, <3>1
    <3>3. y # x BY <1>3, <3>1, <3>2
    <3>4. QED BY <1>5, <1>s, <3>1, <3>3
  <2>5. CASE k # i
    <3>1. y = s[k] BY <1>11, <2>2, <2>5
    <3>2. s[k] # s[i] BY <1>3, <1>10, <2>3, <2>5
    <3>3. y # x BY <1>3, <3>1, <3>2
    <3>4. QED BY <1>s, <2>3, <3>1, <3>3
  <2>6. QED BY <2>4, <2>5
<1>14. \A y \in ToSet(s) \ {x} : y \in ToSet(u)
  <2>1. TAKE y \in ToSet(s) \ {x}
  <2>2. PICK k \in 1 .. n : s[k] = y BY <1>1 DEF ToSet
  <2>3. k # i BY <1>3, <2>2
  <2>4. CASE k = n
    <3>1. i \in 1 .. n - 1 BY <1>0, <1>3, <2>3, <2>4
    <3>2. u[i] = y BY <1>11, <2>2, <2>4, <3>1
    <3>3. QED BY <1>9, <3>1, <3>2 DEF ToSet
  <2>5. CASE k # n
    <3>1. k \in 1 .. n - 1 BY <1>0, <2>5
    <3>2. u[k] = y BY <1>11, <2>2, <2>3, <3>1
    <3>3. QED BY <1>9, <3>1, <3>2 DEF ToSet
  <2>6. QED BY <2>4, <2>5
<1>15. QED BY <1>4, <1>8, <1>12, <1>13, <1>14

(* And so for several pins: those that stay are all the others, none       *)
(* twice.                                                                  *)
LEMMA AllRemoved ==
  ASSUME NEW T, NEW s \in Seq(T), IsInjective(s), NEW gone \in Seq(ToSet(s)), IsInjective(gone)
  PROVE  /\ FoldLeft(SwapRemove, s, gone) \in Seq(T) /\ IsInjective(FoldLeft(SwapRemove, s, gone))
         /\ ToSet(FoldLeft(SwapRemove, s, gone)) = ToSet(s) \ ToSet(gone)
<1> DEFINE c == [all |-> ToSet(s), gone |-> gone]
<1>1. DOMAIN s = 1 .. Len(s) /\ Len(s) \in Nat /\ ToSet(s) \in SUBSET T BY ToSetOf
<1>2. DOMAIN gone = 1 .. Len(gone) /\ Len(gone) \in Nat /\ \A k \in 1 .. Len(gone) : gone[k] \in ToSet(s)
  BY ToSetOf
<1>3. RemoveInv(c, 0, s)
  <2>1. {gone[k] : k \in 1 .. 0} = {} OBVIOUS
  <2>2. s \in Seq(ToSet(s))
    <3>1. s = [i \in 1 .. Len(s) |-> s[i]] BY <1>1
    <3>2. \A i \in 1 .. Len(s) : s[i] \in ToSet(s) BY <1>1 DEF ToSet
    <3>3. [i \in 1 .. Len(s) |-> s[i]] \in Seq(ToSet(s)) BY <1>1, <3>2
    <3>4. QED BY <3>1, <3>3
  <2>3. QED BY <2>1, <2>2 DEF RemoveInv
<1>4. RemoveFold!Steps(c, gone)
  <2>1. SUFFICES ASSUME NEW i \in 1 .. Len(gone), NEW left, RemoveInv(c, i - 1, left)
                 PROVE  RemoveInv(c, i, RemoveStep(c, left, gone[i]))
    BY <1>2 DEF RemoveFold!Steps
  <2>2. /\ left \in Seq(ToSet(s)) /\ IsInjective(left)
        /\ ToSet(left) = ToSet(s) \ {gone[k] : k \in 1 .. i - 1}
    BY <2>1 DEF RemoveInv
  <2>3. gone[i] \in ToSet(left)
    <3>1. \A k \in 1 .. i - 1 : k \in 1 .. Len(gone) /\ k # i BY <1>2
    <3>2. \A k \in 1 .. i - 1 : gone[k] # gone[i] BY <1>2, <3>1 DEF IsInjective
    <3>3. QED BY <1>2, <2>2, <3>2
  <2>4. /\ SwapRemove(left, gone[i]) \in Seq(ToSet(s)) /\ IsInjective(SwapRemove(left, gone[i]))
        /\ ToSet(SwapRemove(left, gone[i])) = ToSet(left) \ {gone[i]}
    BY <2>2, <2>3, OneRemoved
  <2>5. {gone[k] : k \in 1 .. i} = {gone[k] : k \in 1 .. i - 1} \cup {gone[i]}
    <3>1. \A k \in 1 .. i : k \in 1 .. i - 1 \/ k = i OBVIOUS
    <3>2. \A k \in 1 .. i - 1 : k \in 1 .. i OBVIOUS
    <3>3. i \in 1 .. i OBVIOUS
    <3>4. QED BY <3>1, <3>2, <3>3
  <2>6. QED BY <2>2, <2>4, <2>5 DEF RemoveInv, RemoveStep
<1>5. RemoveInv(c, Len(gone), RemoveFold!Folded(c, s, gone)) BY <1>2, <1>3, <1>4, RemoveFold!FoldKeeps
<1>6. RemoveFold!Folded(c, s, gone) = FoldLeft(SwapRemove, s, gone)
  BY DEF RemoveFold!Folded, RemoveStep, FoldLeft, MapThenFoldSet, Max,
         RemoveFold!Highest
<1>7. {gone[k] : k \in 1 .. Len(gone)} = ToSet(gone) BY <1>2 DEF ToSet
<1>8. Seq(ToSet(s)) \subseteq Seq(T) BY <1>1
<1>9. QED BY <1>5, <1>6, <1>7, <1>8 DEF RemoveInv

----------------------------------------------------------------------------
(* The order of a traversal: each gate after what it is made of, down to   *)
(* the pins that are not entered, and nothing the given pins do not need.  *)
Inner(aig, stop, q) == IsAnd(aig, q) /\ q \notin stop
Ordered(aig, stop, order) ==
  /\ order \in Seq(1 .. Len(aig))
  /\ \A i \in 1 .. Len(order) : Inner(aig, stop, order[i]) =>
       \A f \in Fanins(aig, order[i]) : \E k \in 1 .. i - 1 : order[k] = f
Asked(aig, stop, pins, order) ==
  \A x \in ToSet(order) : \/ x \in pins
                          \/ \E q \in ToSet(order) : Inner(aig, stop, q) /\ x \in Fanins(aig, q)

DfsBody(c, dfs, p) ==
  [order \in Seq(Nat) |->
     IF p = 0 \/ Contains(order, p) THEN order
     ELSE IF IsAnd(c.aig, p) /\ p \notin c.stop
     THEN Append(dfs[Pin(c.aig[p].b)][dfs[Pin(c.aig[p].a)][order]], p)
     ELSE Append(order, p)]
NoInv(c, i, s) == TRUE
DfsRec == INSTANCE FoldProofs WITH Op <- DfsBody, Inv <- NoInv

LEMMA GateFanins ==
  ASSUME NEW aig \in Seq(Driver), Acyclic(aig), Simplified(aig), NEW p \in 0 .. Len(aig), IsAnd(aig, p)
  PROVE  /\ p \in 1 .. Len(aig) /\ Fanins(aig, p) = {Pin(aig[p].a), Pin(aig[p].b)}
         /\ Pin(aig[p].a) \in 1 .. p - 1 /\ Pin(aig[p].b) \in 1 .. p - 1
<1>1. /\ p \in 1 .. Len(aig)
      /\ Pin(aig[p].a) \in 0 .. p - 1 /\ Pin(aig[p].b) \in 0 .. p - 1 BY FaninsBelow
<1>2. Pin(aig[p].a) # 0 /\ Pin(aig[p].b) # 0 BY DEF Simplified, IsAnd
<1>3. QED BY <1>1, <1>2 DEF Fanins

(* The traversal is defined for every graph, since fan-ins have lower      *)
(* numbers.                                                                *)
LEMMA DfsIs ==
  ASSUME NEW aig \in Seq(Driver), Acyclic(aig), NEW stop, NEW p \in 0 .. Len(aig)
  PROVE  DfsTopo(aig, stop)[p] = DfsBody([aig |-> aig, stop |-> stop], DfsTopo(aig, stop), p)
<1> DEFINE c == [aig |-> aig, stop |-> stop]
           D == 0 .. Len(aig)
           rank == [x \in D |-> x]
           dfs == DfsTopo(aig, stop)
<1>1. Len(aig) \in Nat OBVIOUS
<1>2. DfsRec!Founded(c, D, rank)
  <2>1. SUFFICES ASSUME NEW x \in D, NEW f, NEW g, \A y \in D : rank[y] < rank[x] => f[y] = g[y]
                 PROVE  DfsBody(c, f, x) = DfsBody(c, g, x)
    BY DEF DfsRec!Founded
  <2>2. CASE ~(IsAnd(aig, x) /\ x \notin stop) BY <2>2 DEF DfsBody
  <2>3. CASE IsAnd(aig, x)
    <3>1. Pin(aig[x].a) \in 0 .. x - 1 /\ Pin(aig[x].b) \in 0 .. x - 1 BY <2>3, FaninsBelow
    <3>2. f[Pin(aig[x].a)] = g[Pin(aig[x].a)] /\ f[Pin(aig[x].b)] = g[Pin(aig[x].b)]
      BY <2>1, <3>1
    <3>3. QED BY <3>2 DEF DfsBody
  <2>4. QED BY <2>2, <2>3
<1>3. \E f : DfsRec!Recursive(c, D, f) 
  <2>1. \A x \in D : rank[x] \in 0 .. Len(aig) OBVIOUS
  <2> HIDE DEF c, D, rank
  <2>2. QED BY <1>1, <1>2, <2>1, DfsRec!RecursionExists
<1>4. \E f : f = [x \in D |-> DfsBody(c, f, x)] BY <1>3, Zenon DEF DfsRec!Recursive
<1>5. dfs = CHOOSE f : f = [x \in D |-> DfsBody(c, f, x)] BY ZenonT(40) DEF DfsTopo, DfsBody
<1>6. dfs = [x \in D |-> DfsBody(c, dfs, x)] BY <1>4, <1>5
<1> HIDE DEF dfs
<1>7. QED BY <1>6

(* A traversal from one pin. *)
LEMMA DfsOrders ==
  ASSUME NEW aig \in Seq(Driver), Acyclic(aig), Simplified(aig), NEW stop
  PROVE  \A p \in 1 .. Len(aig) : \A order : Ordered(aig, stop, order) =>
           LET r == DfsTopo(aig, stop)[p][order] IN
           /\ Ordered(aig, stop, r) /\ ToSet(order) \subseteq ToSet(r) /\ p \in ToSet(r)
           /\ \A x \in ToSet(r) \ ToSet(order) :
                x = p \/ \E q \in ToSet(r) : Inner(aig, stop, q) /\ x \in Fanins(aig, q)
<1> DEFINE dfs == DfsTopo(aig, stop)
           Good(p, order, r) ==
             /\ Ordered(aig, stop, r) /\ ToSet(order) \subseteq ToSet(r) /\ p \in ToSet(r)
             /\ \A x \in ToSet(r) \ ToSet(order) :
                  x = p \/ \E q \in ToSet(r) : Inner(aig, stop, q) /\ x \in Fanins(aig, q)
           N == {p \in 1 .. Len(aig) : ~ \A order : Ordered(aig, stop, order) => Good(p, order, dfs[p][order])}
<1>0. Len(aig) \in Nat OBVIOUS
<1> HIDE DEF dfs
<1>1. ASSUME N # {} PROVE FALSE
  <2>1. PICK p \in N : \A e \in N : p <= e
    <3>1. N \in SUBSET Nat OBVIOUS
    <3>2. QED BY <1>1, <3>1, HasMinimum
  <2>2. PICK order : Ordered(aig, stop, order) /\ ~Good(p, order, dfs[p][order]) BY <2>1
  <2>p. p \in 1 .. Len(aig) /\ p \in 0 .. Len(aig) BY <2>1
  <2>3. order \in Seq(1 .. Len(aig)) /\ order \in Seq(Nat)
    <3>1. order \in Seq(1 .. Len(aig)) BY <2>2 DEF Ordered
    <3>2. 1 .. Len(aig) \subseteq Nat OBVIOUS
    <3>3. QED BY <3>1, <3>2
  <2>4. dfs[p][order] =
          IF Contains(order, p) THEN order
          ELSE IF Inner(aig, stop, p) THEN Append(dfs[Pin(aig[p].b)][dfs[Pin(aig[p].a)][order]], p)
          ELSE Append(order, p)
    <3>1. dfs[p] = DfsBody([aig |-> aig, stop |-> stop], dfs, p) BY <2>p, DfsIs DEF dfs
    <3>2. DfsBody([aig |-> aig, stop |-> stop], dfs, p) =
            [seq \in Seq(Nat) |->
               IF p = 0 \/ Contains(seq, p) THEN seq
               ELSE IF IsAnd(aig, p) /\ p \notin stop
               THEN Append(dfs[Pin(aig[p].b)][dfs[Pin(aig[p].a)][seq]], p)
               ELSE Append(seq, p)]
      BY DEF DfsBody
    <3>3. p # 0 BY <2>p
    <3>4. QED BY <2>3, <3>1, <3>2, <3>3, Zenon DEF Inner
  <2> HIDE DEF N
  <2>5. CASE Contains(order, p)
    <3>1. p \in ToSet(order) BY <2>3, <2>5 DEF Contains, ToSet
    <3>2. QED BY <2>2, <2>4, <2>5, <3>1
  <2>6. CASE ~Contains(order, p) /\ ~Inner(aig, stop, p)
    <3> DEFINE r == Append(order, p)
    <3>1. /\ r \in Seq(1 .. Len(aig)) /\ Len(r) = Len(order) + 1 /\ r[Len(order) + 1] = p
          /\ \A i \in 1 .. Len(order) : r[i] = order[i] /\ ToSet(r) = ToSet(order) \cup {p}
      BY <2>p, <2>3, AppendedSet
    <3>2. Len(order) \in Nat /\ ToSet(r) = ToSet(order) \cup {p} BY <2>p, <2>3, AppendedSet
    <3> HIDE DEF r
    <3>3. Ordered(aig, stop, r)
      <4>1. SUFFICES ASSUME NEW i \in 1 .. Len(order) + 1, Inner(aig, stop, r[i]), NEW f \in Fanins(aig, r[i])
                     PROVE  \E k \in 1 .. i - 1 : r[k] = f
        BY <3>1 DEF Ordered
      <4>2. i \in 1 .. Len(order) BY <2>6, <3>1, <3>2, <4>1
      <4>3. r[i] = order[i] BY <3>1, <4>2
      <4>4. PICK k \in 1 .. i - 1 : order[k] = f BY <2>2, <4>1, <4>2, <4>3 DEF Ordered
      <4>5. k \in 1 .. Len(order) BY <4>2, <3>2
      <4>6. QED BY <3>1, <4>4, <4>5
    <3>4. Good(p, order, r) BY <3>2, <3>3
    <3>5. QED BY <2>2, <2>4, <2>6, <3>4 DEF r
  <2>7. CASE ~Contains(order, p) /\ Inner(aig, stop, p)
    <3> DEFINE a == Pin(aig[p].a)
               b == Pin(aig[p].b)
               ra == dfs[a][order]
               rb == dfs[b][ra]
               r == Append(rb, p)
    <3>1. a \in 1 .. p - 1 /\ b \in 1 .. p - 1 /\ Fanins(aig, p) = {a, b}
      BY <2>p, <2>7, GateFanins DEF Inner
    <3> HIDE DEF a, b
    <3>2. a \in 1 .. Len(aig) /\ b \in 1 .. Len(aig) /\ a \notin N /\ b \notin N BY <2>p, <2>1, <3>1
    <3>3. Good(a, order, ra) BY <2>2, <3>2 DEF N
    <3>4. Good(b, ra, rb)
      <4>1. \A o : Ordered(aig, stop, o) => Good(b, o, dfs[b][o]) BY <3>2 DEF N
      <4>2. Ordered(aig, stop, ra) BY <3>3
      <4> HIDE DEF Good
      <4>3. QED BY <4>1, <4>2
    <3>d. dfs[p][order] = r BY <2>4, <2>7, Zenon DEF a, b
    <3> HIDE DEF ra, rb
    <3>5. rb \in Seq(1 .. Len(aig)) BY <3>4 DEF Ordered
    <3>6. /\ r \in Seq(1 .. Len(aig)) /\ Len(r) = Len(rb) + 1 /\ r[Len(rb) + 1] = p
          /\ \A i \in 1 .. Len(rb) : r[i] = rb[i]
      BY <2>p, <3>5, AppendedSet
    <3>7. Len(rb) \in Nat /\ ToSet(r) = ToSet(rb) \cup {p} /\ DOMAIN rb = 1 .. Len(rb)
      BY <2>p, <3>5, AppendedSet
    <3> HIDE DEF r
    <3>8. Ordered(aig, stop, r)
      <4>1. SUFFICES ASSUME NEW i \in 1 .. Len(rb) + 1, Inner(aig, stop, r[i]), NEW f \in Fanins(aig, r[i])
                     PROVE  \E k \in 1 .. i - 1 : r[k] = f
        BY <3>6 DEF Ordered
      <4>2. CASE i \in 1 .. Len(rb)
        <5>1. r[i] = rb[i] BY <3>6, <4>2
        <5>2. PICK k \in 1 .. i - 1 : rb[k] = f BY <3>4, <4>1, <4>2, <5>1 DEF Ordered
        <5>3. k \in 1 .. Len(rb) BY <4>2, <3>7
        <5>4. QED BY <3>6, <5>2, <5>3
      <4>3. CASE i = Len(rb) + 1
        <5>1. f \in {a, b} BY <3>1, <3>6, <4>1, <4>3
        <5>2. a \in ToSet(rb) /\ b \in ToSet(rb) BY <3>3, <3>4
        <5>3. PICK k \in 1 .. Len(rb) : rb[k] = f BY <3>7, <5>1, <5>2 DEF ToSet
        <5>4. k \in 1 .. i - 1 BY <3>7, <4>3
        <5>5. QED BY <3>6, <5>3, <5>4
      <4>4. QED BY <3>7, <4>2, <4>3
    <3>9. ToSet(order) \subseteq ToSet(r) /\ p \in ToSet(r) BY <3>3, <3>4, <3>7
    <3>10. ASSUME NEW x \in ToSet(r) \ ToSet(order), x # p
           PROVE  \E q \in ToSet(r) : Inner(aig, stop, q) /\ x \in Fanins(aig, q)
      <4>1. CASE x = a \/ x = b BY <2>7, <3>1, <3>9, <4>1
      <4>2. CASE x \notin {a, b} /\ x \in ToSet(ra)
        <5>1. \E q \in ToSet(ra) : Inner(aig, stop, q) /\ x \in Fanins(aig, q) BY <3>3, <3>10, <4>2
        <5>2. QED BY <3>4, <3>7, <5>1
      <4>3. CASE x \notin {a, b} /\ x \notin ToSet(ra)
        <5>1. x \in ToSet(rb) BY <3>7, <3>10
        <5>2. \E q \in ToSet(rb) : Inner(aig, stop, q) /\ x \in Fanins(aig, q) BY <3>4, <4>3, <5>1
        <5>3. QED BY <3>7, <5>2
      <4>4. QED BY <4>1, <4>2, <4>3
    <3>11. Good(p, order, r) BY <3>8, <3>9, <3>10
    <3>12. QED BY <2>2, <3>11, <3>d
  <2>8. QED BY <2>5, <2>6, <2>7
<1>2. \A p \in 1 .. Len(aig) : \A order : Ordered(aig, stop, order) => Good(p, order, dfs[p][order])
  BY <1>1
<1>3. QED BY <1>2 DEF dfs

(* And from several in turn. *)
TopoStep(c, order, p) == DfsTopo(c.aig, c.stop)[p][order]
TopoInv(c, i, order) ==
  LET first == {c.pins[k] : k \in 1 .. i}
  IN  /\ Ordered(c.aig, c.stop, order) /\ first \subseteq ToSet(order)
      /\ Asked(c.aig, c.stop, first, order)
TopoFold == INSTANCE FoldProofs WITH Op <- TopoStep, Inv <- TopoInv

(* The order of a subgraph holds what is asked for, and each gate after    *)
(* its inputs (pe.rs:61, aig.rs:156).                                      *)
LEMMA TopoOrders ==
  ASSUME NEW aig \in Seq(Driver), Acyclic(aig), Simplified(aig), NEW stop,
         NEW pins \in Seq(1 .. Len(aig))
  PROVE  LET order == TopoTraverse(aig, pins, stop) IN
         /\ Ordered(aig, stop, order) /\ ToSet(pins) \subseteq ToSet(order)
         /\ Asked(aig, stop, ToSet(pins), order)
<1> DEFINE c == [aig |-> aig, stop |-> stop, pins |-> pins]
<1>1. DOMAIN pins = 1 .. Len(pins) /\ Len(pins) \in Nat /\ \A i \in 1 .. Len(pins) : pins[i] \in 1 .. Len(aig)
  BY ToSetOf
<1>2. TopoInv(c, 0, <<>>)
  <2>1. <<>> \in Seq(1 .. Len(aig)) /\ Len(<<>>) = 0 /\ ToSet(<<>>) = {} BY DEF ToSet
  <2>2. {pins[k] : k \in 1 .. 0} = {} OBVIOUS
  <2>3. QED BY <2>1, <2>2 DEF TopoInv, Ordered, Asked
<1>3. TopoFold!Steps(c, pins)
  <2>1. SUFFICES ASSUME NEW i \in 1 .. Len(pins), NEW order, TopoInv(c, i - 1, order)
                 PROVE  TopoInv(c, i, TopoStep(c, order, pins[i]))
    BY <1>1 DEF TopoFold!Steps
  <2> DEFINE r == DfsTopo(aig, stop)[pins[i]][order]
             first == {pins[k] : k \in 1 .. i - 1}
  <2>2. /\ Ordered(aig, stop, order) /\ first \subseteq ToSet(order)
        /\ Asked(aig, stop, first, order)
    BY <2>1 DEF TopoInv
  <2>3. {pins[k] : k \in 1 .. i} = first \cup {pins[i]}
    <3>1. \A k \in 1 .. i : k \in 1 .. i - 1 \/ k = i OBVIOUS
    <3>2. \A k \in 1 .. i - 1 : k \in 1 .. i OBVIOUS
    <3>3. i \in 1 .. i OBVIOUS
    <3>4. QED BY <3>1, <3>2, <3>3
  <2>4. /\ Ordered(aig, stop, r) /\ ToSet(order) \subseteq ToSet(r) /\ pins[i] \in ToSet(r)
        /\ \A x \in ToSet(r) \ ToSet(order) :
             x = pins[i] \/ \E q \in ToSet(r) : Inner(aig, stop, q) /\ x \in Fanins(aig, q)
    BY <1>1, <2>2, DfsOrders
  <2>5. TopoStep(c, order, pins[i]) = r BY DEF TopoStep
  <2> HIDE DEF r, first
  <2>6. Asked(aig, stop, first \cup {pins[i]}, r) BY <2>2, <2>4 DEF Asked
  <2>7. c.aig = aig /\ c.stop = stop /\ c.pins = pins OBVIOUS
  <2> HIDE DEF c
  <2>8. QED BY <2>2, <2>3, <2>4, <2>5, <2>6, <2>7 DEF TopoInv
<1>4. TopoInv(c, Len(pins), TopoFold!Folded(c, <<>>, pins)) BY <1>1, <1>2, <1>3, TopoFold!FoldKeeps
<1>5. TopoFold!Folded(c, <<>>, pins) = TopoTraverse(aig, pins, stop)
  BY DEF TopoTraverse, TopoFold!Folded, TopoStep, FoldLeft, MapThenFoldSet, Max,
         TopoFold!Highest
<1>6. {pins[k] : k \in 1 .. Len(pins)} = ToSet(pins) BY <1>1 DEF ToSet
<1>7. QED BY <1>4, <1>5, <1>6 DEF TopoInv

(* The levels of an order: those of a gate are above those of its inputs.  *)
LevelStep(c, level, p) ==
  [q \in DOMAIN level \cup {p} |-> IF q \in DOMAIN level THEN level[q] ELSE LevelOver(c.aig, c.known, level, p)]
LevelsRight(aig, known, level) ==
  \A p \in DOMAIN level :
    /\ level[p] \in 0 .. p
    /\ ~Inner(aig, known, p) => level[p] = 0
    /\ Inner(aig, known, p) => /\ level[p] # 0
                               /\ \A f \in Fanins(aig, p) : f \in DOMAIN level /\ level[f] < level[p]
                               /\ \E f \in Fanins(aig, p) : level[p] = level[f] + 1
LevelInv(c, i, level) ==
  DOMAIN level = {c.order[k] : k \in 1 .. i} /\ LevelsRight(c.aig, c.known, level)
LevelFold == INSTANCE FoldProofs WITH Op <- LevelStep, Inv <- LevelInv

(* A gate is above its inputs, and whatever is not computed is on level 0  *)
(* (pe.rs:82).                                                             *)
LEMMA LevelsAre ==
  ASSUME NEW aig \in Seq(Driver), Acyclic(aig), Simplified(aig), NEW known,
         NEW order, Ordered(aig, known, order)
  PROVE  LET level == Levelize(aig, known, order) IN
         DOMAIN level = ToSet(order) /\ LevelsRight(aig, known, level)
<1> DEFINE c == [aig |-> aig, known |-> known, order |-> order]
<1>1. DOMAIN order = 1 .. Len(order) /\ Len(order) \in Nat /\ \A i \in 1 .. Len(order) : order[i] \in 1 .. Len(aig)
  BY ToSetOf DEF Ordered
<1>2. LevelInv(c, 0, <<>>)
  <2>1. DOMAIN <<>> = {} OBVIOUS
  <2>2. {order[k] : k \in 1 .. 0} = {} OBVIOUS
  <2>3. QED BY <2>1, <2>2 DEF LevelInv, LevelsRight
<1>3. LevelFold!Steps(c, order)
  <2>1. SUFFICES ASSUME NEW i \in 1 .. Len(order), NEW level, LevelInv(c, i - 1, level)
                 PROVE  LevelInv(c, i, LevelStep(c, level, order[i]))
    BY <1>1 DEF LevelFold!Steps
  <2> DEFINE p == order[i]
             v == LevelOver(aig, known, level, p)
             r == [q \in DOMAIN level \cup {p} |-> IF q \in DOMAIN level THEN level[q] ELSE v]
             before == {order[k] : k \in 1 .. i - 1}
  <2>2. DOMAIN level = before /\ LevelsRight(aig, known, level) BY <2>1 DEF LevelInv
  <2>3. {order[k] : k \in 1 .. i} = before \cup {p}
    <3>1. \A k \in 1 .. i : k \in 1 .. i - 1 \/ k = i OBVIOUS
    <3>2. \A k \in 1 .. i - 1 : k \in 1 .. i OBVIOUS
    <3>3. i \in 1 .. i OBVIOUS
    <3>4. QED BY <3>1, <3>2, <3>3
  <2>4. /\ DOMAIN r = DOMAIN level \cup {p} /\ \A x \in DOMAIN level : r[x] = level[x]
        /\ p \notin DOMAIN level => r[p] = v
    OBVIOUS
  <2>5. p \in 1 .. Len(aig) /\ p \in 0 .. Len(aig) /\ p \in Nat BY <1>1
  <2>6. Inner(aig, known, p) => \A f \in Fanins(aig, p) : f \in before
    <3>1. SUFFICES ASSUME Inner(aig, known, p), NEW f \in Fanins(aig, p) PROVE f \in before OBVIOUS
    <3>2. PICK k \in 1 .. i - 1 : order[k] = f BY <3>1, <1>1 DEF Ordered
    <3>3. QED BY <3>2
  <2>7. LevelStep(c, level, p) = r BY DEF LevelStep
  <2>8. v \in 0 .. p /\ (~Inner(aig, known, p) => v = 0)
        /\ (Inner(aig, known, p) => /\ v # 0 /\ \A f \in Fanins(aig, p) : level[f] < v
                                    /\ \E f \in Fanins(aig, p) : v = level[f] + 1)
    <3>1. CASE ~Inner(aig, known, p)
      <4>1. v = 0 BY <3>1 DEF LevelOver, Inner, Fanins
      <4>2. QED BY <2>5, <3>1, <4>1
    <3>2. CASE Inner(aig, known, p)
      <4> DEFINE a == Pin(aig[p].a)
                 b == Pin(aig[p].b)
                 S == {level[q] : q \in Fanins(aig, p)}
      <4>1. Fanins(aig, p) = {a, b} /\ a \in 1 .. p - 1 /\ b \in 1 .. p - 1
        BY <2>5, <3>2, GateFanins DEF Inner
      <4>2. a \in DOMAIN level /\ b \in DOMAIN level BY <2>2, <2>6, <3>2, <4>1
      <4>3. level[a] \in 0 .. a /\ level[b] \in 0 .. b BY <2>2, <4>2 DEF LevelsRight
      <4>4. v = 1 + Max(S) BY <3>2, <4>1 DEF LevelOver, Inner
      <4>5. S = {level[a], level[b]} BY <4>1
      <4> HIDE DEF S, a, b, v
      <4>6. S \in SUBSET (0 .. p - 1) /\ S # {} BY <2>5, <4>1, <4>3, <4>5
      <4>7. p - 1 \in Nat BY <2>5
      <4>8. Max(S) \in S /\ \A x \in S : x <= Max(S) BY <4>6, <4>7, MaxIs
      <4>9. Max(S) \in 0 .. p - 1 BY <4>6, <4>8
      <4>10. v \in 0 .. p /\ v # 0 BY <2>5, <4>4, <4>9
      <4>11. \A f \in {a, b} : level[f] <= Max(S) BY <4>5, <4>8
      <4>12. \A f \in {a, b} : level[f] \in Int BY <4>3, <2>5
      <4>13. \A f \in {a, b} : level[f] < v BY <4>4, <4>9, <4>11, <4>12
      <4>14. PICK f \in {a, b} : level[f] = Max(S) BY <4>5, <4>8
      <4>15. v = level[f] + 1 BY <4>4, <4>9, <4>14
      <4>16. QED BY <3>2, <4>1, <4>10, <4>13, <4>15
    <3>3. QED BY <3>1, <3>2
  <2> HIDE DEF r, v, before, p
  <2>9. LevelsRight(aig, known, r)
    <3>1. SUFFICES ASSUME NEW x \in DOMAIN r
                   PROVE  /\ r[x] \in 0 .. x
                          /\ ~Inner(aig, known, x) => r[x] = 0
                          /\ Inner(aig, known, x) =>
                               /\ r[x] # 0 /\ \A f \in Fanins(aig, x) : f \in DOMAIN r /\ r[f] < r[x]
                               /\ \E f \in Fanins(aig, x) : r[x] = r[f] + 1
      BY DEF LevelsRight
    <3>2. CASE x \in DOMAIN level
      <4>1. /\ level[x] \in 0 .. x /\ (~Inner(aig, known, x) => level[x] = 0)
            /\ Inner(aig, known, x) =>
                 /\ level[x] # 0
                 /\ \A f \in Fanins(aig, x) : f \in DOMAIN level /\ level[f] < level[x]
                 /\ \E f \in Fanins(aig, x) : level[x] = level[f] + 1
        BY <2>2, <3>2 DEF LevelsRight
      <4>2. Inner(aig, known, x) => \E f \in Fanins(aig, x) : r[x] = r[f] + 1
        <5>1. SUFFICES ASSUME Inner(aig, known, x) PROVE \E f \in Fanins(aig, x) : r[x] = r[f] + 1 OBVIOUS
        <5>2. PICK f \in Fanins(aig, x) : level[x] = level[f] + 1 BY <4>1, <5>1
        <5>3. f \in DOMAIN level BY <4>1, <5>1
        <5>4. r[x] = level[x] /\ r[f] = level[f] BY <2>4, <3>2, <5>3
        <5>5. QED BY <5>2, <5>4
      <4>3. Inner(aig, known, x) => \A f \in Fanins(aig, x) : f \in DOMAIN r /\ r[f] < r[x]
        BY <2>4, <3>2, <4>1
      <4>4. QED BY <2>4, <3>2, <4>1, <4>2, <4>3
    <3>3. CASE x \notin DOMAIN level
      <4>1. x = p /\ r[x] = v BY <2>4, <3>1, <3>3
      <4>2. Inner(aig, known, p) => \A f \in Fanins(aig, p) : f \in DOMAIN level BY <2>2, <2>6
      <4>3. QED BY <2>4, <2>8, <4>1, <4>2
    <3>4. QED BY <3>2, <3>3
  <2>10. c.aig = aig /\ c.known = known /\ c.order = order OBVIOUS
  <2> HIDE DEF c
  <2>11. LevelInv(c, i, r) BY <2>2, <2>3, <2>4, <2>9, <2>10 DEF LevelInv
  <2>12. QED BY <2>7, <2>11 DEF p
<1>4. LevelInv(c, Len(order), LevelFold!Folded(c, <<>>, order)) BY <1>1, <1>2, <1>3, LevelFold!FoldKeeps
<1>5. LevelFold!Folded(c, <<>>, order) = Levelize(aig, known, order)
  BY DEF Levelize, LevelFold!Folded, LevelStep, FoldLeft, MapThenFoldSet, Max,
         LevelFold!Highest
<1>6. {order[k] : k \in 1 .. Len(order)} = ToSet(order) BY <1>1 DEF ToSet
<1>7. QED BY <1>4, <1>5, <1>6 DEF LevelInv

(* What is known of the graph a stage works on. *)
GraphOk(g) ==
  /\ g.aig \in Seq(Driver) /\ Acyclic(g.aig) /\ Simplified(g.aig)
  /\ g.order \in Seq(1 .. Len(g.aig)) /\ g.order # <<>>
  /\ DOMAIN g.level = ToSet(g.order) /\ LevelsRight(g.aig, g.realized, g.level)
  /\ g.goals \subseteq ToSet(g.order)
  /\ Asked(g.aig, g.realized, g.goals, g.order)

(* So what a stage works on is well-ordered and well-levelled. *)
LEMMA SubgraphOk ==
  ASSUME NEW aig \in Seq(Driver), Acyclic(aig), Simplified(aig), NEW realized_,
         NEW pins \in Seq(1 .. Len(aig)), pins # <<>>
  PROVE  LET g == Subgraph(aig, pins, realized_) IN
         /\ GraphOk(g) /\ g.aig = aig /\ g.goals = ToSet(pins) /\ g.realized = realized_
         /\ g.order = TopoTraverse(aig, pins, realized_)
<1> DEFINE g == Subgraph(aig, pins, realized_)
           order == TopoTraverse(aig, pins, realized_)
           level == Levelize(aig, realized_, order)
<1>1. /\ Ordered(aig, realized_, order) /\ ToSet(pins) \subseteq ToSet(order)
      /\ Asked(aig, realized_, ToSet(pins), order) BY TopoOrders
<1>2. g = [aig |-> aig, order |-> order, goals |-> ToSet(pins), realized |-> realized_, level |-> level]
  BY DEF Subgraph
<1> HIDE DEF order
<1>3. DOMAIN level = ToSet(order) /\ LevelsRight(aig, realized_, level) BY <1>1, LevelsAre
<1>4. order # <<>>
  <2>1. pins[1] \in ToSet(pins) BY DEF ToSet
  <2>2. ToSet(<<>>) = {} BY DEF ToSet
  <2>3. QED BY <1>1, <2>1, <2>2
<1> HIDE DEF g, level
<1>5. QED BY <1>1, <1>2, <1>3, <1>4 DEF GraphOk, Ordered, g, order

(* The facts about a pin of it. *)
LEMMA PinOk ==
  ASSUME NEW g, GraphOk(g), NEW p \in DOMAIN g.level
  PROVE  /\ p \in 1 .. Len(g.aig) /\ p # Free /\ g.level[p] \in Nat
         /\ g.level[p] = 0 <=> ~Inner(g.aig, g.realized, p)
         /\ g.level[p] # 0 =>
              LET a == Pin(g.aig[p].a)  b == Pin(g.aig[p].b) IN
              /\ IsAnd(g.aig, p) /\ Fanins(g.aig, p) = {a, b}
              /\ a \in DOMAIN g.level /\ b \in DOMAIN g.level
              /\ g.level[a] < g.level[p] /\ g.level[b] < g.level[p]
<1>1. p \in 1 .. Len(g.aig) BY ToSetOf DEF GraphOk
<1>2. Len(g.aig) \in Nat BY DEF GraphOk
<1>3. p \in Nat /\ p # Free /\ p \in 0 .. Len(g.aig) BY <1>1, <1>2 DEF Free
<1>4. /\ g.level[p] \in 0 .. p
      /\ ~Inner(g.aig, g.realized, p) => g.level[p] = 0
      /\ Inner(g.aig, g.realized, p) =>
           /\ g.level[p] # 0
           /\ \A f \in Fanins(g.aig, p) : f \in DOMAIN g.level /\ g.level[f] < g.level[p]
  BY DEF GraphOk, LevelsRight
<1>5. Inner(g.aig, g.realized, p) =>
        IsAnd(g.aig, p) /\ Fanins(g.aig, p) = {Pin(g.aig[p].a), Pin(g.aig[p].b)}
  BY <1>3, GateFanins DEF GraphOk, Inner
<1>6. QED BY <1>1, <1>3, <1>4, <1>5

----------------------------------------------------------------------------
(* Slots: each level's below the next one's.                               *)
LEMMA SlotAbove ==
  ASSUME NEW l \in 0 .. Levels - 1
  PROVE  /\ \A i \in Slot(l) : Above(l, i) \in Slot(l + 1)
         /\ \A k \in Slot(l + 1) :
              /\ k \in Slot(l) /\ k + Width(l + 1) \in Slot(l)
              /\ Above(l, k) = k /\ Above(l, k + Width(l + 1)) = k
              /\ Left(l, k) /\ ~Left(l, k + Width(l + 1))
<1>1. Width(l) = 2 * Width(l + 1) /\ Width(l + 1) \in Nat \ {0}
  <2>1. l + 1 \in 0 .. Levels BY LevelsNat
  <2>2. QED BY <2>1, WidthStep, WidthNat
<1> DEFINE w == Width(l + 1)
<1>2. Slot(l) = 0 .. 2 * w - 1 /\ Slot(l + 1) = 0 .. w - 1 /\ w \in Nat \ {0} BY <1>1 DEF Slot
<1>3. \A i : Above(l, i) = IF i < w THEN i ELSE i - w BY DEF Above
<1> HIDE DEF w
<1>4. \A i \in Slot(l) : Above(l, i) \in Slot(l + 1) BY <1>2, <1>3
<1>5. \A k \in Slot(l + 1) :
              /\ k \in Slot(l) /\ k + w \in Slot(l) /\ Above(l, k) = k /\ Above(l, k + w) = k
              /\ k < w /\ ~(k + w < w)
  BY <1>2, <1>3
<1>6. QED BY <1>4, <1>5 DEF w, Left

(* What holds at a level, and below a level that it holds at, holds below. *)
LEMMA Downwards ==
  ASSUME NEW h \in 0 .. Levels, NEW Bad \in SUBSET (0 .. h), h \notin Bad,
         \A l \in 0 .. h - 1 : l \in Bad => l + 1 \in Bad
  PROVE  Bad = {}
<1> DEFINE T == {h - l : l \in Bad}
<1>0. h \in Nat BY LevelsNat
<1>1. SUFFICES ASSUME Bad # {} PROVE FALSE OBVIOUS
<1>2. T \in SUBSET Nat /\ T # {}
  <2>1. \A l \in Bad : h - l \in Nat BY <1>0
  <2>2. QED BY <1>1, <2>1
<1>3. PICK d \in T : \A e \in T : d <= e BY <1>2, HasMinimum
<1>4. PICK l \in Bad : d = h - l BY <1>3
<1>5. l \in 0 .. h - 1 BY <1>0, <1>4
<1>6. l + 1 \in Bad BY <1>4, <1>5
<1>7. h - (l + 1) \in T BY <1>6
<1>8. h - l <= h - (l + 1) BY <1>3, <1>4, <1>7
<1>9. QED BY <1>0, <1>5, <1>8

----------------------------------------------------------------------------
(* The slots a pin needs. *)
NeedsBody(c, needs, l) ==
  LET over == needs[l + 1]
      q(i) == over[Above(l, i)]
  IN  [i \in Slot(l) |->
         IF l = c.h THEN IF i = c.j THEN c.p ELSE Free
         ELSE IF q(i) = Free THEN Free ELSE Handed(c.g, q(i), l, i)]
NeedsRec == INSTANCE FoldProofs WITH Op <- NeedsBody, Inv <- NoInv

(* The recursion downwards over the levels is well-founded. *)
LEMMA NeedsUnfold ==
  ASSUME NEW g, NEW h \in 0 .. Levels, NEW j, NEW p, NEW l \in 0 .. h
  PROVE  Needs(g, h, j, p)[l] = NeedsBody([g |-> g, h |-> h, j |-> j, p |-> p], Needs(g, h, j, p), l)
<1> DEFINE c == [g |-> g, h |-> h, j |-> j, p |-> p]
           D == 0 .. h
           rank == [x \in D |-> h - x]
           needs == Needs(g, h, j, p)
<1>0. h \in Nat BY LevelsNat
<1>1. NeedsRec!Founded(c, D, rank)
  <2>1. SUFFICES ASSUME NEW x \in D, NEW f, NEW f2, \A y \in D : rank[y] < rank[x] => f[y] = f2[y]
                 PROVE  NeedsBody(c, f, x) = NeedsBody(c, f2, x)
    BY DEF NeedsRec!Founded
  <2>2. CASE x = h BY <2>2 DEF NeedsBody
  <2>3. CASE x # h
    <3>1. x + 1 \in D /\ rank[x + 1] < rank[x] BY <1>0, <2>3
    <3>2. f[x + 1] = f2[x + 1] BY <2>1, <3>1
    <3>3. QED BY <3>2 DEF NeedsBody
  <2>4. QED BY <2>2, <2>3
<1>2. \E f : NeedsRec!Recursive(c, D, f)
  <2>1. \A x \in D : rank[x] \in 0 .. h BY <1>0
  <2> HIDE DEF c, D, rank
  <2>2. QED BY <1>0, <1>1, <2>1, NeedsRec!RecursionExists
<1>3. \E f : f = [x \in D |-> NeedsBody(c, f, x)] BY <1>2 DEF NeedsRec!Recursive
<1>4. needs = CHOOSE f : f = [x \in D |-> NeedsBody(c, f, x)] BY DEF Needs, NeedsBody
<1>5. needs = [x \in D |-> NeedsBody(c, needs, x)] BY <1>3, <1>4
<1> HIDE DEF needs
<1>6. needs[l] = NeedsBody(c, needs, l) BY <1>5
<1>7. QED BY <1>6 DEF needs

LEMMA NeedsAt ==
  ASSUME NEW g, NEW h \in 0 .. Levels, NEW j, NEW p, NEW i \in Slot(h)
  PROVE  Needs(g, h, j, p)[h][i] = IF i = j THEN p ELSE Free
<1>1. h \in 0 .. h BY LevelsNat
<1>2. Needs(g, h, j, p)[h] = NeedsBody([g |-> g, h |-> h, j |-> j, p |-> p], Needs(g, h, j, p), h)
  BY <1>1, NeedsUnfold
<1>3. QED BY <1>2 DEF NeedsBody

LEMMA NeedsBelow ==
  ASSUME NEW g, NEW h \in 0 .. Levels, NEW j, NEW p, NEW l \in 0 .. h - 1, NEW i \in Slot(l)
  PROVE  LET needs == Needs(g, h, j, p)
             q == needs[l + 1][Above(l, i)]
         IN  needs[l][i] = IF q = Free THEN Free ELSE Handed(g, q, l, i)
<1> DEFINE c == [g |-> g, h |-> h, j |-> j, p |-> p]
           needs == Needs(g, h, j, p)
<1>1. l \in 0 .. h /\ l # h BY LevelsNat
<1>2. needs[l] = NeedsBody(c, needs, l) BY <1>1, NeedsUnfold
<1> HIDE DEF needs
<1>3. QED BY <1>1, <1>2 DEF NeedsBody, needs

(* They hold pins whose level fits theirs, and none that another needs not.*)
NeedsOk(g, h, j, p, needs) ==
  /\ \A i \in Slot(h) : needs[h][i] = IF i = j THEN p ELSE Free
  /\ \A l \in 0 .. h : \A i \in Slot(l) :
       needs[l][i] # Free => needs[l][i] \in DOMAIN g.level /\ g.level[needs[l][i]] <= l
  /\ \A l \in 0 .. h - 1 : \A i \in Slot(l) : needs[l][i] # Free => needs[l + 1][Above(l, i)] # Free
  /\ \A l \in 0 .. h - 1 : \A k \in Slot(l + 1) :
       LET q == needs[l + 1][k] IN
       q # Free => IF g.level[q] = l + 1
                   THEN /\ IsAnd(g.aig, q) /\ needs[l][k] = Pin(g.aig[q].a)
                        /\ needs[l][k + Width(l + 1)] = Pin(g.aig[q].b)
                        /\ Pin(g.aig[q].a) # Free /\ Pin(g.aig[q].b) # Free
                   ELSE needs[l][k] = q

(* What a pin needs below it is made of what is below that, slot by slot   *)
(* (pe.rs:99).                                                             *)
LEMMA NeedsFit ==
  ASSUME NEW g, GraphOk(g), NEW h \in 1 .. Levels, NEW j \in Slot(h),
         NEW p \in DOMAIN g.level, g.level[p] <= h
  PROVE  NeedsOk(g, h, j, p, Needs(g, h, j, p))
<1> DEFINE needs == Needs(g, h, j, p)
<1>0. h \in Nat /\ h \in 0 .. Levels /\ h # 0 BY LevelsNat
<1>1. \A i \in Slot(h) : needs[h][i] = IF i = j THEN p ELSE Free
  BY <1>0, NeedsAt
<1>2. ASSUME NEW l \in 0 .. h - 1, NEW i \in Slot(l)
      PROVE  LET q == needs[l + 1][Above(l, i)]
             IN  needs[l][i] = IF q = Free THEN Free ELSE Handed(g, q, l, i)
  BY <1>0, NeedsBelow
<1> HIDE DEF needs
<1>3. \A l \in 0 .. h - 1 : l \in 0 .. Levels - 1 /\ l + 1 \in 0 .. h BY <1>0, LevelsNat
<1> DEFINE Typed(l) == \A i \in Slot(l) :
              needs[l][i] # Free => needs[l][i] \in DOMAIN g.level /\ g.level[needs[l][i]] <= l
           Bad == {l \in 0 .. h : ~Typed(l)}
<1>4. Bad = {}
  <2>1. h \notin Bad BY <1>1
  <2>2. ASSUME NEW l \in 0 .. h - 1, Typed(l + 1) PROVE Typed(l)
    <3>1. SUFFICES ASSUME NEW i \in Slot(l), needs[l][i] # Free
                   PROVE  needs[l][i] \in DOMAIN g.level /\ g.level[needs[l][i]] <= l
      OBVIOUS
    <3> DEFINE q == needs[l + 1][Above(l, i)]
    <3>2. q # Free /\ needs[l][i] = Handed(g, q, l, i) BY <1>2, <3>1
    <3>3. Above(l, i) \in Slot(l + 1) BY <1>3, SlotAbove
    <3>4. q \in DOMAIN g.level /\ g.level[q] <= l + 1 BY <2>2, <3>2, <3>3
    <3> HIDE DEF q
    <3>5. l \in Nat /\ g.level[q] \in Nat BY <1>0, <3>4, PinOk
    <3>6. CASE g.level[q] = l + 1
      <4> DEFINE a == Pin(g.aig[q].a)
                 b == Pin(g.aig[q].b)
      <4>1. /\ a \in DOMAIN g.level /\ b \in DOMAIN g.level
            /\ g.level[a] < g.level[q] /\ g.level[b] < g.level[q] BY <3>4, <3>5, <3>6, PinOk
      <4>2. needs[l][i] \in {a, b} BY <3>2, <3>6 DEF Handed
      <4> HIDE DEF a, b
      <4>3. g.level[a] \in Nat /\ g.level[b] \in Nat BY <4>1, PinOk
      <4>4. g.level[a] <= l /\ g.level[b] <= l BY <3>5, <3>6, <4>1, <4>3
      <4>5. QED BY <4>1, <4>2, <4>4
    <3>7. CASE g.level[q] # l + 1
      <4>1. needs[l][i] = q BY <3>1, <3>2, <3>7 DEF Handed
      <4>2. QED BY <3>4, <3>5, <3>7, <4>1
    <3>8. QED BY <3>6, <3>7
  <2>3. \A l \in 0 .. h - 1 : l \in Bad => l + 1 \in Bad BY <1>3, <2>2
  <2>4. Bad \in SUBSET (0 .. h) OBVIOUS
  <2> HIDE DEF Bad
  <2>5. QED BY <1>0, <2>1, <2>3, <2>4, Downwards
<1>5. \A l \in 0 .. h - 1 : \A i \in Slot(l) : needs[l][i] # Free => needs[l + 1][Above(l, i)] # Free
  BY <1>2
<1>6. ASSUME NEW l \in 0 .. h - 1, NEW k \in Slot(l + 1), needs[l + 1][k] # Free
      PROVE  LET q == needs[l + 1][k] IN
             IF g.level[q] = l + 1
             THEN /\ IsAnd(g.aig, q) /\ needs[l][k] = Pin(g.aig[q].a)
                  /\ needs[l][k + Width(l + 1)] = Pin(g.aig[q].b)
                  /\ Pin(g.aig[q].a) # Free /\ Pin(g.aig[q].b) # Free
             ELSE needs[l][k] = q
  <2> DEFINE q == needs[l + 1][k]
             w == Width(l + 1)
  <2>1. /\ k \in Slot(l) /\ k + w \in Slot(l) /\ Above(l, k) = k /\ Above(l, k + w) = k
        /\ Left(l, k) /\ ~Left(l, k + w) BY <1>3, SlotAbove
  <2> HIDE DEF w
  <2>2. needs[l][k] = Handed(g, q, l, k) /\ needs[l][k + w] = Handed(g, q, l, k + w)
    BY <1>2, <1>6, <2>1 DEF w
  <2>3. q \in DOMAIN g.level BY <1>3, <1>4, <1>6
  <2> HIDE DEF q
  <2>4. g.level[q] = l + 1 =>
          /\ IsAnd(g.aig, q) /\ Pin(g.aig[q].a) # Free /\ Pin(g.aig[q].b) # Free
    <3>1. SUFFICES ASSUME g.level[q] = l + 1
                   PROVE  IsAnd(g.aig, q) /\ Pin(g.aig[q].a) # Free /\ Pin(g.aig[q].b) # Free
      OBVIOUS
    <3>2. g.level[q] # 0 BY <1>0, <3>1
    <3>3. IsAnd(g.aig, q) /\ Pin(g.aig[q].a) \in DOMAIN g.level /\ Pin(g.aig[q].b) \in DOMAIN g.level
      BY <2>3, <3>2, PinOk
    <3>4. QED BY <3>3, PinOk
  <2>5. QED BY <2>1, <2>2, <2>4 DEF Handed, q, w
<1>7. NeedsOk(g, h, j, p, needs) BY <1>1, <1>4, <1>5, <1>6 DEF NeedsOk
<1>8. QED BY <1>7 DEF needs

----------------------------------------------------------------------------
(* A hierarchy: pins fit their levels, a slot is empty, hands up the slot  *)
(* below or is the gate of the two slots below, and up to a level nothing  *)
(* is below an empty slot.                                                 *)
Fitting(g, hier) ==
  /\ hier = [l \in 0 .. Levels |-> [i \in Slot(l) |-> hier[l][i]]]
  /\ \A l \in 0 .. Levels : \A i \in Slot(l) :
       hier[l][i] # Free => hier[l][i] \in DOMAIN g.level /\ g.level[hier[l][i]] <= l
SlotsSound(g, hier) ==
  \A l \in 0 .. Levels - 1 : \A k \in Slot(l + 1) :
    LET q == hier[l + 1][k] IN
    \/ q = Free
    \/ hier[l][k] = q
    \/ /\ IsAnd(g.aig, q) /\ Pin(g.aig[q].a) = hier[l][k]
       /\ Pin(g.aig[q].b) = hier[l][k + Width(l + 1)]
Clear(hier, sel) ==
  \A l \in 0 .. sel - 1 : \A i \in Slot(l) : hier[l + 1][Above(l, i)] = Free => hier[l][i] = Free
HierOk(g, hier) == Fitting(g, hier) /\ SlotsSound(g, hier) /\ Clear(hier, 1)

Grows(old, new) ==
  \A l \in 0 .. Levels : \A i \in Slot(l) : old[l][i] # Free => new[l][i] = old[l][i]

(* In a hierarchy that has nothing below a free slot, the slots a pin      *)
(* needs are free.                                                         *)
LEMMA NeedsFree ==
  ASSUME NEW g, GraphOk(g), NEW h \in 1 .. Levels, NEW j \in Slot(h),
         NEW p \in DOMAIN g.level, g.level[p] <= h,
         NEW hier, Clear(hier, h), hier[h][j] = Free
  PROVE  \A l \in 0 .. h : \A i \in Slot(l) : Needs(g, h, j, p)[l][i] # Free => hier[l][i] = Free
<1> DEFINE needs == Needs(g, h, j, p)
           Over(l) == \A i \in Slot(l) : needs[l][i] # Free => hier[l][i] = Free
           Bad == {l \in 0 .. h : ~Over(l)}
<1>0. h \in Nat /\ h \in 0 .. Levels BY LevelsNat
<1>n. NeedsOk(g, h, j, p, needs) BY NeedsFit
<1> HIDE DEF needs
<1>1. /\ \A i \in Slot(h) : needs[h][i] = IF i = j THEN p ELSE Free
      /\ \A l \in 0 .. h - 1 : \A i \in Slot(l) : needs[l][i] # Free => needs[l + 1][Above(l, i)] # Free
  BY <1>n DEF NeedsOk
<1>2. h \notin Bad BY <1>1
<1>3. ASSUME NEW l \in 0 .. h - 1, Over(l + 1) PROVE Over(l)
  <2>1. SUFFICES ASSUME NEW i \in Slot(l), needs[l][i] # Free PROVE hier[l][i] = Free OBVIOUS
  <2>2. Above(l, i) \in Slot(l + 1)
    <3>1. l \in 0 .. Levels - 1 BY <1>0, LevelsNat
    <3>2. QED BY <3>1, SlotAbove
  <2>3. hier[l + 1][Above(l, i)] = Free BY <1>1, <1>3, <2>1, <2>2
  <2>4. QED BY <2>3 DEF Clear
<1>4. \A l \in 0 .. h - 1 : l \in Bad => l + 1 \in Bad
  <2>1. \A l \in 0 .. h - 1 : l + 1 \in 0 .. h BY <1>0
  <2>2. QED BY <1>3, <2>1
<1>5. Bad \in SUBSET (0 .. h) OBVIOUS
<1>6. Bad = {}
  <2> HIDE DEF Bad
  <2>1. QED BY <1>0, <1>2, <1>4, <1>5, Downwards
<1>7. QED BY <1>6 DEF needs

(* Putting a pin in a free slot keeps all that and takes nothing away.     *)
LEMMA PlaceKeeps ==
  ASSUME NEW g, GraphOk(g), NEW h \in 1 .. Levels, NEW j \in Slot(h),
         NEW p \in DOMAIN g.level, g.level[p] <= h,
         NEW hier, HierOk(g, hier), Clear(hier, h), hier[h][j] = Free
  PROVE  LET placed == PlaceBit(g, hier, h, j, p) IN
         /\ HierOk(g, placed) /\ Clear(placed, h) /\ Grows(hier, placed)
         /\ placed[h][j] = p
         /\ \A l \in h + 1 .. Levels : placed[l] = hier[l]
         /\ \A i \in Slot(h) : i # j => placed[h][i] = hier[h][i]
<1> DEFINE needs == Needs(g, h, j, p)
           placed == PlaceBit(g, hier, h, j, p)
<1>0. h \in Nat /\ h \in 0 .. Levels BY LevelsNat
<1>n. NeedsOk(g, h, j, p, needs) BY NeedsFit
<1>1. /\ \A i \in Slot(h) : needs[h][i] = IF i = j THEN p ELSE Free
      /\ \A l \in 0 .. h : \A i \in Slot(l) :
           needs[l][i] # Free => needs[l][i] \in DOMAIN g.level /\ g.level[needs[l][i]] <= l
      /\ \A l \in 0 .. h - 1 : \A i \in Slot(l) :
           needs[l][i] # Free => needs[l + 1][Above(l, i)] # Free
      /\ \A l \in 0 .. h - 1 : \A k \in Slot(l + 1) :
           LET q == needs[l + 1][k] IN
           q # Free => IF g.level[q] = l + 1
                       THEN /\ IsAnd(g.aig, q) /\ needs[l][k] = Pin(g.aig[q].a)
                            /\ needs[l][k + Width(l + 1)] = Pin(g.aig[q].b)
                            /\ Pin(g.aig[q].a) # Free /\ Pin(g.aig[q].b) # Free
                       ELSE needs[l][k] = q
  BY <1>n DEF NeedsOk
<1>2. \A l \in 0 .. h : \A i \in Slot(l) : needs[l][i] # Free => hier[l][i] = Free BY NeedsFree
<1>3. placed = [l \in 0 .. Levels |->
                  IF l > h THEN hier[l]
                  ELSE [i \in Slot(l) |-> IF needs[l][i] = Free THEN hier[l][i] ELSE needs[l][i]]]
  BY DEF PlaceBit
<1> HIDE DEF needs, placed
<1>4. \A l \in 0 .. h : \A i \in Slot(l) : placed[l][i] = IF needs[l][i] = Free THEN hier[l][i] ELSE needs[l][i]
  <2>1. \A l \in 0 .. h : l \in 0 .. Levels /\ ~(l > h) BY <1>0, LevelsNat
  <2>2. QED BY <1>3, <2>1
<1>5. \A l \in h + 1 .. Levels : placed[l] = hier[l]
  <2>1. \A l \in h + 1 .. Levels : l \in 0 .. Levels /\ l > h BY <1>0, LevelsNat
  <2>2. QED BY <1>3, <2>1
<1>6. \A l \in 0 .. Levels : l \in 0 .. h \/ l \in h + 1 .. Levels BY <1>0, LevelsNat
<1>7. Fitting(g, hier) /\ SlotsSound(g, hier) BY DEF HierOk
<1>8. Grows(hier, placed)
  <2>1. SUFFICES ASSUME NEW l \in 0 .. Levels, NEW i \in Slot(l), hier[l][i] # Free
                 PROVE  placed[l][i] = hier[l][i]
    BY DEF Grows
  <2>2. CASE l \in 0 .. h BY <1>2, <1>4, <2>1, <2>2
  <2>3. CASE l \in h + 1 .. Levels BY <1>5, <2>3
  <2>4. QED BY <1>6, <2>2, <2>3
<1>9. Fitting(g, placed)
  <2>1. placed = [l \in 0 .. Levels |-> [i \in Slot(l) |-> placed[l][i]]]
    <3>1. ASSUME NEW l \in 0 .. Levels PROVE placed[l] = [i \in Slot(l) |-> placed[l][i]]
      <4>1. CASE l \in 0 .. h
        <5>1. ~(l > h) BY <1>0, <4>1
        <5>2. placed[l] = [i \in Slot(l) |-> IF needs[l][i] = Free THEN hier[l][i] ELSE needs[l][i]]
          BY <1>3, <5>1
        <5>3. QED BY <5>2
      <4>2. CASE l \in h + 1 .. Levels
        <5>1. hier[l] = [i \in Slot(l) |-> hier[l][i]] BY <1>7 DEF Fitting
        <5>2. QED BY <1>5, <4>2, <5>1
      <4>3. QED BY <1>6, <4>1, <4>2
    <3>2. DOMAIN placed = 0 .. Levels /\ placed = [l \in 0 .. Levels |-> placed[l]] BY <1>3
    <3>3. QED BY <3>1, <3>2
  <2>2. ASSUME NEW l \in 0 .. Levels, NEW i \in Slot(l), placed[l][i] # Free
        PROVE  placed[l][i] \in DOMAIN g.level /\ g.level[placed[l][i]] <= l
    <3>1. hier[l][i] # Free => hier[l][i] \in DOMAIN g.level /\ g.level[hier[l][i]] <= l
      BY <1>7 DEF Fitting
    <3>2. CASE l \in 0 .. h BY <1>1, <1>4, <2>2, <3>1, <3>2
    <3>3. CASE l \in h + 1 .. Levels BY <1>5, <2>2, <3>1, <3>3
    <3>4. QED BY <1>6, <3>2, <3>3
  <2>3. QED BY <2>1, <2>2 DEF Fitting
<1>10. SlotsSound(g, placed)
  <2>1. SUFFICES ASSUME NEW l \in 0 .. Levels - 1, NEW k \in Slot(l + 1), placed[l + 1][k] # Free
                 PROVE  LET q == placed[l + 1][k] IN
                        \/ placed[l][k] = q
                        \/ /\ IsAnd(g.aig, q) /\ Pin(g.aig[q].a) = placed[l][k]
                           /\ Pin(g.aig[q].b) = placed[l][k + Width(l + 1)]
    BY DEF SlotsSound
  <2>2. k \in Slot(l) /\ k + Width(l + 1) \in Slot(l) BY SlotAbove
  <2>3. l \in 0 .. Levels /\ l + 1 \in 0 .. Levels BY LevelsNat
  <2>4. CASE hier[l + 1][k] # Free
    <3> DEFINE q == hier[l + 1][k]
    <3>1. placed[l + 1][k] = q BY <1>8, <2>3, <2>4 DEF Grows
    <3>2. \/ hier[l][k] = q
          \/ /\ IsAnd(g.aig, q) /\ Pin(g.aig[q].a) = hier[l][k]
             /\ Pin(g.aig[q].b) = hier[l][k + Width(l + 1)]
      BY <1>7, <2>4 DEF SlotsSound
    <3>3. CASE hier[l][k] = q
      <4>1. placed[l][k] = q BY <1>8, <2>2, <2>3, <2>4, <3>3 DEF Grows
      <4>2. QED BY <3>1, <4>1
    <3>4. CASE hier[l][k] # q
      <4>1. q \in DOMAIN g.level BY <1>7, <2>3, <2>4 DEF Fitting
      <4> HIDE DEF q
      <4>2. q \in 1 .. Len(g.aig) /\ IsAnd(g.aig, q) BY <3>2, <3>4, <4>1, PinOk
      <4>3. Pin(g.aig[q].a) # Free /\ Pin(g.aig[q].b) # Free
        <5>1. Len(g.aig) \in Nat BY DEF GraphOk
        <5>2. q \in 0 .. Len(g.aig) BY <4>2, <5>1
        <5>3. Pin(g.aig[q].a) \in 1 .. q - 1 /\ Pin(g.aig[q].b) \in 1 .. q - 1
          BY <4>2, <5>2, GateFanins DEF GraphOk
        <5>4. QED BY <5>3 DEF Free
      <4>4. placed[l][k] = hier[l][k] /\ placed[l][k + Width(l + 1)] = hier[l][k + Width(l + 1)]
        BY <1>8, <2>2, <2>3, <3>2, <3>4, <4>3 DEF Grows
      <4>5. QED BY <3>1, <3>2, <3>4, <4>4
    <3>5. QED BY <3>3, <3>4
  <2>5. CASE hier[l + 1][k] = Free
    <3> DEFINE q == needs[l + 1][k]
    <3>1. l + 1 \in 0 .. h BY <1>5, <1>6, <2>1, <2>3, <2>5
    <3>2. l \in 0 .. h - 1 /\ l \in 0 .. h BY <1>0, <3>1
    <3>3. placed[l + 1][k] = q /\ q # Free BY <1>4, <2>1, <2>5, <3>1
    <3>4. CASE g.level[q] = l + 1
      <4>1. /\ IsAnd(g.aig, q) /\ needs[l][k] = Pin(g.aig[q].a)
            /\ needs[l][k + Width(l + 1)] = Pin(g.aig[q].b)
            /\ Pin(g.aig[q].a) # Free /\ Pin(g.aig[q].b) # Free BY <1>1, <3>2, <3>3, <3>4
      <4>2. placed[l][k] = needs[l][k] /\ placed[l][k + Width(l + 1)] = needs[l][k + Width(l + 1)]
        BY <1>4, <2>2, <3>2, <4>1
      <4>3. QED BY <3>3, <4>1, <4>2
    <3>5. CASE g.level[q] # l + 1
      <4>1. needs[l][k] = q BY <1>1, <3>2, <3>3, <3>5
      <4>2. placed[l][k] = q BY <1>4, <2>2, <3>2, <3>3, <4>1
      <4>3. QED BY <3>3, <4>2
    <3>6. QED BY <3>4, <3>5
  <2>6. QED BY <2>4, <2>5
<1>11. Clear(placed, h)
  <2>1. SUFFICES ASSUME NEW l \in 0 .. h - 1, NEW i \in Slot(l), placed[l + 1][Above(l, i)] = Free
                 PROVE  placed[l][i] = Free
    BY DEF Clear
  <2>2. l \in 0 .. h /\ l + 1 \in 0 .. h /\ l \in 0 .. Levels - 1 BY <1>0, LevelsNat
  <2>3. Above(l, i) \in Slot(l + 1) BY <2>2, SlotAbove
  <2>4. needs[l + 1][Above(l, i)] = Free /\ hier[l + 1][Above(l, i)] = Free BY <1>4, <2>1, <2>2, <2>3
  <2>5. needs[l][i] = Free BY <1>1, <2>4
  <2>6. hier[l][i] = Free BY <2>4 DEF Clear
  <2>7. QED BY <1>4, <2>2, <2>5, <2>6
<1>12. Clear(placed, 1)
  <2>1. \A l \in 0 .. 1 - 1 : l \in 0 .. h - 1 BY <1>0
  <2>2. QED BY <1>11, <2>1 DEF Clear
<1>13. p # Free BY PinOk
<1>14. h \in 0 .. h BY <1>0
<1>15. placed[h][j] = p /\ \A i \in Slot(h) : i # j => placed[h][i] = hier[h][i]
  BY <1>1, <1>4, <1>13, <1>14
<1>16. QED BY <1>5, <1>8, <1>9, <1>10, <1>11, <1>12, <1>15 DEF HierOk, placed

(* What is emptied when a slot is purged. *)
EmptiedBody(c, emptied, l) ==
  LET over == emptied[l + 1]
  IN  {i \in Slot(l) : c.hier[l][i] # Free /\ IF l = c.h THEN i = c.j ELSE Above(l, i) \in over}
EmptiedRec == INSTANCE FoldProofs WITH Op <- EmptiedBody, Inv <- NoInv

(* What is emptied with a slot, level by level. *)
LEMMA EmptiedUnfold ==
  ASSUME NEW hier, NEW h \in 0 .. Levels, NEW j, NEW l \in 0 .. h
  PROVE  Emptied(hier, h, j)[l] = EmptiedBody([hier |-> hier, h |-> h, j |-> j], Emptied(hier, h, j), l)
<1> DEFINE c == [hier |-> hier, h |-> h, j |-> j]
           D == 0 .. h
           rank == [x \in D |-> h - x]
           emptied == Emptied(hier, h, j)
<1>0. h \in Nat BY LevelsNat
<1>1. EmptiedRec!Founded(c, D, rank)
  <2>1. SUFFICES ASSUME NEW x \in D, NEW f, NEW f2, \A y \in D : rank[y] < rank[x] => f[y] = f2[y]
                 PROVE  EmptiedBody(c, f, x) = EmptiedBody(c, f2, x)
    BY DEF EmptiedRec!Founded
  <2>2. CASE x = h BY <2>2 DEF EmptiedBody
  <2>3. CASE x # h
    <3>1. x + 1 \in D /\ rank[x + 1] < rank[x] BY <1>0, <2>3
    <3>2. f[x + 1] = f2[x + 1] BY <2>1, <3>1
    <3>3. QED BY <3>2 DEF EmptiedBody
  <2>4. QED BY <2>2, <2>3
<1>2. \E f : EmptiedRec!Recursive(c, D, f)
  <2>1. \A x \in D : rank[x] \in 0 .. h BY <1>0
  <2> HIDE DEF c, D, rank
  <2>2. QED BY <1>0, <1>1, <2>1, EmptiedRec!RecursionExists
<1>3. \E f : f = [x \in D |-> EmptiedBody(c, f, x)] BY <1>2 DEF EmptiedRec!Recursive
<1>4. emptied = CHOOSE f : f = [x \in D |-> EmptiedBody(c, f, x)] BY DEF Emptied, EmptiedBody
<1>5. emptied = [x \in D |-> EmptiedBody(c, emptied, x)] BY <1>3, <1>4
<1> HIDE DEF emptied
<1>6. emptied[l] = EmptiedBody(c, emptied, l) BY <1>5
<1>7. QED BY <1>6 DEF emptied

(* Purging a pin just placed restores the hierarchy. *)
LEMMA PurgeUndoes ==
  ASSUME NEW g, GraphOk(g), NEW h \in 1 .. Levels, NEW j \in Slot(h),
         NEW p \in DOMAIN g.level, g.level[p] <= h,
         NEW hier, HierOk(g, hier), Clear(hier, h), hier[h][j] = Free
  PROVE  PurgeBit(PlaceBit(g, hier, h, j, p), h, j) = hier
<1> DEFINE needs == Needs(g, h, j, p)
           placed == PlaceBit(g, hier, h, j, p)
           emptied == Emptied(placed, h, j)
           purged == PurgeBit(placed, h, j)
<1>0. h \in Nat /\ h \in 0 .. Levels BY LevelsNat
<1>n. NeedsOk(g, h, j, p, needs) BY NeedsFit
<1>1. /\ \A i \in Slot(h) : needs[h][i] = IF i = j THEN p ELSE Free
      /\ \A l \in 0 .. h - 1 : \A i \in Slot(l) :
           needs[l][i] # Free => needs[l + 1][Above(l, i)] # Free
  BY <1>n DEF NeedsOk
<1>2. \A l \in 0 .. h : \A i \in Slot(l) : needs[l][i] # Free => hier[l][i] = Free BY NeedsFree
<1>3. placed = [l \in 0 .. Levels |->
                  IF l > h THEN hier[l]
                  ELSE [i \in Slot(l) |-> IF needs[l][i] = Free THEN hier[l][i] ELSE needs[l][i]]]
  BY DEF PlaceBit
<1>4. \A l \in 0 .. h : emptied[l] = EmptiedBody([hier |-> placed, h |-> h, j |-> j], emptied, l)
  <2> HIDE DEF placed
  <2>1. QED BY <1>0, EmptiedUnfold
<1>5. purged = [l \in 0 .. Levels |->
                  IF l > h THEN placed[l]
                  ELSE [i \in Slot(l) |-> IF i \in emptied[l] THEN Free ELSE placed[l][i]]]
  <2> HIDE DEF placed
  <2>1. QED BY DEF PurgeBit
<1> HIDE DEF needs, placed, emptied, purged
<1>6. \A l \in 0 .. h : l \in 0 .. Levels /\ ~(l > h) BY <1>0, LevelsNat
<1>7. \A l \in 0 .. h : \A i \in Slot(l) : placed[l][i] = IF needs[l][i] = Free THEN hier[l][i] ELSE needs[l][i]
  BY <1>3, <1>6
<1>8. \A i \in Slot(h) : i \in emptied[h] <=> (placed[h][i] # Free /\ i = j)
  <2>1. h \in 0 .. h BY <1>0
  <2>2. QED BY <1>4, <2>1 DEF EmptiedBody
<1>9. \A l \in 0 .. h - 1 : \A i \in Slot(l) :
        i \in emptied[l] <=> (placed[l][i] # Free /\ Above(l, i) \in emptied[l + 1])
  <2>1. \A l \in 0 .. h - 1 : l \in 0 .. h /\ l # h BY <1>0
  <2>2. QED BY <1>4, <2>1 DEF EmptiedBody
<1>10. \A l \in 0 .. h - 1 : l \in 0 .. h /\ l + 1 \in 0 .. h /\ l \in 0 .. Levels - 1 BY <1>0, LevelsNat
<1> DEFINE Back(l) == \A i \in Slot(l) : /\ i \in emptied[l] => hier[l][i] = Free
                                         /\ needs[l][i] # Free => i \in emptied[l]
           Bad == {l \in 0 .. h : ~Back(l)}
<1>11. p # Free BY PinOk
<1>12. Bad = {}
  <2>1. Back(h)
    <3>1. h \in 0 .. h BY <1>0
    <3>2. QED BY <1>1, <1>7, <1>8, <1>11, <3>1
  <2>2. ASSUME NEW l \in 0 .. h - 1, Back(l + 1) PROVE Back(l)
    <3>1. TAKE i \in Slot(l)
    <3>2. Above(l, i) \in Slot(l + 1) BY <1>10, SlotAbove
    <3>3. ASSUME i \in emptied[l] PROVE hier[l][i] = Free
      <4>1. Above(l, i) \in emptied[l + 1] BY <1>9, <3>3
      <4>2. hier[l + 1][Above(l, i)] = Free BY <2>2, <3>2, <4>1
      <4>3. QED BY <4>2 DEF Clear
    <3>4. ASSUME needs[l][i] # Free PROVE i \in emptied[l]
      <4>1. needs[l + 1][Above(l, i)] # Free BY <1>1, <3>4
      <4>2. Above(l, i) \in emptied[l + 1] BY <2>2, <3>2, <4>1
      <4>3. placed[l][i] # Free BY <1>7, <1>10, <3>4
      <4>4. QED BY <1>9, <4>2, <4>3
    <3>5. QED BY <3>3, <3>4
  <2>3. \A l \in 0 .. h - 1 : l \in Bad => l + 1 \in Bad BY <1>10, <2>2
  <2>4. Bad \in SUBSET (0 .. h) /\ h \notin Bad BY <2>1
  <2> HIDE DEF Bad
  <2>5. QED BY <1>0, <2>3, <2>4, Downwards
<1>13. hier = [l \in 0 .. Levels |-> [i \in Slot(l) |-> hier[l][i]]] BY DEF HierOk, Fitting
<1>14. ASSUME NEW l \in 0 .. Levels PROVE purged[l] = hier[l]
  <2>1. CASE l > h BY <1>3, <1>5, <2>1
  <2>2. CASE ~(l > h)
    <3>1. l \in 0 .. h BY <1>0, <2>2, LevelsNat
    <3>2. purged[l] = [i \in Slot(l) |-> IF i \in emptied[l] THEN Free ELSE placed[l][i]] BY <1>5, <2>2
    <3>3. \A i \in Slot(l) : (IF i \in emptied[l] THEN Free ELSE placed[l][i]) = hier[l][i]
      BY <1>7, <1>12, <3>1
    <3>4. hier[l] = [i \in Slot(l) |-> hier[l][i]] BY <1>13
    <3> HIDE DEF Bad
    <3>5. QED BY <3>2, <3>3, <3>4
  <2>3. QED BY <2>1, <2>2
<1>15. purged = [l \in 0 .. Levels |-> purged[l]] /\ hier = [l \in 0 .. Levels |-> hier[l]] BY <1>5, <1>13
<1>16. QED BY <1>14, <1>15 DEF purged, placed

----------------------------------------------------------------------------
(* The pins in a hierarchy. *)
LEMMA VisitedIs ==
  ASSUME NEW hier, NEW p
  PROVE  p \in Visited(hier) <=> p # Free /\ \E h \in 1 .. Levels : \E j \in Slot(h) : hier[h][j] = p
BY DEF Visited

LEMMA VisitedGrows ==
  ASSUME NEW old, NEW new, Grows(old, new)
  PROVE  Visited(old) \subseteq Visited(new)
<1>1. SUFFICES ASSUME NEW p \in Visited(old) PROVE p \in Visited(new) OBVIOUS
<1>2. p # Free /\ \E h \in 1 .. Levels : \E j \in Slot(h) : old[h][j] = p BY VisitedIs
<1>3. PICK h \in 1 .. Levels : \E j \in Slot(h) : old[h][j] = p BY <1>2
<1>4. PICK j \in Slot(h) : old[h][j] = p BY <1>3
<1>5. h \in 0 .. Levels BY LevelsNat
<1>6. new[h][j] = p BY <1>2, <1>4, <1>5 DEF Grows
<1>7. QED BY <1>2, <1>6, VisitedIs

LEMMA VisitedTyped ==
  ASSUME NEW g, NEW hier, HierOk(g, hier)
  PROVE  Visited(hier) \subseteq DOMAIN g.level
<1>1. SUFFICES ASSUME NEW p \in Visited(hier) PROVE p \in DOMAIN g.level OBVIOUS
<1>2. p # Free /\ \E h \in 1 .. Levels : \E j \in Slot(h) : hier[h][j] = p BY VisitedIs
<1>3. \A h \in 1 .. Levels : h \in 0 .. Levels BY LevelsNat
<1>4. QED BY <1>2, <1>3 DEF HierOk, Fitting

LEMMA GrowsOn ==
  ASSUME NEW a, NEW b, NEW d, Grows(a, b), Grows(b, d)
  PROVE  Grows(a, d)
BY DEF Grows

(* The empty hierarchy is sound. *)
LEMMA EmptyOk ==
  ASSUME NEW g
  PROVE  HierOk(g, EmptyHier) /\ \A sel \in 0 .. Levels : Clear(EmptyHier, sel)
<1>1. \A l \in 0 .. Levels : \A i \in Slot(l) : EmptyHier[l][i] = Free BY DEF EmptyHier
<1>2. Fitting(g, EmptyHier)
  <2>1. EmptyHier = [l \in 0 .. Levels |-> [i \in Slot(l) |-> EmptyHier[l][i]]] BY DEF EmptyHier
  <2>2. QED BY <1>1, <2>1 DEF Fitting
<1>3. SlotsSound(g, EmptyHier)
  <2>1. \A l \in 0 .. Levels - 1 : l + 1 \in 0 .. Levels BY LevelsNat
  <2>2. QED BY <1>1, <2>1 DEF SlotsSound
<1>4. ASSUME NEW sel \in 0 .. Levels PROVE Clear(EmptyHier, sel)
  <2>1. \A l \in 0 .. sel - 1 : l \in 0 .. Levels BY LevelsNat
  <2>2. QED BY <1>1, <2>1 DEF Clear
<1>5. 1 \in 0 .. Levels BY LevelsNat
<1>6. QED BY <1>2, <1>3, <1>4, <1>5 DEF HierOk

----------------------------------------------------------------------------
(* Every input of a pin that is not done yet gets a reverse level.         *)
RevTyped(g, rev) ==
  /\ DOMAIN rev = ToSet(g.order) /\ \A p \in DOMAIN rev : rev[p] \in Nat \cup {Free}
  /\ \A p \in g.goals : rev[p] # Free
Reached(g, visited, rev, q) ==
  q \notin g.realized \cup visited => \A p \in Fanins(g.aig, q) : rev[p] # Free
RevStep(c, rev, q) == Lengthened(c.g, c.visited, rev, q)
RevInv(c, i, rev) ==
  RevTyped(c.g, rev) /\ \A k \in 1 .. i : Reached(c.g, c.visited, rev, c.seq[k])
RevFold == INSTANCE FoldProofs WITH Op <- RevStep, Inv <- RevInv

(* A pin with an endpoint above it is reached unless the way is blocked by *)
(* the hierarchy (pe.rs:168).                                              *)
LEMMA ReverseReaches ==
  ASSUME NEW g, GraphOk(g), NEW hier
  PROVE  LET rev == ReverseLevels(g, hier) IN
         RevTyped(g, rev) /\ \A q \in ToSet(g.order) : Reached(g, Visited(hier), rev, q)
<1> DEFINE visited == Visited(hier)
           seq == Reverse(g.order)
           c == [g |-> g, visited |-> visited, seq |-> seq]
           base == [p \in ToSet(g.order) |-> IF p \in g.goals THEN 0 ELSE Free]
           n == Len(g.order)
<1>1. /\ DOMAIN g.order = 1 .. n /\ n \in Nat /\ g.order \in Seq(1 .. Len(g.aig))
      /\ \A i \in 1 .. n : g.order[i] \in ToSet(g.order)
  BY ToSetOf DEF GraphOk
<1> HIDE DEF visited, n
<1>2. DOMAIN seq = 1 .. n /\ \A i \in 1 .. n : seq[i] = g.order[n - i + 1] BY <1>1 DEF Reverse, n
<1> HIDE DEF seq
<1>3. RevInv(c, 0, base)
  <2>1. RevTyped(g, base) BY DEF RevTyped, GraphOk, Free
  <2>2. 1 .. 0 = {} OBVIOUS
  <2>3. QED BY <2>1, <2>2 DEF RevInv
<1>4. RevFold!Steps(c, seq)
  <2>1. SUFFICES ASSUME NEW i \in 1 .. n, NEW rev, RevInv(c, i - 1, rev)
                 PROVE  RevInv(c, i, RevStep(c, rev, seq[i]))
    BY <1>2 DEF RevFold!Steps
  <2> DEFINE q == seq[i]
             r == Lengthened(g, visited, rev, q)
  <2>2. RevTyped(g, rev) /\ \A k \in 1 .. i - 1 : Reached(g, visited, rev, seq[k])
    BY <2>1 DEF RevInv
  <2>3. RevStep(c, rev, q) = r BY DEF RevStep
  <2>4. \A k \in 1 .. i : k \in 1 .. i - 1 \/ k = i OBVIOUS
  <2>5. q \in ToSet(g.order)
    <3>1. n - i + 1 \in 1 .. n BY <1>1
    <3>2. QED BY <1>1, <1>2, <3>1
  <2>6. RevTyped(g, r) /\ Reached(g, visited, r, q)
        /\ \A p \in DOMAIN rev : rev[p] # Free => r[p] # Free
    <3>1. CASE q \in g.realized \cup visited
      <4>1. r = rev BY <3>1 DEF Lengthened
      <4>2. QED BY <2>2, <3>1, <4>1 DEF Reached
    <3>2. CASE q \notin g.realized \cup visited
      <4> HIDE DEF q
      <4>1. r = [p \in DOMAIN rev |-> IF p \in Fanins(g.aig, q) THEN Larger(rev[p], rev[q] + 1) ELSE rev[p]]
        BY <3>2 DEF Lengthened
      <4> HIDE DEF r
      <4>2. DOMAIN rev = ToSet(g.order) /\ \A p \in DOMAIN rev : rev[p] \in Nat \cup {Free}
        BY <2>2 DEF RevTyped
      <4>3. rev[q] \in Nat \cup {-1} BY <2>5, <4>2 DEF Free
      <4>4. \A p \in DOMAIN rev : Larger(rev[p], rev[q] + 1) \in Nat
        BY <4>2, <4>3 DEF Larger, Free
      <4>5. \A p \in DOMAIN rev : p \in Fanins(g.aig, q) => r[p] \in Nat BY <4>1, <4>4
      <4>6. \A p \in DOMAIN rev : p \notin Fanins(g.aig, q) => r[p] = rev[p] BY <4>1
      <4>7. DOMAIN r = DOMAIN rev BY <4>1
      <4>8. \A x \in Nat : x # Free BY DEF Free
      <4>9. \A p \in DOMAIN rev : rev[p] # Free => r[p] # Free BY <4>5, <4>6, <4>8
      <4>10. Fanins(g.aig, q) \subseteq DOMAIN rev
        <5>1. q \in DOMAIN g.level /\ q \notin g.realized BY <2>5, <3>2 DEF GraphOk
        <5>2. CASE IsAnd(g.aig, q)
          <6>1. g.level[q] # 0 BY <5>1, <5>2, PinOk DEF Inner
          <6>2. LET a == Pin(g.aig[q].a)  b == Pin(g.aig[q].b) IN
                Fanins(g.aig, q) = {a, b} /\ a \in DOMAIN g.level /\ b \in DOMAIN g.level
            BY <5>1, <6>1, PinOk
          <6>3. DOMAIN g.level = DOMAIN rev BY <4>2 DEF GraphOk
          <6>4. QED BY <6>2, <6>3
        <5>3. CASE ~IsAnd(g.aig, q) BY <5>3 DEF Fanins
        <5>4. QED BY <5>2, <5>3
      <4>11. Reached(g, visited, r, q) BY <4>5, <4>8, <4>10 DEF Reached
      <4>12. RevTyped(g, r)
        <5>1. \A p \in DOMAIN r : r[p] \in Nat \cup {Free} BY <4>2, <4>5, <4>6, <4>7
        <5>2. \A p \in g.goals : r[p] # Free BY <2>2, <4>2, <4>9 DEF RevTyped, GraphOk
        <5>3. QED BY <4>2, <4>7, <5>1, <5>2 DEF RevTyped
      <4>13. QED BY <4>9, <4>11, <4>12
    <3>3. QED BY <3>1, <3>2
  <2> HIDE DEF q, r
  <2>7. ASSUME NEW k \in 1 .. i - 1 PROVE Reached(g, visited, r, seq[k])
    <3>1. Reached(g, visited, rev, seq[k]) BY <2>2
    <3>2. ASSUME NEW p \in Fanins(g.aig, seq[k]), seq[k] \notin g.realized \cup visited PROVE r[p] # Free
      <4>1. rev[p] # Free BY <3>1, <3>2 DEF Reached
      <4>2. p \in DOMAIN rev
        <5>1. n - k + 1 \in 1 .. n /\ k \in 1 .. n BY <1>1
        <5>2. seq[k] \in DOMAIN g.level BY <1>1, <1>2, <5>1 DEF GraphOk
        <5>3. IsAnd(g.aig, seq[k]) BY <3>2 DEF Fanins
        <5>4. g.level[seq[k]] # 0 BY <3>2, <5>2, <5>3, PinOk DEF Inner
        <5>5. p \in DOMAIN g.level
          <6>1. LET a == Pin(g.aig[seq[k]].a)  b == Pin(g.aig[seq[k]].b) IN
                Fanins(g.aig, seq[k]) = {a, b} /\ a \in DOMAIN g.level /\ b \in DOMAIN g.level
            BY <5>2, <5>4, PinOk
          <6>2. QED BY <3>2, <6>1
        <5>6. QED BY <2>2, <5>5 DEF RevTyped, GraphOk
      <4>3. QED BY <2>6, <4>1, <4>2
    <3>3. QED BY <3>2 DEF Reached
  <2>8. \A k \in 1 .. i : Reached(g, visited, r, seq[k]) BY <2>4, <2>6, <2>7 DEF q
  <2>9. c.g = g /\ c.visited = visited /\ c.seq = seq OBVIOUS
  <2> HIDE DEF c
  <2>10. RevInv(c, i, r) BY <2>6, <2>8, <2>9 DEF RevInv
  <2>11. QED BY <2>3, <2>10 DEF q
<1>5. RevInv(c, n, RevFold!Folded(c, base, seq))
  <2> HIDE DEF base, c
  <2>1. QED BY <1>1, <1>2, <1>3, <1>4, RevFold!FoldKeeps
<1>6. RevFold!Folded(c, base, seq) = ReverseLevels(g, hier)
  BY DEF ReverseLevels, RevFold!Folded, RevStep, FoldLeft, MapThenFoldSet, Max, seq, visited,
         RevFold!Highest
<1>7. RevTyped(g, ReverseLevels(g, hier))
      /\ \A k \in 1 .. n : Reached(g, visited, ReverseLevels(g, hier), seq[k])
  BY <1>5, <1>6 DEF RevInv
<1>8. \A q \in ToSet(g.order) : \E k \in 1 .. n : seq[k] = q
  <2>1. TAKE q \in ToSet(g.order)
  <2>2. PICK i \in 1 .. n : g.order[i] = q BY <1>1 DEF ToSet
  <2>3. n - i + 1 \in 1 .. n /\ n - (n - i + 1) + 1 = i BY <1>1
  <2>4. seq[n - i + 1] = q BY <1>2, <2>2, <2>3
  <2>5. QED BY <2>3, <2>4
<1>9. QED BY <1>7, <1>8 DEF visited

----------------------------------------------------------------------------
(* Sequences without repetition. *)
LEMMA AppendedOnce ==
  ASSUME NEW T, NEW s \in Seq(T), IsInjective(s), NEW x \in T, x \notin ToSet(s)
  PROVE  IsInjective(Append(s, x))
<1> DEFINE t == Append(s, x)
           n == Len(s)
<1>1. DOMAIN s = 1 .. n /\ n \in Nat /\ \A i \in 1 .. n : s[i] \in ToSet(s) BY ToSetOf
<1>2. t \in Seq(T) /\ Len(t) = n + 1 /\ t[n + 1] = x /\ \A i \in 1 .. n : t[i] = s[i] BY AppendedSet
<1> HIDE DEF t
<1>3. DOMAIN t = 1 .. n + 1 BY <1>2
<1> HIDE DEF n
<1>4. SUFFICES ASSUME NEW i \in 1 .. n + 1, NEW k \in 1 .. n + 1, t[i] = t[k] PROVE i = k
  BY <1>3 DEF IsInjective, t
<1>5. \A m \in 1 .. n + 1 : m \in 1 .. n \/ m = n + 1 BY <1>1
<1>6. CASE i \in 1 .. n /\ k \in 1 .. n
  <2>1. s[i] = s[k] BY <1>2, <1>4, <1>6
  <2>2. QED BY <1>1, <1>6, <2>1 DEF IsInjective
<1>7. CASE i \in 1 .. n /\ k = n + 1 BY <1>1, <1>2, <1>4, <1>7
<1>8. CASE i = n + 1 /\ k \in 1 .. n BY <1>1, <1>2, <1>4, <1>8
<1>9. QED BY <1>4, <1>5, <1>6, <1>7, <1>8

(* A sequence of elements of a smaller set. *)
LEMMA Narrower ==
  ASSUME NEW S, NEW T, NEW s \in Seq(S), ToSet(s) \subseteq T
  PROVE  s \in Seq(T)
<1>1. DOMAIN s = 1 .. Len(s) /\ Len(s) \in Nat /\ \A i \in 1 .. Len(s) : s[i] \in ToSet(s) BY ToSetOf
<1>2. s = [i \in 1 .. Len(s) |-> s[i]] BY <1>1
<1>3. \A i \in 1 .. Len(s) : s[i] \in T BY <1>1
<1>4. QED BY <1>1, <1>2, <1>3

(* One sequence after another. *)
LEMMA JoinedOnce ==
  ASSUME NEW T, NEW s \in Seq(T), NEW t \in Seq(T)
  PROVE  /\ s \o t \in Seq(T) /\ Len(s \o t) = Len(s) + Len(t) /\ ToSet(s \o t) = ToSet(s) \cup ToSet(t)
         /\ IsInjective(s) /\ IsInjective(t) /\ ToSet(s) \cap ToSet(t) = {} => IsInjective(s \o t)
<1> DEFINE n == Len(s)
           m == Len(t)
           u == s \o t
<1>1. /\ DOMAIN s = 1 .. n /\ n \in Nat /\ \A i \in 1 .. n : s[i] \in ToSet(s)
      /\ \A x \in ToSet(s) : \E i \in 1 .. n : s[i] = x BY ToSetOf
<1>2. /\ DOMAIN t = 1 .. m /\ m \in Nat /\ \A i \in 1 .. m : t[i] \in ToSet(t)
      /\ \A x \in ToSet(t) : \E i \in 1 .. m : t[i] = x BY ToSetOf
<1>3. /\ u \in Seq(T) /\ Len(u) = n + m
      /\ \A i \in 1 .. n : u[i] = s[i]
      /\ \A i \in 1 .. m : u[n + i] = t[i]
  OBVIOUS
<1> HIDE DEF u
<1>4. /\ DOMAIN u = 1 .. n + m /\ \A i \in 1 .. n + m : u[i] \in ToSet(u)
      /\ \A x \in ToSet(u) : \E i \in 1 .. n + m : u[i] = x
  <2>1. /\ DOMAIN u = 1 .. Len(u) /\ \A i \in 1 .. Len(u) : u[i] \in ToSet(u)
        /\ \A x \in ToSet(u) : \E i \in 1 .. Len(u) : u[i] = x
    BY <1>3, ToSetOf
  <2>2. QED BY <1>3, <2>1
<1> HIDE DEF n, m
<1>5. \A i \in 1 .. n + m : i \in 1 .. n \/ (i - n \in 1 .. m /\ n + (i - n) = i) BY <1>1, <1>2
<1>6. /\ \A i \in 1 .. n : i \in 1 .. n + m
      /\ \A i \in 1 .. m : n + i \in 1 .. n + m BY <1>1, <1>2
<1>7. \A i \in 1 .. n + m : \/ i \in 1 .. n /\ u[i] = s[i]
                            \/ i - n \in 1 .. m /\ u[i] = t[i - n]
  BY <1>3, <1>5
<1>8. ToSet(u) = ToSet(s) \cup ToSet(t)
  <2>1. ASSUME NEW x \in ToSet(u) PROVE x \in ToSet(s) \cup ToSet(t)
    <3>1. PICK i \in 1 .. n + m : u[i] = x BY <1>4
    <3>2. QED BY <1>1, <1>2, <1>7, <3>1
  <2>2. ASSUME NEW x \in ToSet(s) PROVE x \in ToSet(u)
    <3>1. PICK i \in 1 .. n : s[i] = x BY <1>1
    <3>2. QED BY <1>3, <1>4, <1>6, <3>1
  <2>3. ASSUME NEW x \in ToSet(t) PROVE x \in ToSet(u)
    <3>1. PICK i \in 1 .. m : t[i] = x BY <1>2
    <3>2. QED BY <1>3, <1>4, <1>6, <3>1
  <2>4. QED BY <2>1, <2>2, <2>3
<1>9. ASSUME IsInjective(s), IsInjective(t), ToSet(s) \cap ToSet(t) = {} PROVE IsInjective(u)
  <2>1. SUFFICES ASSUME NEW i \in 1 .. n + m, NEW k \in 1 .. n + m, u[i] = u[k] PROVE i = k
    BY <1>4 DEF IsInjective
  <2>2. \A a, b \in 1 .. n : s[a] = s[b] => a = b BY <1>1, <1>9 DEF IsInjective
  <2>3. \A a, b \in 1 .. m : t[a] = t[b] => a = b BY <1>2, <1>9 DEF IsInjective
  <2>4. CASE i \in 1 .. n /\ k \in 1 .. n BY <1>3, <2>1, <2>2, <2>4
  <2>5. CASE i \in 1 .. n /\ k - n \in 1 .. m /\ u[k] = t[k - n] BY <1>1, <1>2, <1>3, <1>9, <2>1, <2>5
  <2>6. CASE k \in 1 .. n /\ i - n \in 1 .. m /\ u[i] = t[i - n] BY <1>1, <1>2, <1>3, <1>9, <2>1, <2>6
  <2>7. CASE i - n \in 1 .. m /\ u[i] = t[i - n] /\ k - n \in 1 .. m /\ u[k] = t[k - n]
    <3>1. i - n = k - n BY <2>1, <2>3, <2>7
    <3>2. QED BY <1>1, <1>2, <3>1
  <2>8. QED BY <1>7, <2>4, <2>5, <2>6, <2>7
<1>10. QED BY <1>3, <1>8, <1>9 DEF u, n, m

FirstStep(c, u, x) == IF Contains(u, x) THEN u ELSE Append(u, x)
FirstInv(c, i, u) ==
  u \in Seq(c.set) /\ IsInjective(u) /\ \A k \in 1 .. i : c.seq[k] \in ToSet(u)
FirstFold == INSTANCE FoldProofs WITH Op <- FirstStep, Inv <- FirstInv

(* Each pin once. *)
LEMMA FirstAre ==
  ASSUME NEW T, NEW s \in Seq(T)
  PROVE  /\ FirstOccurrences(s) \in Seq(T) /\ IsInjective(FirstOccurrences(s))
         /\ ToSet(s) \subseteq ToSet(FirstOccurrences(s))
<1> DEFINE c == [set |-> T, seq |-> s]
           m == Len(s)
<1>1. /\ DOMAIN s = 1 .. m /\ m \in Nat /\ \A i \in 1 .. m : s[i] \in T
      /\ \A x \in ToSet(s) : \E i \in 1 .. m : s[i] = x
  BY ToSetOf
<1> HIDE DEF m
<1>2. c.set = T /\ c.seq = s OBVIOUS
<1> HIDE DEF c
<1>3. FirstInv(c, 0, <<>>)
  <2>1. <<>> \in Seq(T) /\ IsInjective(<<>>) BY DEF IsInjective
  <2>2. QED BY <1>2, <2>1 DEF FirstInv
<1>4. FirstFold!Steps(c, s)
  <2>1. SUFFICES ASSUME NEW i \in 1 .. m, NEW u, FirstInv(c, i - 1, u)
                 PROVE  FirstInv(c, i, FirstStep(c, u, s[i]))
    BY <1>1 DEF FirstFold!Steps
  <2> DEFINE x == s[i]
  <2>2. u \in Seq(T) /\ IsInjective(u) /\ \A k \in 1 .. i - 1 : s[k] \in ToSet(u)
    BY <1>2, <2>1 DEF FirstInv
  <2>3. \A k \in 1 .. i : k \in 1 .. i - 1 \/ k = i OBVIOUS
  <2>4. x \in T BY <1>1
  <2>5. Contains(u, x) <=> x \in ToSet(u) BY DEF Contains, ToSet
  <2>6. CASE Contains(u, x)
    <3>1. FirstStep(c, u, x) = u BY <2>6 DEF FirstStep
    <3>2. \A k \in 1 .. i : s[k] \in ToSet(u) BY <2>2, <2>3, <2>5, <2>6
    <3>3. QED BY <1>2, <2>2, <3>1, <3>2 DEF FirstInv
  <2>7. CASE ~Contains(u, x)
    <3> DEFINE v == Append(u, x)
    <3>1. FirstStep(c, u, x) = v BY <2>7 DEF FirstStep
    <3>2. v \in Seq(T) /\ ToSet(v) = ToSet(u) \cup {x} BY <2>2, <2>4, AppendedSet
    <3>3. IsInjective(v) BY <2>2, <2>4, <2>5, <2>7, AppendedOnce
    <3> HIDE DEF v
    <3>4. \A k \in 1 .. i : s[k] \in ToSet(v) BY <2>2, <2>3, <3>2
    <3>5. QED BY <1>2, <3>1, <3>2, <3>3, <3>4 DEF FirstInv
  <2>8. QED BY <2>6, <2>7
<1>5. FirstInv(c, m, FirstFold!Folded(c, <<>>, s)) BY <1>1, <1>3, <1>4, FirstFold!FoldKeeps
<1>6. FirstFold!Folded(c, <<>>, s) = FirstOccurrences(s)
  BY DEF FirstOccurrences, FirstFold!Folded, FirstStep, FoldLeft, MapThenFoldSet, Max,
         FirstFold!Highest
<1>7. QED BY <1>1, <1>2, <1>5, <1>6 DEF FirstInv

----------------------------------------------------------------------------
(* What has to go on level 1: what is not in the hierarchy and leads to an *)
(* endpoint, of level 1, or of level 0 and an endpoint or an input of a    *)
(* higher gate.                                                            *)
Level1Necessary(g, visited, revlevel) ==
  LET open == {p \in DOMAIN g.level \ visited : revlevel[p] # Free}
  IN  {p \in open : g.level[p] = 0 /\ p \in g.goals}
      \cup {p \in open : g.level[p] = 1}
      \cup {q \in UNION {Fanins(g.aig, p) : p \in {p \in open : g.level[p] > 1}} :
              g.level[q] = 0 /\ q \notin visited}

(* What the turn of a pin inserts. *)
Level1(g, visited) == {p \in DOMAIN g.level : g.level[p] <= 1 /\ p \notin visited}

LEMMA InsertedIs ==
  ASSUME NEW g, GraphOk(g), NEW visited, NEW rev, NEW p \in DOMAIN g.level
  PROVE  /\ Inserted(g, visited, rev, p) \in Seq(Level1(g, visited))
         /\ p \notin visited /\ rev[p] # Free /\ (g.level[p] = 1 \/ (g.level[p] = 0 /\ p \in g.goals))
              => p \in ToSet(Inserted(g, visited, rev, p))
         /\ p \notin visited /\ rev[p] # Free /\ g.level[p] > 1
              => \A q \in Fanins(g.aig, p) \cap DOMAIN g.level :
                   g.level[q] = 0 /\ q \notin visited => q \in ToSet(Inserted(g, visited, rev, p))
<1> DEFINE a == Pin(g.aig[p].a)
           b == Pin(g.aig[p].b)
           low == {q \in DOMAIN g.level \ visited : g.level[q] = 0}
           ins == Inserted(g, visited, rev, p)
<1>1. g.level[p] \in Nat BY PinOk
<1>2. CASE p \in visited \/ rev[p] = Free
  <2>1. ins = <<>> BY <1>2 DEF Inserted
  <2>2. QED BY <1>2, <2>1
<1>3. CASE p \notin visited /\ rev[p] # Free /\ g.level[p] > 1
  <2>0. g.level[p] # 0 BY <1>1, <1>3
  <2>6. Fanins(g.aig, p) = {a, b} BY <2>0, PinOk
  <2> DEFINE pair == <<a, b>>
             T == {a, b}
  <2>1. ins = Kept(pair, low) BY <1>3 DEF Inserted
  <2>2. pair \in Seq(T) /\ ToSet(pair) = T BY DEF ToSet
  <2>a. T = {a, b} OBVIOUS
  <2> HIDE DEF pair, T
  <2>b. Kept(pair, low) \in Seq(T) /\ ToSet(Kept(pair, low)) = ToSet(pair) \cap low BY <2>2, KeptIs
  <2> HIDE DEF a, b, low, ins
  <2>3. ins \in Seq(T) /\ ToSet(ins) = T \cap low BY <2>1, <2>2, <2>b
  <2>4. \A q \in low : q \in Level1(g, visited) BY DEF low, Level1
  <2>5. ins \in Seq(Level1(g, visited)) BY <2>3, <2>4, Narrower
  <2>7. \A q \in Fanins(g.aig, p) \cap DOMAIN g.level : g.level[q] = 0 /\ q \notin visited => q \in ToSet(ins)
    BY <2>3, <2>6, <2>a DEF low
  <2>8. QED BY <1>1, <1>3, <2>5, <2>7 DEF ins
<1>4. CASE p \notin visited /\ rev[p] # Free /\ ~(g.level[p] > 1) /\ (g.level[p] = 1 \/ p \in g.goals)
  <2>1. ins = <<p>> BY <1>4 DEF Inserted
  <2>2. p \in Level1(g, visited) BY <1>1, <1>4 DEF Level1
  <2>3. ToSet(<<p>>) = {p} /\ <<p>> \in Seq(Level1(g, visited)) BY <2>2 DEF ToSet
  <2>4. QED BY <1>1, <1>4, <2>1, <2>3
<1>5. CASE p \notin visited /\ rev[p] # Free /\ ~(g.level[p] > 1) /\ ~(g.level[p] = 1 \/ p \in g.goals)
  <2>1. ins = <<>> BY <1>5 DEF Inserted
  <2>2. QED BY <1>1, <1>5, <2>1
<1>6. QED BY <1>2, <1>3, <1>4, <1>5

DueStep(c, s, p) == s \o Inserted(c.g, c.visited, c.rev, p)
DueInv(c, i, s) ==
  s \in Seq(Level1(c.g, c.visited))
  /\ \A k \in 1 .. i : ToSet(Inserted(c.g, c.visited, c.rev, c.g.order[k])) \subseteq ToSet(s)
DueFold == INSTANCE FoldProofs WITH Op <- DueStep, Inv <- DueInv

LEMMA NecessaryIs ==
  ASSUME NEW g, GraphOk(g), NEW hier, NEW rev
  PROVE  LET necessary == Necessary(g, hier, rev) IN
         /\ necessary \in Seq(1 .. Len(g.aig))
         /\ \A p \in ToSet(necessary) : p \in DOMAIN g.level /\ g.level[p] <= 1 /\ p \notin Visited(hier)
         /\ \A p \in DOMAIN g.level \cap Level1Necessary(g, Visited(hier), rev) : p \in ToSet(necessary)
<1> DEFINE visited == Visited(hier)
           necessary == Necessary(g, hier, rev)
           all == FoldLeft(LAMBDA s, p : s \o Inserted(g, visited, rev, p), <<>>, g.order)
           L == Level1(g, visited)
           S == Level1Necessary(g, visited, rev)
           open == {p \in DOMAIN g.level \ visited : rev[p] # Free}
           c == [g |-> g, visited |-> visited, rev |-> rev]
           m == Len(g.order)
<1>1. /\ DOMAIN g.order = 1 .. m /\ m \in Nat /\ \A i \in 1 .. m : g.order[i] \in ToSet(g.order)
      /\ \A x \in ToSet(g.order) : \E i \in 1 .. m : g.order[i] = x
      /\ DOMAIN g.level = ToSet(g.order)
  BY ToSetOf DEF GraphOk
<1>2. necessary = FirstOccurrences(all) BY DEF Necessary
<1>3. c.g = g /\ c.visited = visited /\ c.rev = rev OBVIOUS
<1> HIDE DEF visited, necessary, c, m
<1>4. DueInv(c, 0, <<>>)
  <2>1. <<>> \in Seq(L) OBVIOUS
  <2>2. QED BY <1>3, <2>1 DEF DueInv
<1>5. DueFold!Steps(c, g.order)
  <2>1. SUFFICES ASSUME NEW i \in 1 .. m, NEW s, DueInv(c, i - 1, s)
                 PROVE  DueInv(c, i, DueStep(c, s, g.order[i]))
    BY <1>1 DEF DueFold!Steps
  <2> DEFINE t == Inserted(g, visited, rev, g.order[i])
             u == s \o t
  <2>2. s \in Seq(L) /\ \A k \in 1 .. i - 1 : ToSet(Inserted(g, visited, rev, g.order[k])) \subseteq ToSet(s)
    BY <1>3, <2>1 DEF DueInv
  <2>3. \A k \in 1 .. i : k \in 1 .. i - 1 \/ k = i OBVIOUS
  <2>4. t \in Seq(L) BY <1>1, InsertedIs
  <2> HIDE DEF t, L
  <2>5. u \in Seq(L) /\ ToSet(u) = ToSet(s) \cup ToSet(t) BY <2>2, <2>4, JoinedOnce
  <2>6. DueStep(c, s, g.order[i]) = u BY <1>3 DEF DueStep, t
  <2> HIDE DEF u
  <2>7. \A k \in 1 .. i : ToSet(Inserted(g, visited, rev, g.order[k])) \subseteq ToSet(u)
    BY <2>2, <2>3, <2>5 DEF t
  <2>8. QED BY <1>3, <2>5, <2>6, <2>7 DEF DueInv, L
<1>6. DueInv(c, m, DueFold!Folded(c, <<>>, g.order)) BY <1>1, <1>4, <1>5, DueFold!FoldKeeps
<1>7. DueFold!Folded(c, <<>>, g.order) = all
  BY <1>3 DEF DueFold!Folded, DueStep, FoldLeft, MapThenFoldSet, Max, DueFold!Highest
<1> HIDE DEF all
<1>8. all \in Seq(L) /\ \A k \in 1 .. m : ToSet(Inserted(g, visited, rev, g.order[k])) \subseteq ToSet(all)
  BY <1>3, <1>6, <1>7 DEF DueInv
<1>9. necessary \in Seq(L) /\ ToSet(all) \subseteq ToSet(necessary) BY <1>2, <1>8, FirstAre
<1>10. ToSet(necessary) \subseteq L BY <1>9, ToSetOf
<1>11. \A p \in L : p \in DOMAIN g.level /\ g.level[p] <= 1 /\ p \notin visited BY DEF Level1
<1>12. necessary \in Seq(1 .. Len(g.aig))
  <2>1. \A p \in L : p \in 1 .. Len(g.aig) BY <1>11, PinOk
  <2> HIDE DEF L
  <2>2. QED BY <1>9, <1>10, <2>1, Narrower
<1>13. \A q \in ToSet(g.order) : ToSet(Inserted(g, visited, rev, q)) \subseteq ToSet(necessary)
  <2>1. TAKE q \in ToSet(g.order)
  <2>2. PICK k \in 1 .. m : g.order[k] = q BY <1>1
  <2>3. QED BY <1>8, <1>9, <2>2
<1>14. ASSUME NEW p \in DOMAIN g.level \cap S PROVE p \in ToSet(necessary)
  <2>0. S = {x \in open : g.level[x] = 0 /\ x \in g.goals}
            \cup {x \in open : g.level[x] = 1}
            \cup {x \in UNION {Fanins(g.aig, q) : q \in {q \in open : g.level[q] > 1}} :
                    g.level[x] = 0 /\ x \notin visited}
    BY DEF Level1Necessary
  <2>1. CASE p \in open /\ (g.level[p] = 1 \/ (g.level[p] = 0 /\ p \in g.goals))
    <3>1. p \in ToSet(Inserted(g, visited, rev, p)) BY <1>14, <2>1, InsertedIs
    <3>2. QED BY <1>1, <1>13, <1>14, <3>1
  <2>2. CASE p \in {x \in UNION {Fanins(g.aig, q) : q \in {q \in open : g.level[q] > 1}} :
                      g.level[x] = 0 /\ x \notin visited}
    <3>1. PICK q \in open : g.level[q] > 1 /\ p \in Fanins(g.aig, q) BY <2>2
    <3>2. p \in ToSet(Inserted(g, visited, rev, q)) BY <1>14, <2>2, <3>1, InsertedIs
    <3>3. QED BY <1>1, <1>13, <3>1, <3>2
  <2>3. QED BY <1>14, <2>0, <2>1, <2>2
<1>15. QED BY <1>10, <1>11, <1>12, <1>14 DEF visited, necessary

----------------------------------------------------------------------------
(* The upper levels. *)
LEMMA ValuableIs ==
  ASSUME NEW g, GraphOk(g), NEW hier, NEW rev, NEW sel,
         ValuableNode(g, hier, rev, sel) # Free
  PROVE  /\ ValuableNode(g, hier, rev, sel) \in DOMAIN g.level
         /\ g.level[ValuableNode(g, hier, rev, sel)] = sel
<1> DEFINE visited == Visited(hier)
           open == {i \in DOMAIN g.order : /\ g.level[g.order[i]] = sel
                                           /\ g.order[i] \notin visited /\ rev[g.order[i]] # Free}
           best == {i \in open : \A k \in open : rev[g.order[k]] <= rev[g.order[i]]}
<1>1. DOMAIN g.order = 1 .. Len(g.order) /\ Len(g.order) \in Nat
      /\ \A i \in 1 .. Len(g.order) : g.order[i] \in ToSet(g.order) BY ToSetOf DEF GraphOk
<1>2. ValuableNode(g, hier, rev, sel) = IF best = {} THEN Free ELSE g.order[Min(best)] BY DEF ValuableNode
<1>3. best # {} BY <1>2
<1>4. best \in SUBSET Nat /\ best \subseteq DOMAIN g.order /\ \A i \in best : g.level[g.order[i]] = sel
  BY <1>1
<1> HIDE DEF best
<1>5. Min(best) \in best BY <1>3, <1>4, MinIs
<1>6. g.order[Min(best)] \in DOMAIN g.level /\ g.level[g.order[Min(best)]] = sel
  BY <1>1, <1>4, <1>5 DEF GraphOk
<1>7. QED BY <1>2, <1>3, <1>6

(* A hierarchy with a pin above level 1 has a gate.                        *)
HasGate(g, hier) == Visited(hier) = {} \/ \E p \in Visited(hier) : g.level[p] # 0

HighStep(c, high, i) == PlaceHighest(c, high)
HighInv(c, i, high) ==
  /\ high = [hier |-> high.hier, revlevel |-> high.revlevel, sel |-> high.sel]
  /\ high.sel \in 0 .. Levels
  /\ HierOk(c, high.hier) /\ Clear(high.hier, high.sel) /\ HasGate(c, high.hier)
  /\ high.revlevel = ReverseLevels(c, high.hier)
HighFold == INSTANCE FoldProofs WITH Op <- HighStep, Inv <- HighInv

LEMMA ClearBelow ==
  ASSUME NEW hier, NEW sel \in 1 .. Levels, Clear(hier, sel)
  PROVE  Clear(hier, sel - 1)
<1>1. \A l \in 0 .. sel - 1 - 1 : l \in 0 .. sel - 1 BY LevelsNat
<1>2. QED BY <1>1 DEF Clear

(* A step of the placement of the upper levels keeps the hierarchy sound;  *)
(* taking a pin back restores it.                                          *)
LEMMA HighestKeeps ==
  ASSUME NEW g, GraphOk(g), NEW i, NEW k, NEW high, HighInv(g, k, high)
  PROVE  HighInv(g, i, PlaceHighest(g, high))
<1> DEFINE sel == high.sel
           slots == {j \in Slot(sel) : high.hier[sel][j] = Free}
           node == ValuableNode(g, high.hier, high.revlevel, sel)
           j == Min(slots)
           placed == PlaceBit(g, high.hier, sel, j, node)
           upd == ReverseLevels(g, placed)
           purged == PurgeBit(placed, sel, j)
           r == PlaceHighest(g, high)
<1>1. /\ high = [hier |-> high.hier, revlevel |-> high.revlevel, sel |-> high.sel]
      /\ sel \in 0 .. Levels /\ HierOk(g, high.hier) /\ Clear(high.hier, sel) /\ HasGate(g, high.hier)
      /\ high.revlevel = ReverseLevels(g, high.hier)
  BY DEF HighInv
<1>2. r = IF sel < 2 THEN high
          ELSE IF slots = {} \/ node = Free THEN [high EXCEPT !.sel = @ - 1]
          ELSE IF Overflows(placed, Necessary(g, placed, upd))
          THEN [hier |-> purged, revlevel |-> high.revlevel, sel |-> sel - 1]
          ELSE [hier |-> placed, revlevel |-> upd, sel |-> sel]
  BY DEF PlaceHighest
<1> HIDE DEF r, node, placed, upd, purged, j
<1>s. sel \in Int BY <1>1, LevelsNat
<1>3. CASE sel < 2
  <2>1. r = high BY <1>2, <1>3
  <2>2. QED BY <1>1, <2>1 DEF HighInv, r
<1>4. ASSUME sel >= 2 PROVE sel \in 1 .. Levels /\ sel - 1 \in 0 .. Levels /\ Clear(high.hier, sel - 1)
  <2>1. sel \in 1 .. Levels /\ sel - 1 \in 0 .. Levels BY <1>1, <1>4, LevelsNat
  <2>2. QED BY <1>1, <2>1, ClearBelow
<1> DEFINE lower == [hier |-> high.hier, revlevel |-> high.revlevel, sel |-> sel - 1]
<1>5. ASSUME sel >= 2 PROVE HighInv(g, i, lower) BY <1>1, <1>4, <1>5 DEF HighInv
<1>6. [high EXCEPT !.sel = @ - 1] = lower BY <1>1
<1>7. CASE sel >= 2 /\ (slots = {} \/ node = Free)
  <2>1. ~(sel < 2) BY <1>7, <1>s
  <2>2. r = [high EXCEPT !.sel = @ - 1] BY <1>2, <1>7, <2>1
  <2>3. QED BY <1>5, <1>6, <1>7, <2>2 DEF r
<1>8. CASE sel >= 2 /\ slots # {} /\ node # Free
  <2>1. slots \in SUBSET Nat BY DEF Slot
  <2>2. j \in slots BY <1>8, <2>1, MinIs DEF j
  <2>3. j \in Slot(sel) /\ high.hier[sel][j] = Free BY <2>2
  <2>4. node \in DOMAIN g.level /\ g.level[node] = sel BY <1>8, ValuableIs DEF node
  <2>5. sel \in 1 .. Levels /\ g.level[node] <= sel BY <1>4, <1>8, <2>4
  <2>6. HierOk(g, placed) /\ Clear(placed, sel) /\ placed[sel][j] = node
    BY <1>1, <2>3, <2>4, <2>5, PlaceKeeps DEF placed
  <2>h. HasGate(g, placed)
    <3>1. node \in Visited(placed) BY <1>8, <2>3, <2>5, <2>6, VisitedIs
    <3>2. g.level[node] # 0 BY <1>8, <2>4
    <3>3. QED BY <3>1, <3>2 DEF HasGate
  <2>7. purged = high.hier BY <1>1, <2>3, <2>4, <2>5, PurgeUndoes DEF placed, purged
  <2>8. ~(sel < 2) BY <1>8, <1>s
  <2>9. r = IF Overflows(placed, Necessary(g, placed, upd))
            THEN [hier |-> purged, revlevel |-> high.revlevel, sel |-> sel - 1]
            ELSE [hier |-> placed, revlevel |-> upd, sel |-> sel]
    BY <1>2, <1>8, <2>8
  <2>10. [hier |-> purged, revlevel |-> high.revlevel, sel |-> sel - 1] = lower BY <2>7
  <2>11. HighInv(g, i, [hier |-> placed, revlevel |-> upd, sel |-> sel])
    BY <1>1, <2>6, <2>h DEF HighInv, upd
  <2>12. r \in {lower, [hier |-> placed, revlevel |-> upd, sel |-> sel]} BY <2>9, <2>10
  <2>13. QED BY <1>5, <1>8, <2>11, <2>12 DEF r
<1>9. QED BY <1>s, <1>3, <1>7, <1>8

(* And so do all of its steps. *)
LEMMA HighOk ==
  ASSUME NEW g, GraphOk(g), NEW sel \in 0 .. Levels
  PROVE  LET high == PlaceHigh(g, EmptyHier, ReverseLevels(g, EmptyHier), sel) IN
         /\ HierOk(g, high.hier) /\ HasGate(g, high.hier)
         /\ high.revlevel = ReverseLevels(g, high.hier)
<1> DEFINE base == [hier |-> EmptyHier, revlevel |-> ReverseLevels(g, EmptyHier), sel |-> sel]
           n == Levels + Width(1)
           seq == [i \in 1 .. n |-> i]
<1>1. n \in Nat
  <2>1. 1 \in 0 .. Levels BY LevelsNat
  <2>2. QED BY <2>1, WidthNat, LevelsNat
<1>2. HighInv(g, 0, base)
  <2>1. \A h \in 1 .. Levels : \A j \in Slot(h) : EmptyHier[h][j] = Free BY LevelsNat DEF EmptyHier
  <2>2. Visited(EmptyHier) = {} BY <2>1, VisitedIs
  <2>3. QED BY <2>2, EmptyOk DEF HighInv, HasGate
<1>3. HighFold!Steps(g, seq) BY HighestKeeps DEF HighFold!Steps, HighStep
<1>4. DOMAIN seq = 1 .. n OBVIOUS
<1>5. HighInv(g, n, HighFold!Folded(g, base, seq))
  <2> HIDE DEF base, n, seq
  <2>1. QED BY <1>1, <1>2, <1>3, <1>4, HighFold!FoldKeeps
<1>6. HighFold!Folded(g, base, seq) = PlaceHigh(g, EmptyHier, ReverseLevels(g, EmptyHier), sel)
  BY DEF PlaceHigh, HighFold!Folded, HighStep, FoldLeft, MapThenFoldSet, Max,
         HighFold!Highest
<1>7. QED BY <1>5, <1>6 DEF HighInv

(* So what the stage starts with is sound. *)
LEMMA StartOk ==
  ASSUME NEW g, GraphOk(g)
  PROVE  LET up == StartStage(g) IN
         /\ up.g = g /\ HierOk(g, up.hier) /\ HasGate(g, up.hier)
         /\ up.necessary = Necessary(g, up.hier, ReverseLevels(g, up.hier))
         /\ up.inHier = g.goals \cap Visited(up.hier)
<1> DEFINE S == {g.level[p] : p \in DOMAIN g.level}
           sel == Min({Max(S), Levels})
           high == PlaceHigh(g, EmptyHier, ReverseLevels(g, EmptyHier), sel)
<1>1. Len(g.aig) \in Nat /\ DOMAIN g.level = ToSet(g.order) BY DEF GraphOk
<1>2. S \in SUBSET (0 .. Len(g.aig))
  <2>1. ASSUME NEW p \in DOMAIN g.level PROVE g.level[p] \in 0 .. Len(g.aig)
    <3>1. p \in 1 .. Len(g.aig) BY PinOk
    <3>2. g.level[p] \in 0 .. p BY DEF GraphOk, LevelsRight
    <3>3. QED BY <1>1, <3>1, <3>2
  <2>2. QED BY <2>1
<1>3. S # {}
  <2>1. 1 \in 1 .. Len(g.order) BY DEF GraphOk
  <2>2. g.order[1] \in ToSet(g.order) BY <2>1, ToSetOf DEF GraphOk
  <2>3. QED BY <1>1, <2>2
<1> HIDE DEF S
<1>4. Max(S) \in Nat
  <2>1. Max(S) \in S BY <1>1, <1>2, <1>3, MaxIs
  <2>2. Max(S) \in 0 .. Len(g.aig) BY <1>2, <2>1
  <2>3. QED BY <1>1, <2>2
<1>5. sel \in 0 .. Levels
  <2>1. {Max(S), Levels} \in SUBSET Nat /\ {Max(S), Levels} # {} BY <1>4, LevelsNat
  <2>2. sel \in {Max(S), Levels} /\ sel <= Levels BY <2>1, MinIs
  <2>3. QED BY <1>4, <2>2, LevelsNat
<1>6. StartStage(g) = Upper(g, high) BY DEF StartStage, S
<1> HIDE DEF sel
<1>7. HierOk(g, high.hier) /\ HasGate(g, high.hier) /\ high.revlevel = ReverseLevels(g, high.hier) BY <1>5, HighOk
<1> HIDE DEF high
<1>8. QED BY <1>6, <1>7 DEF Upper

----------------------------------------------------------------------------
(* Arithmetic and sequences. *)
LEMMA Wider ==
  ASSUME NEW S, NEW T, S \subseteq T, NEW s \in Seq(S)
  PROVE  s \in Seq(T)
OBVIOUS

LEMMA Divided ==
  ASSUME NEW d \in Nat \ {0}, NEW n \in Nat
  PROVE  n \div d \in Nat /\ n % d \in 0 .. d - 1 /\ n = (n \div d) * d + (n % d)
<1> DEFINE q == n \div d
           r == n % d
           m == q * d
<1>1. q \in Int /\ m <= n /\ n < m + d /\ r = n - m OBVIOUS
<1>2. q \in Nat /\ m \in Int OBVIOUS
<1> HIDE DEF q, m, r
<1>3. r \in 0 .. d - 1 /\ n = m + r BY <1>1, <1>2
<1>4. QED BY <1>2, <1>3 DEF q, m, r

LEMMA Distributes ==
  ASSUME NEW a \in Int, NEW b \in Int, NEW d \in Int
  PROVE  (a + b) * d = a * d + b * d
OBVIOUS

LEMMA TimesGrows ==
  ASSUME NEW a \in Nat, NEW b \in Nat, NEW d \in Nat, a <= b
  PROVE  a * d <= b * d /\ a * d \in Nat /\ b * d \in Nat
<1>1. b - a \in Nat /\ b = a + (b - a) OBVIOUS
<1>2. b * d = a * d + (b - a) * d BY <1>1, Distributes
<1>3. (b - a) * d \in Nat /\ a * d \in Nat BY <1>1
<1> HIDE <1>1
<1>4. QED BY <1>2, <1>3

----------------------------------------------------------------------------
(* Where the slots are in the executor's state. *)
LEMMA WidthBelow ==
  ASSUME NEW l \in 1 .. Levels
  PROVE  \A h \in 0 .. l - 1 : 2 * Width(l) <= Width(h)
<1> DEFINE Bad == {h \in 0 .. l - 1 : ~(2 * Width(l) <= Width(h))}
<1>0. l \in Nat /\ l - 1 \in 0 .. Levels /\ l - 1 \in 0 .. Levels - 1 /\ (l - 1) + 1 = l BY LevelsNat
<1>1. Width(l - 1) = 2 * Width(l) /\ Width(l) \in Nat /\ Width(l - 1) \in Nat
  <2>1. l \in 0 .. Levels BY LevelsNat
  <2>2. QED BY <1>0, <2>1, WidthStep, WidthNat
<1>2. l - 1 \notin Bad BY <1>1
<1>3. \A h \in 0 .. (l - 1) - 1 : h \in Bad => h + 1 \in Bad
  <2>1. TAKE h \in 0 .. (l - 1) - 1
  <2>2. h \in 0 .. Levels - 1 /\ h + 1 \in 0 .. Levels /\ h + 1 \in 0 .. l - 1 BY <1>0, LevelsNat
  <2>3. Width(h) = 2 * Width(h + 1) /\ Width(h + 1) \in Nat BY <2>2, WidthStep, WidthNat
  <2>4. QED BY <1>1, <2>2, <2>3
<1>4. Bad \in SUBSET (0 .. l - 1) OBVIOUS
<1>5. Bad = {}
  <2> HIDE DEF Bad
  <2>1. QED BY <1>0, <1>2, <1>3, <1>4, Downwards
<1>6. QED BY <1>5

(* A slot of a level is one bit of the state. *)
LEMMA PinAtSlot ==
  ASSUME NEW h \in 0 .. Levels, NEW j \in Slot(h)
  PROVE  /\ j + Width(h) \in Place /\ LevelAt[j + Width(h)] = h
         /\ \A hier : PinAt(hier, j + Width(h)) = hier[h][j]
<1> DEFINE pos == j + Width(h)
           l == LevelAt[pos]
<1>0. 0 \in 0 .. Levels BY LevelsNat
<1>1. Width(h) \in Nat \ {0} /\ Width(0) \in Nat /\ Width(h) <= Width(0) BY <1>0, WidthNat, WidthBound
<1>2. j \in Nat /\ j < Width(h) BY <1>1 DEF Slot
<1>3. pos \in Place BY <1>1, <1>2 DEF Place
<1>4. l \in 0 .. Levels /\ pos \in Width(l) .. 2 * Width(l) - 1 BY <1>3, LevelIs
<1> HIDE DEF l
<1>5. Width(l) \in Nat BY <1>4, WidthNat
<1>6. l = h
  <2>1. ~(l < h)
    <3>1. SUFFICES ASSUME l < h PROVE FALSE OBVIOUS
    <3>2. h \in 1 .. Levels /\ l \in 0 .. h - 1 BY <1>4, <3>1, LevelsNat
    <3>3. 2 * Width(h) <= Width(l) BY <3>2, WidthBelow
    <3>4. QED BY <1>1, <1>2, <1>4, <1>5, <3>3
  <2>2. ~(h < l)
    <3>1. SUFFICES ASSUME h < l PROVE FALSE OBVIOUS
    <3>2. l \in 1 .. Levels /\ h \in 0 .. l - 1 BY <1>4, <3>1, LevelsNat
    <3>3. 2 * Width(l) <= Width(h) BY <3>2, WidthBelow
    <3>4. QED BY <1>1, <1>2, <1>4, <1>5, <3>3
  <2>3. QED BY <1>4, <2>1, <2>2, LevelsNat
<1>7. pos # 0 /\ pos - Width(h) = j BY <1>1, <1>2
<1>8. \A hier : PinAt(hier, pos) = hier[LevelAt[pos]][pos - Width(LevelAt[pos])] BY <1>7 DEF PinAt
<1>9. QED BY <1>3, <1>6, <1>7, <1>8 DEF l

(* A slot's bit and its word. *)
LEMMA WordOfSlot ==
  ASSUME NEW h \in 1 .. Levels, NEW j \in Slot(h)
  PROVE  /\ WordOf(h, j) \in 0 .. Width(0) \div Word - 1
         /\ \A hier : \E i \in 0 .. Word - 1 : PinAt(hier, WordOf(h, j) * Word + i) = hier[h][j]
<1> DEFINE pos == j + Width(h)
           w == pos \div Word
<1>0. h \in 0 .. Levels /\ 0 \in 0 .. Levels /\ h # 0 BY LevelsNat
<1>1. Width(h) \in Nat \ {0} /\ Width(0) \in Nat /\ 2 * Width(h) <= Width(0) BY <1>0, WidthNat, WidthBound
<1>2. j \in Nat /\ j < Width(h) BY <1>1 DEF Slot
<1>3. pos \in Nat /\ pos < Width(0) BY <1>1, <1>2
<1>4. Word \in Nat \ {0} BY LevelsNat
<1>5. w \in Nat /\ pos % Word \in 0 .. Word - 1 /\ pos = w * Word + (pos % Word)
  <2> HIDE DEF pos
  <2>1. QED BY <1>3, <1>4, Divided
<1>6. w <= Width(0) \div Word - 1
  <2> DEFINE q == Width(1) \div Word
             m == q + q
  <2>1. Width(1) % Word = 0 /\ Width(0) = Width(1) + Width(1) /\ Width(1) \in Nat
    <3>1. 0 \in 0 .. Levels - 1 /\ 1 \in 0 .. Levels /\ 0 + 1 = 1 BY LevelsNat
    <3>2. Width(0) = 2 * Width(1) /\ Width(1) \in Nat BY <3>1, WidthStep, WidthNat
    <3>3. QED BY <3>2, SizeAssumption
  <2>2. q \in Nat /\ Width(1) = q * Word + 0 BY <1>4, <2>1, Divided
  <2>3. m \in Nat /\ m * Word = q * Word + q * Word /\ q * Word \in Nat BY <1>4, <2>2, Distributes
  <2> HIDE DEF q, m
  <2>4. Width(0) = m * Word /\ m * Word \in Nat BY <2>1, <2>2, <2>3
  <2>5. Width(0) \div Word = m
    <3>1. 0 \in 0 .. Word - 1 BY <1>4
    <3>2. (m * Word + 0) \div Word = m BY <2>3, <3>1, BitOfWord
    <3>3. m * Word + 0 = m * Word BY <2>4
    <3>4. QED BY <2>4, <3>2, <3>3
  <2> HIDE DEF w, pos
  <2>6. ~(w >= m)
    <3>1. SUFFICES ASSUME m <= w PROVE FALSE BY <1>5, <2>3
    <3>2. m * Word <= w * Word /\ w * Word \in Nat BY <1>4, <1>5, <2>3, <3>1, TimesGrows
    <3>3. QED BY <1>3, <1>4, <1>5, <2>4, <3>2
  <2>7. w <= m - 1 BY <1>5, <2>3, <2>6
  <2>8. QED BY <2>5, <2>7
<1>7. WordOf(h, j) = w BY DEF WordOf
<1>8. \A hier : PinAt(hier, pos) = hier[h][j] BY <1>0, PinAtSlot
<1> HIDE DEF pos, w
<1>9. w \in 0 .. Width(0) \div Word - 1
  <2> DEFINE all == Width(0) \div Word
  <2>1. all \in Nat BY <1>1, <1>4, Divided
  <2>2. w \in Nat /\ w <= all - 1 BY <1>5, <1>6
  <2> HIDE DEF all
  <2>3. w \in 0 .. all - 1 BY <2>1, <2>2
  <2>4. QED BY <2>3 DEF all
<1>10. QED BY <1>5, <1>7, <1>8, <1>9

(* The words of level 1. *)
LEMMA Level1Word ==
  ASSUME NEW w \in 0 .. Width(1) \div Word - 1, NEW k \in 1 .. Word
  PROVE  /\ w * Word + k - 1 \in Slot(1)
         /\ WordOf(1, w * Word + k - 1) = (w * Word + Width(1)) \div Word
<1> DEFINE q == Width(1) \div Word
<1>1. Width(1) \in Nat /\ Word \in Nat \ {0} /\ Width(1) % Word = 0
  <2>1. 1 \in 0 .. Levels BY LevelsNat
  <2>2. QED BY <2>1, WidthNat, SizeAssumption
<1>2. q \in Nat /\ Width(1) = q * Word
  <2>1. q \in Nat /\ Width(1) = q * Word + 0 BY <1>1, Divided
  <2>2. q * Word \in Nat BY <1>1, <2>1
  <2>3. QED BY <2>1, <2>2
<1>3. w \in Nat /\ k \in Nat /\ w <= q - 1 BY <1>2
<1> HIDE DEF q
<1>4. (w + 1) * Word <= q * Word /\ (w + 1) * Word = w * Word + Word /\ w * Word \in Nat /\ q * Word \in Nat
  <2>1. (w + 1) * Word <= q * Word /\ q * Word \in Nat
    <3>1. w + 1 \in Nat /\ w + 1 <= q BY <1>2, <1>3
    <3>2. QED BY <1>1, <1>2, <3>1, TimesGrows
  <2>2. (w + 1) * Word = w * Word + 1 * Word BY <1>1, <1>3, Distributes
  <2>3. w * Word \in Nat /\ 1 * Word = Word BY <1>1, <1>3
  <2>4. QED BY <2>1, <2>2, <2>3
<1> DEFINE a == w * Word
           b == (w + q) * Word
<1>5. b = a + Width(1) /\ w + q \in Nat
  <2>1. w \in Int /\ q \in Int /\ Word \in Int BY <1>1, <1>2, <1>3
  <2>2. (w + q) * Word = w * Word + q * Word BY <2>1, Distributes
  <2>3. QED BY <1>2, <1>3, <2>2
<1>6. a + k - 1 \in 0 .. Width(1) - 1 BY <1>1, <1>2, <1>3, <1>4
<1>7. (b + (k - 1)) \div Word = w + q /\ (b + 0) \div Word = w + q
  <2>1. k - 1 \in 0 .. Word - 1 /\ 0 \in 0 .. Word - 1 BY <1>1
  <2>2. QED BY <1>5, <2>1, BitOfWord
<1>8. a \in Nat /\ b \in Nat BY <1>1, <1>2, <1>3, <1>4, <1>5
<1> HIDE DEF a, b
<1>9. a + k - 1 + Width(1) = b + (k - 1) /\ a + Width(1) = b + 0 BY <1>1, <1>3, <1>5, <1>8
<1>10. QED BY <1>6, <1>7, <1>9 DEF Slot, WordOf, a

(* The words the endpoints may go to are words of level 1, none twice. *)
LEMMA SpacesTyped ==
  ASSUME NEW hier
  PROVE  Spaces(hier) \in Seq(0 .. Width(1) \div Word - 1)
<1> DEFINE used(i) == Cardinality(Taken(hier, Chunk(i)))
           words == {i \in 0 .. Width(1) \div Word - 1 : used(i) < Crowded}
           rank == [i \in words |-> used(i) * Width(1) + i]
<1>0. Width(1) \in Nat /\ Word \in Nat \ {0}
  <2>1. 1 \in 0 .. Levels BY LevelsNat
  <2>2. QED BY <2>1, WidthNat, LevelsNat
<1>1. Width(1) \div Word \in Int BY <1>0
<1>2. IsFiniteSet(words)
  <2>1. IsFiniteSet(0 .. Width(1) \div Word - 1) BY <1>1, FS_Interval
  <2>2. words \subseteq 0 .. Width(1) \div Word - 1 OBVIOUS
  <2>3. QED BY <2>1, <2>2, FS_Subset
<1>3. ASSUME NEW i \in words PROVE rank[i] \in Nat
  <2>1. i \in Nat BY <1>1
  <2>2. i * Word \in Int /\ i * Word + Word - 1 \in Int BY <1>0, <2>1
  <2>3. IsFiniteSet(Chunk(i)) BY <2>2, FS_Interval DEF Chunk
  <2>4. Taken(hier, Chunk(i)) \subseteq Chunk(i) BY DEF Taken
  <2>5. used(i) \in Nat BY <2>3, <2>4, FS_Subset, FS_CardinalityType
  <2> HIDE DEF used, words
  <2>6. used(i) * Width(1) \in Nat BY <1>0, <2>5
  <2>7. rank[i] = used(i) * Width(1) + i OBVIOUS
  <2>8. QED BY <2>1, <2>6, <2>7
<1>4. Spaces(hier) = SortedBy(words, rank) BY DEF Spaces
<1>5. words \subseteq 0 .. Width(1) \div Word - 1 OBVIOUS
<1> HIDE DEF words, rank
<1>6. Spaces(hier) \in Seq(words) BY <1>2, <1>3, <1>4, SortedInside
<1>7. QED BY <1>5, <1>6, Wider

----------------------------------------------------------------------------
LEMMA HeadTail ==
  ASSUME NEW T, NEW s \in Seq(T), s # <<>>, IsInjective(s)
  PROVE  /\ Head(s) \in T /\ Tail(s) \in Seq(T) /\ IsInjective(Tail(s))
         /\ Head(s) \in ToSet(s) /\ Head(s) \notin ToSet(Tail(s)) /\ ToSet(Tail(s)) \subseteq ToSet(s)
<1> DEFINE n == Len(s)
           t == Tail(s)
           m == n - 1
<1>1. DOMAIN s = 1 .. n /\ n \in Nat /\ \A i \in 1 .. n : s[i] \in T /\ s[i] \in ToSet(s) BY ToSetOf
<1>2. n # 0 /\ Head(s) = s[1] /\ t \in Seq(T) /\ Len(t) = m /\ \A i \in 1 .. m : t[i] = s[i + 1]
  OBVIOUS
<1> HIDE DEF t
<1>3. DOMAIN t = 1 .. m /\ \A x \in ToSet(t) : \E i \in 1 .. m : t[i] = x
  BY <1>2, ToSetOf
<1> HIDE DEF n
<1>4. 1 \in 1 .. n /\ m \in Nat /\ \A i \in 1 .. m : i + 1 \in 1 .. n /\ i + 1 # 1 BY <1>1, <1>2
<1> HIDE DEF m
<1>5. \A a, b \in 1 .. n : s[a] = s[b] => a = b BY <1>1 DEF IsInjective
<1>6. IsInjective(t)
  <2>1. SUFFICES ASSUME NEW a \in 1 .. m, NEW b \in 1 .. m, t[a] = t[b] PROVE a = b
    BY <1>3 DEF IsInjective
  <2>2. s[a + 1] = s[b + 1] BY <1>2, <2>1
  <2>3. a + 1 = b + 1 BY <1>4, <1>5, <2>2
  <2>4. QED BY <1>4, <2>3
<1>7. Head(s) \notin ToSet(t)
  <2>1. SUFFICES ASSUME s[1] \in ToSet(t) PROVE FALSE BY <1>2
  <2>2. PICK i \in 1 .. m : t[i] = s[1] BY <1>3, <2>1
  <2>3. s[i + 1] = s[1] BY <1>2, <2>2
  <2>4. QED BY <1>4, <1>5, <2>3
<1>8. ToSet(t) \subseteq ToSet(s)
  <2>1. SUFFICES ASSUME NEW x \in ToSet(t) PROVE x \in ToSet(s) OBVIOUS
  <2>2. PICK i \in 1 .. m : t[i] = x BY <1>3
  <2>3. QED BY <1>1, <1>2, <1>4, <2>2
<1>9. QED BY <1>1, <1>2, <1>4, <1>6, <1>7, <1>8 DEF t

----------------------------------------------------------------------------
(* A pin placed on level 1. *)
LowPins(g) == {p \in DOMAIN g.level : g.level[p] <= 1}

(* A pin of level 0 or 1 fits any free slot of level 1 of a sound          *)
(* hierarchy.                                                              *)
LEMMA PlacedLow ==
  ASSUME NEW g, GraphOk(g), NEW hier, HierOk(g, hier), NEW j \in Slot(1), hier[1][j] = Free,
         NEW p \in LowPins(g)
  PROVE  LET placed == PlaceBit(g, hier, 1, j, p) IN
         /\ HierOk(g, placed) /\ Grows(hier, placed) /\ placed[1][j] = p
         /\ Visited(placed) = Visited(hier) \cup {p}
<1> DEFINE placed == PlaceBit(g, hier, 1, j, p)
<1>0. 1 \in 1 .. Levels /\ p \in DOMAIN g.level /\ g.level[p] <= 1 BY LevelsNat DEF LowPins
<1>1. /\ HierOk(g, placed) /\ Grows(hier, placed) /\ placed[1][j] = p
      /\ \A l \in 1 + 1 .. Levels : placed[l] = hier[l]
      /\ \A i \in Slot(1) : i # j => placed[1][i] = hier[1][i]
  <2>1. Clear(hier, 1) BY DEF HierOk
  <2>2. QED BY <1>0, <2>1, PlaceKeeps
<1>2. p # Free BY <1>0, PinOk
<1> HIDE DEF placed
<1>3. \A l \in 1 .. Levels : l = 1 \/ l \in 1 + 1 .. Levels BY LevelsNat
<1>4. Visited(hier) \subseteq Visited(placed) BY <1>1, VisitedGrows
<1>5. p \in Visited(placed) BY <1>0, <1>1, <1>2, VisitedIs
<1>6. ASSUME NEW x \in Visited(placed) PROVE x \in Visited(hier) \cup {p}
  <2>1. x # Free /\ \E h \in 1 .. Levels : \E i \in Slot(h) : placed[h][i] = x BY <1>6, VisitedIs
  <2>2. PICK h \in 1 .. Levels : \E i \in Slot(h) : placed[h][i] = x BY <2>1
  <2>3. PICK i \in Slot(h) : placed[h][i] = x BY <2>2
  <2>4. x = p \/ hier[h][i] = x
    <3>1. CASE h = 1 BY <1>1, <2>3, <3>1
    <3>2. CASE h \in 1 + 1 .. Levels BY <1>1, <2>3, <3>2
    <3>3. QED BY <1>3, <3>1, <3>2
  <2>5. QED BY <2>1, <2>4, VisitedIs
<1>7. Visited(placed) = Visited(hier) \cup {p} BY <1>4, <1>5, <1>6
<1>8. QED BY <1>1, <1>7 DEF placed

----------------------------------------------------------------------------
(* The words of level 1 being filled: the pins still to place are not in   *)
(* the hierarchy, and those done are in one of the words.                  *)
InWords(hier, words, x) == \E j \in Slot(1) : hier[1][j] = x /\ WordOf(1, j) \in words
Filling(g, base, words, st) ==
  /\ st = [hier |-> st.hier, todo |-> st.todo, done |-> st.done, outs |-> st.outs, more |-> st.more]
  /\ HierOk(g, st.hier) /\ Grows(base, st.hier)
  /\ st.todo \in Seq(LowPins(g)) /\ IsInjective(st.todo)
  /\ ToSet(st.todo) \subseteq g.goals /\ ToSet(st.todo) \cap Visited(st.hier) = {}
  /\ st.done \in Seq(DOMAIN g.level) /\ IsInjective(st.done)
  /\ ToSet(st.done) \subseteq g.goals \cap Visited(st.hier)
  /\ \A x \in ToSet(st.done) : InWords(st.hier, words, x)

LEMMA StillInWords ==
  ASSUME NEW old, NEW new, Grows(old, new), NEW words, NEW x, x # Free, InWords(old, words, x)
  PROVE  InWords(new, words, x)
<1>1. 1 \in 0 .. Levels BY LevelsNat
<1>2. QED BY <1>1 DEF InWords, Grows

(* Filling a slot keeps that. *)
LEMMA SlotFilled ==
  ASSUME NEW g, GraphOk(g), NEW base, NEW words, NEW st, Filling(g, base, words, st),
         NEW j \in Slot(1), WordOf(1, j) \in words
  PROVE  LET r == FillSlot(g, st, j) IN
         Filling(g, base, words, r) /\ r.outs = st.outs /\ r.more = st.more
<1> DEFINE r == FillSlot(g, st, j)
           p == Head(st.todo)
           placed == PlaceBit(g, st.hier, 1, j, p)
           x == st.hier[1][j]
<1>0. 1 \in 0 .. Levels /\ 1 \in 1 .. Levels BY LevelsNat
<1>1. /\ st = [hier |-> st.hier, todo |-> st.todo, done |-> st.done, outs |-> st.outs, more |-> st.more]
      /\ HierOk(g, st.hier) /\ Grows(base, st.hier)
      /\ st.todo \in Seq(LowPins(g)) /\ IsInjective(st.todo)
      /\ ToSet(st.todo) \subseteq g.goals /\ ToSet(st.todo) \cap Visited(st.hier) = {}
      /\ st.done \in Seq(DOMAIN g.level) /\ IsInjective(st.done)
      /\ ToSet(st.done) \subseteq g.goals \cap Visited(st.hier)
      /\ \A y \in ToSet(st.done) : InWords(st.hier, words, y)
  BY DEF Filling
<1>2. \A y \in DOMAIN g.level : y # Free BY PinOk
<1>3. r = IF st.todo = <<>> THEN st
          ELSE IF x = Free
          THEN [st EXCEPT !.hier = placed, !.done = Append(@, p), !.todo = Tail(@)]
          ELSE [st EXCEPT !.done = IF x \in g.goals \ ToSet(@) THEN Append(@, x) ELSE @]
  BY DEF FillSlot
<1> HIDE DEF r, p, placed, x
<1>4. CASE st.todo = <<>> BY <1>3, <1>4 DEF r
<1>5. CASE st.todo # <<>> /\ x = Free
  <2>1. /\ p \in LowPins(g) /\ Tail(st.todo) \in Seq(LowPins(g)) /\ IsInjective(Tail(st.todo))
        /\ p \in ToSet(st.todo) /\ p \notin ToSet(Tail(st.todo)) /\ ToSet(Tail(st.todo)) \subseteq ToSet(st.todo)
    BY <1>1, <1>5, HeadTail DEF p
  <2>2. /\ HierOk(g, placed) /\ Grows(st.hier, placed) /\ placed[1][j] = p
        /\ Visited(placed) = Visited(st.hier) \cup {p}
    BY <1>1, <1>5, <2>1, PlacedLow DEF placed, x
  <2>3. p \in DOMAIN g.level /\ p \notin ToSet(st.done) /\ p \in g.goals BY <1>1, <2>1 DEF LowPins
  <2> DEFINE done == Append(st.done, p)
             todo == Tail(st.todo)
  <2>4. done \in Seq(DOMAIN g.level) /\ ToSet(done) = ToSet(st.done) \cup {p} BY <1>1, <2>3, AppendedSet
  <2>5. IsInjective(done) BY <1>1, <2>3, AppendedOnce
  <2>6. r = [st EXCEPT !.hier = placed, !.done = Append(@, p), !.todo = Tail(@)] BY <1>3, <1>5
  <2>7. /\ r = [hier |-> r.hier, todo |-> r.todo, done |-> r.done, outs |-> r.outs, more |-> r.more]
        /\ r.hier = placed /\ r.todo = todo /\ r.done = done /\ r.outs = st.outs /\ r.more = st.more
    <3> HIDE DEF todo, done
    <3>1. st = [hier |-> st.hier, todo |-> st.todo, done |-> st.done, outs |-> st.outs, more |-> st.more]
      BY <1>1
    <3>2. QED BY <2>6, <3>1 DEF todo, done
  <2> HIDE DEF todo, done
  <2>8. Grows(base, placed) BY <1>1, <2>2, GrowsOn
  <2>9. ASSUME NEW y \in ToSet(done) PROVE InWords(placed, words, y)
    <3>1. CASE y = p BY <2>2, <3>1 DEF InWords
    <3>2. CASE y \in ToSet(st.done)
      <4>1. y # Free BY <1>1, <1>2, <3>2, VisitedIs
      <4>2. QED BY <1>1, <2>2, <3>2, <4>1, StillInWords
    <3>3. QED BY <2>4, <2>9, <3>1, <3>2
  <2>10. ToSet(todo) \subseteq g.goals /\ ToSet(todo) \cap Visited(placed) = {} BY <1>1, <2>1, <2>2 DEF todo
  <2>11. ToSet(done) \subseteq g.goals \cap Visited(placed) BY <1>1, <2>2, <2>3, <2>4
  <2>12. todo \in Seq(LowPins(g)) /\ IsInjective(todo) BY <2>1 DEF todo
  <2>13. Filling(g, base, words, r) BY <2>2, <2>4, <2>5, <2>7, <2>8, <2>9, <2>10, <2>11, <2>12 DEF Filling
  <2>14. QED BY <2>7, <2>13 DEF r
<1>6. CASE st.todo # <<>> /\ x # Free
  <2> DEFINE done == IF x \in g.goals \ ToSet(st.done) THEN Append(st.done, x) ELSE st.done
  <2>1. r = [st EXCEPT !.done = IF x \in g.goals \ ToSet(@) THEN Append(@, x) ELSE @] BY <1>3, <1>6
  <2>2. /\ r = [hier |-> r.hier, todo |-> r.todo, done |-> r.done, outs |-> r.outs, more |-> r.more]
        /\ r.hier = st.hier /\ r.todo = st.todo /\ r.done = done /\ r.outs = st.outs /\ r.more = st.more
    <3>1. st = [hier |-> st.hier, todo |-> st.todo, done |-> st.done, outs |-> st.outs, more |-> st.more]
      BY <1>1
    <3>2. QED BY <2>1, <3>1
  <2>3. x \in Visited(st.hier) BY <1>0, <1>6, VisitedIs DEF x
  <2>4. x \in DOMAIN g.level BY <1>1, <2>3, VisitedTyped
  <2>5. InWords(st.hier, words, x) BY DEF InWords, x
  <2>6. /\ done \in Seq(DOMAIN g.level) /\ IsInjective(done)
        /\ ToSet(done) \subseteq g.goals \cap Visited(st.hier)
        /\ \A y \in ToSet(done) : InWords(st.hier, words, y)
    <3>1. CASE x \in g.goals \ ToSet(st.done)
      <4>1. done = Append(st.done, x) BY <3>1
      <4> HIDE DEF done
      <4>2. done \in Seq(DOMAIN g.level) /\ ToSet(done) = ToSet(st.done) \cup {x} BY <1>1, <2>4, <4>1, AppendedSet
      <4>3. IsInjective(done) BY <1>1, <2>4, <3>1, <4>1, AppendedOnce
      <4>4. QED BY <1>1, <2>3, <2>5, <3>1, <4>2, <4>3
    <3>2. CASE ~(x \in g.goals \ ToSet(st.done)) BY <1>1, <3>2
    <3>3. QED BY <3>1, <3>2
  <2> HIDE DEF done
  <2>7. Filling(g, base, words, r) BY <1>1, <2>2, <2>6 DEF Filling
  <2>8. QED BY <2>2, <2>7 DEF r
<1>7. QED BY <1>4, <1>5, <1>6

LEMMA MoreInWords ==
  ASSUME NEW g, NEW base, NEW words, NEW wider, words \subseteq wider, NEW st, Filling(g, base, words, st)
  PROVE  Filling(g, base, wider, st)
BY DEF Filling, InWords

FillStep(c, st, j) == FillSlot(c.g, st, j)
FillInv(c, i, st) == Filling(c.g, c.base, c.words, st) /\ st.outs = c.outs /\ st.more = c.more
FillFold == INSTANCE FoldProofs WITH Op <- FillStep, Inv <- FillInv

(* A word, slot by slot. *)
LEMMA WordFilled ==
  ASSUME NEW g, GraphOk(g), NEW base, NEW words, NEW st, Filling(g, base, words, st),
         NEW w \in 0 .. Width(1) \div Word - 1, (w * Word + Width(1)) \div Word \in words
  PROVE  LET r == FillWord(g, st, w) IN
         Filling(g, base, words, r) /\ r.outs = st.outs /\ r.more = st.more
<1> DEFINE c == [g |-> g, base |-> base, words |-> words, outs |-> st.outs, more |-> st.more]
           seq == [k \in 1 .. Word |-> w * Word + k - 1]
<1>1. Word \in Nat BY LevelsNat
<1>2. DOMAIN seq = 1 .. Word OBVIOUS
<1>3. /\ c.g = g /\ c.base = base /\ c.words = words /\ c.outs = st.outs /\ c.more = st.more OBVIOUS
<1>4. FillInv(c, 0, st) BY <1>3 DEF FillInv
<1>5. FillFold!Steps(c, seq)
  <2>1. SUFFICES ASSUME NEW k \in 1 .. Word, NEW s, FillInv(c, k - 1, s)
                 PROVE  FillInv(c, k, FillStep(c, s, seq[k]))
    BY <1>2 DEF FillFold!Steps
  <2> DEFINE j == seq[k]
  <2>2. j = w * Word + k - 1 OBVIOUS
  <2> HIDE DEF seq, j, c
  <2>3. j \in Slot(1) /\ WordOf(1, j) \in words BY <2>2, Level1Word
  <2>4. Filling(g, base, words, s) /\ s.outs = st.outs /\ s.more = st.more BY <1>3, <2>1 DEF FillInv
  <2> DEFINE r == FillSlot(g, s, j)
  <2>5. Filling(g, base, words, r) /\ r.outs = s.outs /\ r.more = s.more BY <2>3, <2>4, SlotFilled
  <2>6. FillStep(c, s, j) = r BY <1>3 DEF FillStep
  <2> HIDE DEF r
  <2>7. FillInv(c, k, r) BY <1>3, <2>4, <2>5 DEF FillInv
  <2>8. QED BY <2>6, <2>7 DEF j
<1>6. FillInv(c, Word, FillFold!Folded(c, st, seq))
  <2> HIDE DEF c, seq
  <2>1. QED BY <1>1, <1>2, <1>4, <1>5, FillFold!FoldKeeps
<1>7. FillFold!Folded(c, st, seq) = FillWord(g, st, w)
  BY DEF FillWord, FillFold!Folded, FillStep, FoldLeft, MapThenFoldSet, Max,
         FillFold!Highest
<1>8. QED BY <1>3, <1>6, <1>7 DEF FillInv

(* The words in turn. *)
PushStep(c, st, w) == PushWord(c.g, st, w, c.untouched)
PushInv(c, i, st) ==
  Filling(c.g, c.base, ToSet(st.outs), st) /\ st.outs \in Seq(0 .. Width(0) \div Word - 1)
PushFold == INSTANCE FoldProofs WITH Op <- PushStep, Inv <- PushInv

(* Words are filled or left alone; the words of the endpoints done go out. *)
LEMMA WordPushed ==
  ASSUME NEW g, GraphOk(g), NEW base, NEW st, Filling(g, base, ToSet(st.outs), st),
         st.outs \in Seq(0 .. Width(0) \div Word - 1),
         NEW w \in 0 .. Width(1) \div Word - 1, NEW untouched
  PROVE  LET r == PushWord(g, st, w, untouched) IN
         Filling(g, base, ToSet(r.outs), r) /\ r.outs \in Seq(0 .. Width(0) \div Word - 1)
<1> DEFINE o == (w * Word + Width(1)) \div Word
           r == PushWord(g, st, w, untouched)
           filled == FillWord(g, st, w)
           W == 0 .. Width(0) \div Word - 1
           wider == ToSet(st.outs) \cup {o}
<1>1. o \in W
  <2>1. Word \in Nat \ {0} /\ 1 \in 1 .. Word /\ 1 \in 1 .. Levels BY LevelsNat
  <2>2. w * Word + 1 - 1 \in Slot(1) /\ WordOf(1, w * Word + 1 - 1) = o BY <2>1, Level1Word
  <2> HIDE DEF o
  <2>3. WordOf(1, w * Word + 1 - 1) \in W BY <2>1, <2>2, WordOfSlot
  <2>4. QED BY <2>2, <2>3
<1>2. Filling(g, base, wider, filled) /\ filled.outs = st.outs /\ filled.more = st.more
  <2>1. Filling(g, base, wider, st)
    <3>1. ToSet(st.outs) \subseteq wider OBVIOUS
    <3> HIDE DEF wider
    <3>2. QED BY <3>1, MoreInWords
  <2>2. o \in wider OBVIOUS
  <2> HIDE DEF wider
  <2>3. QED BY <2>1, <2>2, WordFilled
<1>3. r = IF ~st.more \/ (untouched # {} /\ Len(st.todo) < Room(st, w)) THEN [st EXCEPT !.more = FALSE]
          ELSE [filled EXCEPT !.outs = Append(@, o)]
  BY DEF PushWord
<1> HIDE DEF r, filled, o, wider, W
<1>4. CASE ~st.more \/ (untouched # {} /\ Len(st.todo) < Room(st, w))
  <2>1. r = [st EXCEPT !.more = FALSE] BY <1>3, <1>4
  <2>2. /\ st = [hier |-> st.hier, todo |-> st.todo, done |-> st.done, outs |-> st.outs, more |-> st.more]
        /\ Filling(g, base, ToSet(st.outs), st)
    BY DEF Filling
  <2>3. /\ r = [hier |-> r.hier, todo |-> r.todo, done |-> r.done, outs |-> r.outs, more |-> r.more]
        /\ r.hier = st.hier /\ r.todo = st.todo /\ r.done = st.done /\ r.outs = st.outs
    BY <2>1, <2>2
  <2>4. Filling(g, base, ToSet(r.outs), r) BY <2>2, <2>3 DEF Filling
  <2>5. QED BY <2>3, <2>4 DEF r
<1>5. CASE ~(~st.more \/ (untouched # {} /\ Len(st.todo) < Room(st, w)))
  <2>1. r = [filled EXCEPT !.outs = Append(@, o)] BY <1>3, <1>5
  <2>2. filled = [hier |-> filled.hier, todo |-> filled.todo, done |-> filled.done,
                  outs |-> filled.outs, more |-> filled.more]
    BY <1>2 DEF Filling
  <2>3. /\ r = [hier |-> r.hier, todo |-> r.todo, done |-> r.done, outs |-> r.outs, more |-> r.more]
        /\ r.hier = filled.hier /\ r.todo = filled.todo /\ r.done = filled.done
        /\ r.outs = Append(filled.outs, o)
    BY <2>1, <2>2
  <2>4. r.outs = Append(st.outs, o) BY <1>2, <2>3
  <2> DEFINE outs == st.outs
  <2>5. outs \in Seq(W) BY DEF W
  <2> HIDE DEF outs
  <2>6. Append(outs, o) \in Seq(W) /\ ToSet(Append(outs, o)) = ToSet(outs) \cup {o} BY <1>1, <2>5, AppendedSet
  <2>7. r.outs \in Seq(W) /\ ToSet(r.outs) = wider BY <2>4, <2>6 DEF wider, outs
  <2>8. Filling(g, base, wider, r) BY <1>2, <2>3 DEF Filling
  <2>9. QED BY <2>7, <2>8 DEF r, W
<1>6. QED BY <1>4, <1>5

(* What is done by pushing endpoints is in the words that go out           *)
(* (pe.rs:399).                                                            *)
LEMMA EndpointsPushed ==
  ASSUME NEW g, GraphOk(g), NEW hier, HierOk(g, hier), NEW untouched,
         NEW todo \in Seq(LowPins(g)), IsInjective(todo),
         ToSet(todo) \subseteq g.goals, ToSet(todo) \cap Visited(hier) = {}
  PROVE  LET st == PushEndpoints(g, hier, todo, Spaces(hier), untouched) IN
         Filling(g, hier, ToSet(st.outs), st) /\ st.outs \in Seq(0 .. Width(0) \div Word - 1)
<1> DEFINE c == [g |-> g, base |-> hier, untouched |-> untouched]
           base == [hier |-> hier, todo |-> todo, done |-> <<>>, outs |-> <<>>, more |-> TRUE]
           seq == Spaces(hier)
           n == Len(seq)
           W == 0 .. Width(1) \div Word - 1
<1>1. seq \in Seq(W) BY SpacesTyped
<1> HIDE DEF seq, W
<1>2. DOMAIN seq = 1 .. n /\ n \in Nat /\ \A i \in 1 .. n : seq[i] \in W
  BY <1>1, ToSetOf
<1> HIDE DEF n
<1>3. c.g = g /\ c.base = hier /\ c.untouched = untouched OBVIOUS
<1>4. PushInv(c, 0, base)
  <2>1. /\ base.hier = hier /\ base.todo = todo /\ base.done = <<>> /\ base.outs = <<>>
        /\ base = [hier |-> base.hier, todo |-> base.todo, done |-> base.done,
                   outs |-> base.outs, more |-> base.more] OBVIOUS
  <2> HIDE DEF base, c
  <2>2. ToSet(<<>>) = {} /\ IsInjective(<<>>) BY DEF ToSet, IsInjective
  <2>3. Grows(hier, hier) BY DEF Grows
  <2>4. <<>> \in Seq(0 .. Width(0) \div Word - 1) /\ <<>> \in Seq(DOMAIN g.level) OBVIOUS
  <2>5. Filling(g, hier, {}, base) BY <2>1, <2>2, <2>3, <2>4 DEF Filling
  <2>6. QED BY <1>3, <2>1, <2>2, <2>4, <2>5 DEF PushInv
<1>5. PushFold!Steps(c, seq)
  <2>1. SUFFICES ASSUME NEW i \in 1 .. n, NEW s, PushInv(c, i - 1, s)
                 PROVE  PushInv(c, i, PushStep(c, s, seq[i]))
    BY <1>2 DEF PushFold!Steps
  <2> HIDE DEF c
  <2>2. Filling(g, hier, ToSet(s.outs), s) /\ s.outs \in Seq(0 .. Width(0) \div Word - 1)
    BY <1>3, <2>1 DEF PushInv
  <2> DEFINE w == seq[i]
             r == PushWord(g, s, w, untouched)
  <2>3. w \in 0 .. Width(1) \div Word - 1 BY <1>2 DEF W
  <2> HIDE DEF w
  <2>4. Filling(g, hier, ToSet(r.outs), r) /\ r.outs \in Seq(0 .. Width(0) \div Word - 1)
    BY <2>2, <2>3, WordPushed
  <2>5. PushStep(c, s, w) = r BY <1>3 DEF PushStep
  <2> HIDE DEF r
  <2>6. PushInv(c, i, r) BY <1>3, <2>4 DEF PushInv
  <2>7. QED BY <2>5, <2>6 DEF w
<1>6. PushInv(c, n, PushFold!Folded(c, base, seq))
  <2> HIDE DEF c, base
  <2>1. QED BY <1>2, <1>4, <1>5, PushFold!FoldKeeps
<1>7. PushFold!Folded(c, base, seq) = PushEndpoints(g, hier, todo, Spaces(hier), untouched)
  BY DEF PushEndpoints, PushFold!Folded, PushStep, FoldLeft, MapThenFoldSet, Max, seq,
         PushFold!Highest
<1>8. QED BY <1>3, <1>6, <1>7 DEF PushInv

----------------------------------------------------------------------------
(* The other pins due on level 1. *)
Settled(g, base, pins, i, rest) ==
  /\ rest = [fits |-> rest.fits, hier |-> rest.hier]
  /\ rest.fits \in BOOLEAN
  /\ HierOk(g, rest.hier) /\ Grows(base, rest.hier)
  /\ rest.fits => \A k \in 1 .. i : pins[k] \in Visited(rest.hier)
RestStep(c, rest, p) == PlaceNext(c.g, rest, p)
RestInv(c, i, rest) == Settled(c.g, c.base, c.pins, i, rest)
RestFold == INSTANCE FoldProofs WITH Op <- RestStep, Inv <- RestInv

(* A necessary pin takes a free slot of level 1. *)
LEMMA NextPlaced ==
  ASSUME NEW g, GraphOk(g), NEW base, NEW n \in Nat, NEW pins \in [1 .. n -> LowPins(g)],
         NEW i \in 1 .. n, NEW rest, Settled(g, base, pins, i - 1, rest)
  PROVE  Settled(g, base, pins, i, PlaceNext(g, rest, pins[i]))
<1> DEFINE open == OpenSlots(rest.hier)
           j == Min(open)
           p == pins[i]
           placed == PlaceBit(g, rest.hier, 1, j, p)
           r == PlaceNext(g, rest, p)
<1>1. /\ rest = [fits |-> rest.fits, hier |-> rest.hier] /\ rest.fits \in BOOLEAN
      /\ HierOk(g, rest.hier) /\ Grows(base, rest.hier)
      /\ rest.fits => \A k \in 1 .. i - 1 : pins[k] \in Visited(rest.hier)
  BY DEF Settled
<1>2. r = IF open = {} THEN [rest EXCEPT !.fits = FALSE]
          ELSE [rest EXCEPT !.hier = PlaceBit(g, @, 1, Min(OpenSlots(@)), p)]
  BY DEF PlaceNext
<1> HIDE DEF r
<1>3. CASE open = {}
  <2>1. r = [fits |-> FALSE, hier |-> rest.hier] BY <1>1, <1>2, <1>3
  <2>2. QED BY <1>1, <2>1 DEF Settled, r
<1>4. CASE open # {}
  <2>1. open \in SUBSET Nat
    <3>1. \A x \in Slot(1) : x \in Nat BY DEF Slot
    <3>2. QED BY <3>1 DEF OpenSlots
  <2>2. j \in open
    <3> HIDE DEF open
    <3>1. QED BY <1>4, <2>1, MinIs
  <2>3. j \in Slot(1) /\ rest.hier[1][j] = Free BY <2>2 DEF OpenSlots
  <2>4. r = [rest EXCEPT !.hier = placed] BY <1>2, <1>4
  <2>5. p \in LowPins(g) OBVIOUS
  <2> HIDE DEF open, j, p
  <2>6. /\ HierOk(g, placed) /\ Grows(rest.hier, placed)
        /\ Visited(placed) = Visited(rest.hier) \cup {p}
    BY <1>1, <2>3, <2>5, PlacedLow
  <2> HIDE DEF placed
  <2>7. r = [fits |-> rest.fits, hier |-> placed] BY <1>1, <2>4
  <2>8. Grows(base, placed) BY <1>1, <2>6, GrowsOn
  <2>9. rest.fits => \A k \in 1 .. i : pins[k] \in Visited(placed)
    <3>1. \A k \in 1 .. i : k \in 1 .. i - 1 \/ k = i OBVIOUS
    <3>2. QED BY <1>1, <2>6, <3>1 DEF p
  <2>10. r.fits = rest.fits /\ r.hier = placed /\ r = [fits |-> r.fits, hier |-> r.hier] BY <2>7
  <2>11. Settled(g, base, pins, i, r) BY <1>1, <2>6, <2>8, <2>9, <2>10 DEF Settled
  <2>12. QED BY <2>11 DEF r, p
<1>5. QED BY <1>3, <1>4

(* If they fit, all the necessary pins are in the hierarchy, and one slot  *)
(* is free (pe.rs:435).                                                    *)
LEMMA RestPlaced ==
  ASSUME NEW g, GraphOk(g), NEW st, HierOk(g, st.hier), NEW necessary \in Seq(LowPins(g)),
         ToSet(st.done) \subseteq Visited(st.hier)
  PROVE  LET rest == PlaceRest(g, st, necessary) IN
         /\ HierOk(g, rest.hier) /\ Grows(st.hier, rest.hier)
         /\ rest.fits => ToSet(necessary) \subseteq Visited(rest.hier)
<1> DEFINE missing == ToSet(necessary) \ (Visited(st.hier) \cup ToSet(st.done))
           pins == Kept(necessary, missing)
           n == Len(pins)
           c == [g |-> g, base |-> st.hier, pins |-> pins]
           base == [fits |-> TRUE, hier |-> st.hier]
           placed == FoldLeft(LAMBDA rest, p : PlaceNext(g, rest, p), base, pins)
           rest == PlaceRest(g, st, necessary)
<1>1. rest = [placed EXCEPT !.fits = @ /\ OpenSlots(placed.hier) # {}] BY DEF PlaceRest
<1>2. pins \in Seq(LowPins(g)) /\ ToSet(pins) = ToSet(necessary) \cap missing BY KeptIs
<1> HIDE DEF pins, missing, rest
<1>3. /\ DOMAIN pins = 1 .. n /\ n \in Nat /\ \A k \in 1 .. n : pins[k] \in LowPins(g)
      /\ \A x \in ToSet(pins) : \E k \in 1 .. n : pins[k] = x
  BY <1>2, ToSetOf
<1>4. pins \in [1 .. n -> LowPins(g)] BY <1>2, <1>3
<1> HIDE DEF n
<1>5. c.g = g /\ c.base = st.hier /\ c.pins = pins OBVIOUS
<1>6. RestInv(c, 0, base)
  <2>1. base.fits = TRUE /\ base.hier = st.hier OBVIOUS
  <2>2. base = [fits |-> base.fits, hier |-> base.hier] OBVIOUS
  <2> HIDE DEF base, c
  <2>3. Grows(st.hier, st.hier) BY DEF Grows
  <2>4. \A k \in 1 .. 0 : pins[k] \in Visited(base.hier) OBVIOUS
  <2>5. Settled(g, st.hier, pins, 0, base) BY <2>1, <2>2, <2>3, <2>4 DEF Settled
  <2>6. QED BY <1>5, <2>5 DEF RestInv
<1>7. RestFold!Steps(c, pins)
  <2>1. SUFFICES ASSUME NEW i \in 1 .. n, NEW s, RestInv(c, i - 1, s)
                 PROVE  RestInv(c, i, RestStep(c, s, pins[i]))
    BY <1>3 DEF RestFold!Steps
  <2> HIDE DEF c
  <2>2. Settled(g, st.hier, pins, i - 1, s) BY <1>5, <2>1 DEF RestInv
  <2>3. Settled(g, st.hier, pins, i, PlaceNext(g, s, pins[i])) BY <1>3, <1>4, <2>2, NextPlaced
  <2>4. QED BY <1>5, <2>3 DEF RestInv, RestStep
<1>8. RestInv(c, n, RestFold!Folded(c, base, pins))
  <2> HIDE DEF c, base
  <2>1. QED BY <1>3, <1>6, <1>7, RestFold!FoldKeeps
<1>9. RestFold!Folded(c, base, pins) = placed
  BY DEF RestFold!Folded, RestStep, FoldLeft, MapThenFoldSet, Max,
         RestFold!Highest
<1>10. Settled(g, st.hier, pins, n, placed) BY <1>5, <1>8, <1>9 DEF RestInv
<1> HIDE DEF placed
<1>11. placed = [fits |-> placed.fits, hier |-> placed.hier] /\ placed.fits \in BOOLEAN BY <1>10 DEF Settled
<1>12. rest.hier = placed.hier /\ (rest.fits => placed.fits)
  <2>1. rest = [fits |-> placed.fits /\ OpenSlots(placed.hier) # {}, hier |-> placed.hier] BY <1>1, <1>11
  <2>2. QED BY <2>1
<1>13. HierOk(g, rest.hier) /\ Grows(st.hier, rest.hier) BY <1>10, <1>12 DEF Settled
<1>14. rest.fits => ToSet(necessary) \subseteq Visited(rest.hier)
  <2>1. SUFFICES ASSUME rest.fits, NEW x \in ToSet(necessary) PROVE x \in Visited(rest.hier) OBVIOUS
  <2>2. Visited(st.hier) \subseteq Visited(rest.hier) BY <1>13, VisitedGrows
  <2>3. CASE x \in Visited(st.hier) \cup ToSet(st.done) BY <2>2, <2>3
  <2>4. CASE x \notin Visited(st.hier) \cup ToSet(st.done)
    <3>1. x \in ToSet(pins) BY <1>2, <2>4 DEF missing
    <3>2. QED BY <1>3, <1>10, <1>12, <2>1, <3>1 DEF Settled
  <2>5. QED BY <2>3, <2>4
<1>15. QED BY <1>13, <1>14 DEF rest

----------------------------------------------------------------------------
(* The words that hold a pin somewhere in the hierarchy.                   *)
OutWords == 0 .. Width(0) \div Word - 1
Covered(x, words, h) == \A j \in Slot(h) : x.hier[h][j] \in x.pins => WordOf(h, j) \in ToSet(words)

AddStep(c, words, k) == AddWord(c.x, words, c.h, k - 1)
AddInv(c, i, words) ==
  /\ words \in Seq(OutWords) /\ c.old \subseteq ToSet(words)
  /\ \A k \in 1 .. i : c.x.hier[c.h][k - 1] \in c.x.pins => WordOf(c.h, k - 1) \in ToSet(words)
AddFold == INSTANCE FoldProofs WITH Op <- AddStep, Inv <- AddInv

(* The words of a level. *)
LEMMA LevelCovered ==
  ASSUME NEW x, NEW words \in Seq(OutWords), NEW h \in 1 .. Levels
  PROVE  LET r == LevelWords(x, words, h) IN
         r \in Seq(OutWords) /\ ToSet(words) \subseteq ToSet(r) /\ Covered(x, r, h)
<1> DEFINE c == [x |-> x, h |-> h, old |-> ToSet(words)]
           n == Width(h)
           seq == [k \in 1 .. n |-> k]
<1>1. n \in Nat
  <2>1. h \in 0 .. Levels BY LevelsNat
  <2>2. QED BY <2>1, WidthNat
<1>2. Slot(h) = 0 .. n - 1 BY DEF Slot
<1> HIDE DEF n
<1>3. DOMAIN seq = 1 .. n /\ \A k \in 1 .. n : seq[k] = k OBVIOUS
<1>4. c.x = x /\ c.h = h /\ c.old = ToSet(words) OBVIOUS
<1> HIDE DEF c
<1>5. AddInv(c, 0, words) BY <1>4 DEF AddInv
<1>6. AddFold!Steps(c, seq)
  <2>1. SUFFICES ASSUME NEW i \in 1 .. n, NEW ws, AddInv(c, i - 1, ws)
                 PROVE  AddInv(c, i, AddStep(c, ws, i))
    BY <1>3 DEF AddFold!Steps
  <2> DEFINE j == i - 1
             o == WordOf(h, j)
             r == AddWord(x, ws, h, j)
             Good(k) == x.hier[h][k - 1] \in x.pins => WordOf(h, k - 1) \in ToSet(ws)
  <2>2. ws \in Seq(OutWords) /\ ToSet(words) \subseteq ToSet(ws) /\ \A k \in 1 .. i - 1 : Good(k)
    BY <1>4, <2>1 DEF AddInv
  <2>3. j \in Slot(h) BY <1>1, <1>2
  <2>4. o \in OutWords BY <2>3, WordOfSlot DEF OutWords
  <2>5. r = IF x.hier[h][j] \in x.pins /\ ~Contains(ws, o) THEN Append(ws, o) ELSE ws BY DEF AddWord
  <2>6. \A k \in 1 .. i : k \in 1 .. i - 1 \/ k - 1 = j OBVIOUS
  <2> HIDE DEF j, o, r
  <2>7. /\ r \in Seq(OutWords) /\ ToSet(ws) \subseteq ToSet(r)
        /\ x.hier[h][j] \in x.pins => o \in ToSet(r)
    <3>1. CASE x.hier[h][j] \in x.pins /\ ~Contains(ws, o)
      <4>1. r = Append(ws, o) BY <2>5, <3>1
      <4>2. r \in Seq(OutWords) /\ ToSet(r) = ToSet(ws) \cup {o} BY <2>2, <2>4, <4>1, AppendedSet
      <4>3. QED BY <4>2
    <3>2. CASE ~(x.hier[h][j] \in x.pins /\ ~Contains(ws, o))
      <4>1. r = ws BY <2>5, <3>2
      <4>2. Contains(ws, o) => o \in ToSet(ws) BY DEF Contains, ToSet
      <4>3. QED BY <2>2, <3>2, <4>1, <4>2
    <3>3. QED BY <3>1, <3>2
  <2>8. \A k \in 1 .. i : x.hier[h][k - 1] \in x.pins => WordOf(h, k - 1) \in ToSet(r)
    BY <2>2, <2>6, <2>7 DEF o
  <2>9. AddStep(c, ws, i) = r BY <1>4 DEF AddStep, r, j
  <2>10. QED BY <1>4, <2>2, <2>7, <2>8, <2>9 DEF AddInv
<1>7. AddInv(c, n, AddFold!Folded(c, words, seq))
  <2> HIDE DEF seq
  <2>1. QED BY <1>1, <1>3, <1>5, <1>6, AddFold!FoldKeeps
<1>8. AddFold!Folded(c, words, seq) = LevelWords(x, words, h)
  BY DEF c, n, LevelWords, AddFold!Folded, AddStep, FoldLeft, MapThenFoldSet, Max,
         AddFold!Highest
<1> DEFINE r == LevelWords(x, words, h)
<1>9. r \in Seq(OutWords) /\ ToSet(words) \subseteq ToSet(r) BY <1>4, <1>7, <1>8 DEF AddInv
<1>10. \A k \in 1 .. n : x.hier[h][k - 1] \in x.pins => WordOf(h, k - 1) \in ToSet(r)
  BY <1>4, <1>7, <1>8 DEF AddInv
<1> HIDE DEF r
<1>11. \A j \in Slot(h) : j + 1 \in 1 .. n /\ (j + 1) - 1 = j BY <1>1, <1>2
<1>12. Covered(x, r, h) BY <1>10, <1>11 DEF Covered
<1>13. QED BY <1>9, <1>12 DEF r

ScatterStep(c, words, h) == LevelWords(c, words, h)
ScatterInv(c, i, words) == words \in Seq(OutWords) /\ \A h \in 1 .. i : Covered(c, words, h)
ScatterFold == INSTANCE FoldProofs WITH Op <- ScatterStep, Inv <- ScatterInv

(* Each endpoint in the hierarchy has its word among the scattered ones    *)
(* (pe.rs:465).                                                            *)
LEMMA AllCovered ==
  ASSUME NEW hier, NEW pins, NEW words, words = ScatteredWords(hier, pins)
  PROVE  /\ words \in Seq(OutWords)
         /\ \A p \in Visited(hier) \cap pins :
              \E w \in ToSet(words) : \E i \in 0 .. Word - 1 : PinAt(hier, w * Word + i) = p
<1> DEFINE c == [hier |-> hier, pins |-> pins]
           seq == [h \in 1 .. Levels |-> h]
<1>1. Levels \in Nat BY LevelsNat
<1>2. DOMAIN seq = 1 .. Levels /\ \A h \in 1 .. Levels : seq[h] = h OBVIOUS
<1>3. c.hier = hier /\ c.pins = pins OBVIOUS
<1> HIDE DEF c
<1>4. ScatterInv(c, 0, <<>>) BY DEF ScatterInv
<1>5. ScatterFold!Steps(c, seq)
  <2>1. SUFFICES ASSUME NEW i \in 1 .. Levels, NEW ws, ScatterInv(c, i - 1, ws)
                 PROVE  ScatterInv(c, i, ScatterStep(c, ws, i))
    BY <1>2 DEF ScatterFold!Steps
  <2> DEFINE r == LevelWords(c, ws, i)
  <2>2. ws \in Seq(OutWords) /\ \A h \in 1 .. i - 1 : Covered(c, ws, h) BY <2>1 DEF ScatterInv
  <2>3. r \in Seq(OutWords) /\ ToSet(ws) \subseteq ToSet(r) /\ Covered(c, r, i) BY <2>2, LevelCovered
  <2>4. ScatterStep(c, ws, i) = r BY DEF ScatterStep
  <2>5. \A h \in 1 .. i : h \in 1 .. i - 1 \/ h = i OBVIOUS
  <2> HIDE DEF r
  <2>6. \A h \in 1 .. i - 1 : Covered(c, r, h) BY <2>2, <2>3 DEF Covered
  <2>7. QED BY <2>3, <2>4, <2>5, <2>6 DEF ScatterInv
<1>6. ScatterInv(c, Levels, ScatterFold!Folded(c, <<>>, seq))
  <2> HIDE DEF seq
  <2>1. QED BY <1>1, <1>2, <1>4, <1>5, ScatterFold!FoldKeeps
<1>7. ScatterFold!Folded(c, <<>>, seq) = words
  BY DEF c, ScatteredWords, ScatterFold!Folded, ScatterStep, FoldLeft, MapThenFoldSet, Max,
         ScatterFold!Highest
<1>8. words \in Seq(OutWords) /\ \A h \in 1 .. Levels : Covered(c, words, h) BY <1>6, <1>7 DEF ScatterInv
<1>9. ASSUME NEW p \in Visited(hier) \cap pins
      PROVE  \E w \in ToSet(words) : \E i \in 0 .. Word - 1 : PinAt(hier, w * Word + i) = p
  <2>1. \E h \in 1 .. Levels : \E j \in Slot(h) : hier[h][j] = p BY <1>9, VisitedIs
  <2>2. PICK h \in 1 .. Levels : \E j \in Slot(h) : hier[h][j] = p BY <2>1
  <2>3. PICK j \in Slot(h) : hier[h][j] = p BY <2>2
  <2>4. WordOf(h, j) \in ToSet(words) BY <1>3, <1>8, <1>9, <2>3 DEF Covered
  <2>5. \E i \in 0 .. Word - 1 : PinAt(hier, WordOf(h, j) * Word + i) = p BY <2>3, WordOfSlot
  <2>6. QED BY <2>4, <2>5
<1>10. QED BY <1>8, <1>9

----------------------------------------------------------------------------
(* A stage, part by part.                                                  *)
Stage(g, up) ==
  /\ up.g = g /\ HierOk(g, up.hier) /\ HasGate(g, up.hier)
  /\ up.necessary = Necessary(g, up.hier, ReverseLevels(g, up.hier))
  /\ up.inHier = g.goals \cap Visited(up.hier)

(* How a stage starts. *)
LEMMA Started ==
  ASSUME NEW g, GraphOk(g)
  PROVE  Stage(g, StartStage(g))
BY StartOk DEF Stage

(* What is necessary is of level 0 or 1. *)
LEMMA NecessaryLow ==
  ASSUME NEW g, GraphOk(g), NEW up, Stage(g, up)
  PROVE  /\ up.necessary \in Seq(LowPins(g)) /\ ToSet(up.necessary) \cap Visited(up.hier) = {}
         /\ \A p \in DOMAIN g.level \cap Level1Necessary(g, Visited(up.hier), ReverseLevels(g, up.hier)) :
              p \in ToSet(up.necessary)
<1> DEFINE rev == ReverseLevels(g, up.hier)
           nec == Necessary(g, up.hier, rev)
<1>1. /\ nec \in Seq(1 .. Len(g.aig))
      /\ \A p \in ToSet(nec) : p \in DOMAIN g.level /\ g.level[p] <= 1 /\ p \notin Visited(up.hier)
      /\ \A p \in DOMAIN g.level \cap Level1Necessary(g, Visited(up.hier), rev) : p \in ToSet(nec)
  BY NecessaryIs
<1>2. up.necessary = nec BY DEF Stage
<1> HIDE DEF nec, rev
<1>3. ToSet(nec) \subseteq LowPins(g) BY <1>1 DEF LowPins
<1>4. nec \in Seq(LowPins(g)) BY <1>1, <1>3, Narrower
<1>5. ToSet(nec) \cap Visited(up.hier) = {} BY <1>1
<1>6. QED BY <1>1, <1>2, <1>4, <1>5 DEF rev

(* The words of level 1. *)
LEMMA LevelPushed ==
  ASSUME NEW g, GraphOk(g), NEW up, Stage(g, up),
         NEW pins \in Seq(1 .. Len(g.aig)), IsInjective(pins), ToSet(pins) = g.goals
  PROVE  LET st == LevelUp(up, pins) IN
         /\ st.g = g /\ st.necessary = up.necessary /\ st.inHier = up.inHier
         /\ Filling(g, up.hier, ToSet(st.pushed.outs), st.pushed) /\ st.pushed.outs \in Seq(OutWords)
<1> DEFINE due == ToSet(up.necessary) \ up.inHier
           inLevel1 == Kept(pins, due)
           untouched == (up.g.goals \ up.inHier) \ ToSet(inLevel1)
           pushed == PushEndpoints(up.g, up.hier, inLevel1, Spaces(up.hier), untouched)
           st == LevelUp(up, pins)
<1>1. st = [g |-> up.g, necessary |-> up.necessary, inHier |-> up.inHier, untouched |-> untouched,
            pushed |-> pushed]
  BY DEF LevelUp, FillLevel1
<1>2. st.g = up.g /\ st.necessary = up.necessary /\ st.inHier = up.inHier /\ st.pushed = pushed BY <1>1
<1> HIDE DEF st
<1>3. inLevel1 \in Seq(1 .. Len(g.aig)) /\ ToSet(inLevel1) = ToSet(pins) \cap due /\ IsInjective(inLevel1)
  BY KeptIs
<1> HIDE DEF inLevel1
<1>4. up.necessary \in Seq(LowPins(g)) /\ ToSet(up.necessary) \cap Visited(up.hier) = {} BY NecessaryLow
<1>5. ToSet(up.necessary) \subseteq LowPins(g) BY <1>4, ToSetOf
<1>6. /\ ToSet(inLevel1) \subseteq g.goals /\ ToSet(inLevel1) \cap Visited(up.hier) = {}
      /\ ToSet(inLevel1) \subseteq LowPins(g)
  BY <1>3, <1>4, <1>5
<1>7. inLevel1 \in Seq(LowPins(g)) BY <1>3, <1>6, Narrower
<1>8. up.g = g /\ HierOk(g, up.hier) BY DEF Stage
<1>9. Filling(g, up.hier, ToSet(pushed.outs), pushed) /\ pushed.outs \in Seq(0 .. Width(0) \div Word - 1)
  <2> HIDE DEF untouched
  <2>1. QED BY <1>3, <1>6, <1>7, <1>8, EndpointsPushed
<1> HIDE DEF pushed
<1>10. QED BY <1>2, <1>8, <1>9 DEF OutWords, st

(* A pin is in a word that a stage writes out.                             *)
GoesOut(stage, p) ==
  \E w \in ToSet(stage.outs) : \E i \in 0 .. Word - 1 : PinAt(stage.hier, w * Word + i) = p

(* A stage that is not refused is sound, keeps to its words, writes out    *)
(* whatever it drops from the unrealized pins, and realizes no less than   *)
(* before.                                                                 *)
LEMMA StageClosed ==
  ASSUME NEW g, GraphOk(g), NEW up, Stage(g, up),
         NEW pins \in Seq(1 .. Len(g.aig)), IsInjective(pins), ToSet(pins) = g.goals,
         NEW written_ \in Nat, NEW limit, limit \in Int,
         ~LowerPart(LevelUp(up, pins), pins, written_, limit).refused
  PROVE  LET s == LowerPart(LevelUp(up, pins), pins, written_, limit) IN
         /\ HierOk(g, s.stage.hier) /\ Grows(up.hier, s.stage.hier)
         /\ ToSet(up.necessary) \subseteq Visited(s.stage.hier)
         /\ s.stage.outs \in Seq(OutWords) /\ written_ + Len(s.stage.outs) <= limit
         /\ s.realized = g.realized \cup Visited(s.stage.hier)
         /\ s.unrealized \in Seq(1 .. Len(g.aig)) /\ IsInjective(s.unrealized)
         /\ ToSet(s.unrealized) \subseteq g.goals
         /\ ToSet(LevelUp(up, pins).pushed.done) \cap ToSet(s.unrealized) = {}
         /\ \A p \in g.goals \ ToSet(s.unrealized) : GoesOut(s.stage, p)
<1> DEFINE st == LevelUp(up, pins)
           pushed == st.pushed
           rest == PlaceRest(st.g, pushed, st.necessary)
           left == st.inHier \ ToSet(pushed.done)
           more == ScatteredWords(rest.hier, left)
           last == st.untouched = {} /\ Within(written_ + Len(pushed.outs) + Len(more), limit)
           scattered == Kept(pins, left)
           outs == pushed.outs \o IF last THEN more ELSE <<>>
           gone == pushed.done \o IF last THEN scattered ELSE <<>>
           s == LowerPart(st, pins, written_, limit)
<1>1. s = [refused |-> ~Within(written_ + Len(pushed.outs), limit) \/ ~rest.fits,
           stage |-> [hier |-> rest.hier, outs |-> outs],
           unrealized |-> FoldLeft(SwapRemove, pins, gone),
           realized |-> st.g.realized \cup Visited(rest.hier)]
  BY DEF LowerPart, Scatter, CloseStage
<1>2. /\ st.g = g /\ st.necessary = up.necessary /\ st.inHier = up.inHier
      /\ Filling(g, up.hier, ToSet(pushed.outs), pushed) /\ pushed.outs \in Seq(OutWords)
  BY LevelPushed
<1>3. /\ Within(written_ + Len(pushed.outs), limit) /\ rest.fits
      /\ s.stage.hier = rest.hier /\ s.stage.outs = outs
      /\ s.unrealized = FoldLeft(SwapRemove, pins, gone)
      /\ s.realized = st.g.realized \cup Visited(rest.hier)
  <2> HIDE DEF rest, outs, gone, pushed, st
  <2>1. ~s.refused BY DEF st
  <2> HIDE DEF s
  <2>2. QED BY <1>1, <2>1
<1> HIDE DEF s, st, pushed
<1>4. /\ HierOk(g, pushed.hier) /\ Grows(up.hier, pushed.hier)
      /\ pushed.done \in Seq(DOMAIN g.level) /\ IsInjective(pushed.done)
      /\ ToSet(pushed.done) \subseteq g.goals \cap Visited(pushed.hier)
      /\ \A x \in ToSet(pushed.done) : InWords(pushed.hier, ToSet(pushed.outs), x)
  BY <1>2 DEF Filling
<1>5. up.necessary \in Seq(LowPins(g)) BY NecessaryLow
<1>6. /\ HierOk(g, rest.hier) /\ Grows(pushed.hier, rest.hier)
      /\ ToSet(up.necessary) \subseteq Visited(rest.hier)
  <2>1. ToSet(pushed.done) \subseteq Visited(pushed.hier) BY <1>4
  <2>2. rest = PlaceRest(g, pushed, up.necessary) BY <1>2
  <2> HIDE DEF rest
  <2>3. QED BY <1>3, <1>4, <1>5, <2>1, <2>2, RestPlaced
<1> HIDE DEF rest
<1>7. Grows(up.hier, rest.hier) BY <1>4, <1>6, GrowsOn
<1>8. /\ more \in Seq(OutWords)
      /\ \A p \in Visited(rest.hier) \cap left :
           \E w \in ToSet(more) : \E i \in 0 .. Word - 1 : PinAt(rest.hier, w * Word + i) = p
  <2>1. more = ScatteredWords(rest.hier, left) OBVIOUS
  <2> HIDE DEF left, more
  <2>2. QED BY <2>1, AllCovered
<1> HIDE DEF more
<1>9. scattered \in Seq(1 .. Len(g.aig)) /\ ToSet(scattered) = g.goals \cap left /\ IsInjective(scattered)
  BY KeptIs
<1>10. pushed.done \in Seq(1 .. Len(g.aig))
  <2>1. \A x \in DOMAIN g.level : x \in 1 .. Len(g.aig) BY PinOk
  <2>2. DOMAIN g.level \subseteq 1 .. Len(g.aig) BY <2>1
  <2>3. QED BY <1>4, <2>2, Wider
<1> HIDE DEF scattered, left
<1>11. /\ outs \in Seq(OutWords) /\ ToSet(pushed.outs) \subseteq ToSet(outs)
       /\ last => ToSet(more) \subseteq ToSet(outs)
       /\ last => Len(outs) = Len(pushed.outs) + Len(more)
       /\ ~last => Len(outs) = Len(pushed.outs)
  <2>1. CASE last
    <3>1. outs = pushed.outs \o more BY <2>1
    <3> HIDE DEF outs, last
    <3>2. QED BY <1>2, <1>8, <2>1, <3>1, JoinedOnce
  <2>2. CASE ~last
    <3>1. outs = pushed.outs \o <<>> BY <2>2
    <3> HIDE DEF outs, last
    <3>2. outs = pushed.outs BY <1>2, <3>1
    <3>3. QED BY <1>2, <2>2, <3>2
  <2>3. QED BY <2>1, <2>2
<1>12. /\ gone \in Seq(1 .. Len(g.aig)) /\ IsInjective(gone)
       /\ ToSet(gone) \subseteq g.goals
       /\ \A x \in ToSet(gone) : x \in ToSet(pushed.done) \/ (last /\ x \in left)
       /\ ToSet(pushed.done) \subseteq ToSet(gone)
  <2>1. CASE last
    <3>1. gone = pushed.done \o scattered BY <2>1
    <3>2. ToSet(pushed.done) \cap ToSet(scattered) = {} BY <1>9 DEF left
    <3> HIDE DEF gone, last
    <3>3. /\ gone \in Seq(1 .. Len(g.aig)) /\ ToSet(gone) = ToSet(pushed.done) \cup ToSet(scattered)
          /\ IsInjective(gone)
      BY <1>4, <1>9, <1>10, <3>1, <3>2, JoinedOnce
    <3>4. QED BY <1>4, <1>9, <2>1, <3>3
  <2>2. CASE ~last
    <3>1. gone = pushed.done \o <<>> BY <2>2
    <3>2. <<>> \in Seq(1 .. Len(g.aig)) /\ IsInjective(<<>>) /\ ToSet(<<>>) = {} BY DEF IsInjective, ToSet
    <3> HIDE DEF gone, last
    <3>3. /\ gone \in Seq(1 .. Len(g.aig)) /\ ToSet(gone) = ToSet(pushed.done) \cup ToSet(<<>>)
          /\ IsInjective(gone)
      BY <1>4, <1>10, <3>1, <3>2, JoinedOnce
    <3>4. QED BY <1>4, <3>2, <3>3
  <2>3. QED BY <2>1, <2>2
<1>13. written_ + Len(outs) <= limit
  <2>1. written_ + Len(pushed.outs) <= limit BY <1>3 DEF Within
  <2>2. Len(pushed.outs) \in Nat /\ Len(more) \in Nat BY <1>2, <1>8, ToSetOf
  <2>3. CASE last
    <3>1. written_ + Len(pushed.outs) + Len(more) <= limit BY <2>3 DEF Within
    <3>2. Len(outs) = Len(pushed.outs) + Len(more) BY <1>11, <2>3
    <3> HIDE DEF outs, last
    <3>3. QED BY <2>2, <3>1, <3>2
  <2>4. CASE ~last
    <3>1. Len(outs) = Len(pushed.outs) BY <1>11, <2>4
    <3> HIDE DEF outs, last
    <3>2. QED BY <2>1, <2>2, <3>1
  <2>5. QED BY <2>3, <2>4
<1> HIDE DEF outs, gone, last
<1>14. /\ s.unrealized \in Seq(1 .. Len(g.aig)) /\ IsInjective(s.unrealized)
       /\ ToSet(s.unrealized) = ToSet(pins) \ ToSet(gone)
  <2>1. gone \in Seq(ToSet(pins)) BY <1>12, Narrower
  <2>2. QED BY <1>3, <1>12, <2>1, AllRemoved
<1>15. ASSUME NEW p \in g.goals \ ToSet(s.unrealized) PROVE GoesOut(s.stage, p)
  <2>1. p \in ToSet(gone) BY <1>14, <1>15
  <2>2. CASE p \in ToSet(pushed.done)
    <3>1. InWords(pushed.hier, ToSet(pushed.outs), p) BY <1>4, <2>2
    <3>2. p # Free BY <1>4, <2>2, VisitedIs
    <3>3. InWords(rest.hier, ToSet(pushed.outs), p) BY <1>6, <3>1, <3>2, StillInWords
    <3>4. PICK j \in Slot(1) : rest.hier[1][j] = p /\ WordOf(1, j) \in ToSet(pushed.outs)
      BY <3>3 DEF InWords
    <3>5. 1 \in 1 .. Levels BY LevelsNat
    <3>6. \E i \in 0 .. Word - 1 : PinAt(rest.hier, WordOf(1, j) * Word + i) = p BY <3>4, <3>5, WordOfSlot
    <3>7. QED BY <1>3, <1>11, <3>4, <3>6 DEF GoesOut
  <2>3. CASE last /\ p \in left
    <3>1. p \in Visited(up.hier) BY <1>2, <2>3 DEF left, Stage
    <3>2. p \in Visited(rest.hier) BY <1>7, <3>1, VisitedGrows
    <3>3. PICK w \in ToSet(more) : \E i \in 0 .. Word - 1 : PinAt(rest.hier, w * Word + i) = p
      BY <1>8, <2>3, <3>2
    <3>4. QED BY <1>3, <1>11, <2>3, <3>3 DEF GoesOut
  <2>4. QED BY <1>12, <2>1, <2>2, <2>3
<1>16. ToSet(pushed.done) \cap ToSet(s.unrealized) = {} BY <1>12, <1>14
<1>17. QED BY <1>2, <1>3, <1>6, <1>7, <1>11, <1>13, <1>14, <1>15, <1>16 DEF s, st, pushed

----------------------------------------------------------------------------
(* What is needed later is carried along.                                  *)
LEMMA Upwards ==
  ASSUME NEW n \in Nat, NEW Bad \in SUBSET (1 .. n),
         \A x \in Bad : \E y \in Bad : x < y
  PROVE  Bad = {}
<1>1. SUFFICES ASSUME Bad # {} PROVE FALSE OBVIOUS
<1>2. Bad \in SUBSET (0 .. n)
  <2>1. \A x \in 1 .. n : x \in 0 .. n OBVIOUS
  <2>2. QED BY <2>1
<1>3. Max(Bad) \in Bad /\ \A x \in Bad : x <= Max(Bad) BY <1>1, <1>2, MaxIs
<1>4. PICK y \in Bad : Max(Bad) < y BY <1>3
<1>5. Max(Bad) \in 1 .. n /\ y \in 1 .. n /\ y <= Max(Bad) BY <1>3, <1>4
<1> DEFINE m == Max(Bad)
<1>6. m \in 1 .. n /\ y \in 1 .. n /\ y <= m /\ m < y BY <1>4, <1>5
<1> HIDE DEF m
<1>7. QED BY <1>6

(* What a later stage needs and does not compute is in the hierarchy of    *)
(* this one (pe.rs:217).                                                   *)
LEMMA Carried ==
  ASSUME NEW g, GraphOk(g), NEW up, Stage(g, up), NEW hier, Grows(up.hier, hier),
         ToSet(up.necessary) \subseteq Visited(hier),
         NEW known, known = g.realized \cup Visited(hier),
         NEW pins \in Seq(1 .. Len(g.aig)), ToSet(pins) \subseteq g.goals,
         NEW p \in ToSet(TopoTraverse(g.aig, pins, known)), p \in known \/ ~IsAnd(g.aig, p)
  PROVE  p \in Visited(hier)
<1> DEFINE order == TopoTraverse(g.aig, pins, known)
           rev == ReverseLevels(g, up.hier)
           n == Len(g.aig)
           Open(x) == x \in DOMAIN g.level /\ rev[x] # Free
           Bad == {x \in ToSet(order) : ~Open(x)}
<1>0. n \in Nat /\ g.aig \in Seq(Driver) /\ Acyclic(g.aig) /\ Simplified(g.aig) BY DEF GraphOk
<1>1. Ordered(g.aig, known, order) /\ Asked(g.aig, known, ToSet(pins), order) BY <1>0, TopoOrders
<1> HIDE DEF order
<1>2. ToSet(order) \subseteq 1 .. n BY <1>1, ToSetOf DEF Ordered
<1>3. RevTyped(g, rev) /\ \A q \in ToSet(g.order) : Reached(g, Visited(up.hier), rev, q)
  BY ReverseReaches
<1>4. Visited(up.hier) \subseteq Visited(hier) BY VisitedGrows
<1> HIDE DEF rev, n
<1>5. ASSUME NEW q \in ToSet(order), Inner(g.aig, known, q), Open(q), NEW f \in Fanins(g.aig, q)
      PROVE  Open(f) /\ g.level[q] # 0
  <2>1. IsAnd(g.aig, q) /\ q \notin g.realized \cup Visited(hier) BY <1>5 DEF Inner
  <2>2. Inner(g.aig, g.realized, q) BY <2>1 DEF Inner
  <2>3. g.level[q] # 0 BY <1>5, <2>2, PinOk
  <2>4. f \in DOMAIN g.level
    <3>1. LET a == Pin(g.aig[q].a)  b == Pin(g.aig[q].b) IN
          Fanins(g.aig, q) = {a, b} /\ a \in DOMAIN g.level /\ b \in DOMAIN g.level
      BY <1>5, <2>3, PinOk
    <3>2. QED BY <1>5, <3>1
  <2>5. q \notin g.realized \cup Visited(up.hier) BY <1>4, <2>1
  <2>6. q \in ToSet(g.order) BY <1>5 DEF GraphOk
  <2>7. rev[f] # Free BY <1>3, <1>5, <2>5, <2>6 DEF Reached
  <2>8. QED BY <2>3, <2>4, <2>7
<1>6. \A x \in ToSet(order) : Open(x)
  <2>1. ASSUME NEW x \in Bad PROVE \E y \in Bad : x < y
    <3>1. x \notin g.goals BY <1>3, <2>1 DEF RevTyped, GraphOk
    <3>2. PICK q \in ToSet(order) : Inner(g.aig, known, q) /\ x \in Fanins(g.aig, q)
      BY <1>1, <2>1, <3>1 DEF Asked
    <3>3. q \in Bad BY <1>5, <2>1, <3>2
    <3>4. x < q
      <4>1. q \in 0 .. n /\ q \in 1 .. n BY <1>0, <1>2
      <4>2. IsAnd(g.aig, q) BY <3>2 DEF Inner
      <4>3. /\ Fanins(g.aig, q) = {Pin(g.aig[q].a), Pin(g.aig[q].b)}
            /\ Pin(g.aig[q].a) \in 1 .. q - 1 /\ Pin(g.aig[q].b) \in 1 .. q - 1
        BY <1>0, <4>1, <4>2, GateFanins DEF n
      <4>4. x \in 1 .. q - 1 BY <3>2, <4>3
      <4>5. QED BY <4>1, <4>4
    <3>5. QED BY <3>3, <3>4
  <2>2. Bad \in SUBSET (1 .. n) BY <1>2
  <2> HIDE DEF Bad
  <2>3. Bad = {} BY <1>0, <2>1, <2>2, Upwards
  <2>4. QED BY <2>3 DEF Bad
<1>7. SUFFICES ASSUME p \notin Visited(hier) PROVE FALSE OBVIOUS
<1> DEFINE open == {x \in DOMAIN g.level \ Visited(up.hier) : rev[x] # Free}
           S == Level1Necessary(g, Visited(up.hier), rev)
<1>8. \A x \in DOMAIN g.level \cap S : x \in Visited(hier) BY NecessaryLow DEF rev
<1>9. p \in ToSet(order) /\ p \in DOMAIN g.level /\ rev[p] # Free /\ p \notin Visited(up.hier) /\ p \in open
  BY <1>4, <1>6, <1>7 DEF order
<1>10. g.level[p] = 0
  <2>1. ~Inner(g.aig, g.realized, p) BY <1>7 DEF Inner
  <2>2. QED BY <1>9, <2>1, PinOk
<1>11. S = {x \in open : g.level[x] = 0 /\ x \in g.goals}
           \cup {x \in open : g.level[x] = 1}
           \cup {x \in UNION {Fanins(g.aig, q) : q \in {q \in open : g.level[q] > 1}} :
                   g.level[x] = 0 /\ x \notin Visited(up.hier)}
  BY DEF Level1Necessary
<1>12. p \notin g.goals
  <2>1. SUFFICES ASSUME p \in g.goals PROVE FALSE OBVIOUS
  <2>2. p \in S BY <1>9, <1>10, <1>11, <2>1
  <2>3. QED BY <1>7, <1>8, <1>9, <2>2
<1>13. PICK q \in ToSet(order) : Inner(g.aig, known, q) /\ p \in Fanins(g.aig, q)
  BY <1>1, <1>9, <1>12 DEF Asked
<1>14. Open(q) /\ g.level[q] # 0 BY <1>5, <1>6, <1>13
<1>15. q \notin Visited(hier) BY <1>13 DEF Inner
<1>16. q \in open BY <1>4, <1>14, <1>15
<1>17. g.level[q] \in Nat BY <1>14, PinOk
<1>18. g.level[q] = 1 \/ g.level[q] > 1 BY <1>14, <1>17
<1>19. q \in S \/ p \in S
  <2>1. CASE g.level[q] = 1 BY <1>11, <1>16, <2>1
  <2>2. CASE g.level[q] > 1
    <3>1. p \in UNION {Fanins(g.aig, x) : x \in {x \in open : g.level[x] > 1}} BY <1>13, <1>16, <2>2
    <3>2. QED BY <1>9, <1>10, <1>11, <3>1
  <2>3. QED BY <1>18, <2>1, <2>2
<1> HIDE DEF S
<1>20. QED BY <1>7, <1>8, <1>9, <1>14, <1>15, <1>19

----------------------------------------------------------------------------
(* What a partition has to realize. *)
LEMMA InputsAre ==
  ASSUME part \in Partitions, NEW e \in ToSet(part.endpoints)
  PROVE  InputsOf(e) \in Seq(1 .. Len(part.aig)) /\ ToSet(InputsOf(e)) = InputSet(e)
<1> DEFINE pins == [i \in DOMAIN e.lits |-> Pin(e.lits[i])]
           n == Len(part.aig)
<1>1. /\ e.lits \in Seq(Nat) /\ n \in Nat
      /\ \A i \in DOMAIN e.lits : Pin(e.lits[i]) \in 0 .. n
  BY EndpointTypes, PartTypes
<1> HIDE DEF n
<1>2. pins \in Seq(0 .. n)
  <2>1. DOMAIN e.lits = 1 .. Len(e.lits) /\ Len(e.lits) \in Nat BY <1>1
  <2>2. QED BY <1>1, <2>1
<1>3. ToSet(pins) = {Pin(e.lits[i]) : i \in DOMAIN e.lits} BY DEF ToSet
<1>4. InputsOf(e) = Kept(pins, Nat \ {0}) BY DEF InputsOf
<1> HIDE DEF pins
<1>5. Kept(pins, Nat \ {0}) \in Seq(0 .. n) /\ ToSet(Kept(pins, Nat \ {0})) = ToSet(pins) \cap (Nat \ {0})
  BY <1>2, KeptIs
<1>6. ToSet(pins) \subseteq 0 .. n BY <1>2, ToSetOf
<1>7. ToSet(InputsOf(e)) = InputSet(e) BY <1>3, <1>4, <1>5, <1>6 DEF InputSet
<1>8. ToSet(InputsOf(e)) \subseteq 1 .. n BY <1>1, <1>4, <1>5, <1>6
<1>9. InputsOf(e) \in Seq(1 .. n) BY <1>4, <1>5, <1>8, Narrower
<1>10. QED BY <1>7, <1>9 DEF n

JoinStep(c, s, e) == s \o InputsOf(e)
JoinInv(c, i, s) == s \in Seq(1 .. c.n) /\ \A k \in 1 .. i : InputSet(c.endpoints[k]) \subseteq ToSet(s)
JoinFold == INSTANCE FoldProofs WITH Op <- JoinStep, Inv <- JoinInv


(* The mapper starts with all the pins an endpoint needs, each of them     *)
(* once (pe.rs:574).                                                       *)
LEMMA GoalsAre ==
  ASSUME part \in Partitions
  PROVE  LET goals == Goals(part.endpoints) IN
         /\ goals \in Seq(1 .. Len(part.aig)) /\ IsInjective(goals)
         /\ \A e \in ToSet(part.endpoints) : InputSet(e) \subseteq ToSet(goals)
<1> DEFINE n == Len(part.aig)
           es == part.endpoints
           m == Len(es)
           c == [n |-> n, endpoints |-> es]
           all == FoldLeft(LAMBDA s, e : s \o InputsOf(e), <<>>, es)
<1>1. n \in Nat /\ es \in Seq(Endpoint) BY PartTypes, PartitionAssumption
<1>2. /\ DOMAIN es = 1 .. m /\ m \in Nat /\ \A i \in 1 .. m : es[i] \in ToSet(es)
      /\ \A x \in ToSet(es) : \E i \in 1 .. m : es[i] = x
  BY <1>1, ToSetOf
<1> HIDE DEF n, m
<1>3. c.n = n /\ c.endpoints = es OBVIOUS
<1> HIDE DEF c
<1>4. JoinInv(c, 0, <<>>)
  <2>1. <<>> \in Seq(1 .. n) OBVIOUS
  <2>2. QED BY <1>3, <2>1 DEF JoinInv
<1>5. JoinFold!Steps(c, es)
  <2>1. SUFFICES ASSUME NEW i \in 1 .. m, NEW s, JoinInv(c, i - 1, s)
                 PROVE  JoinInv(c, i, JoinStep(c, s, es[i]))
    BY <1>2 DEF JoinFold!Steps
  <2> DEFINE t == InputsOf(es[i])
             u == s \o t
  <2>2. s \in Seq(1 .. n) /\ \A k \in 1 .. i - 1 : InputSet(es[k]) \subseteq ToSet(s)
    BY <1>3, <2>1 DEF JoinInv
  <2>3. \A k \in 1 .. i : k \in 1 .. i - 1 \/ k = i OBVIOUS
  <2>4. t \in Seq(1 .. n) /\ ToSet(t) = InputSet(es[i]) BY <1>2, InputsAre DEF n
  <2> HIDE DEF t
  <2>5. u \in Seq(1 .. n) /\ ToSet(u) = ToSet(s) \cup ToSet(t) BY <2>2, <2>4, JoinedOnce
  <2>6. JoinStep(c, s, es[i]) = u BY DEF JoinStep, t
  <2> HIDE DEF u
  <2>7. \A k \in 1 .. i : InputSet(es[k]) \subseteq ToSet(u) BY <2>2, <2>3, <2>4, <2>5
  <2>8. QED BY <1>3, <2>5, <2>6, <2>7 DEF JoinInv
<1>6. JoinInv(c, m, JoinFold!Folded(c, <<>>, es)) BY <1>2, <1>4, <1>5, JoinFold!FoldKeeps
<1>7. JoinFold!Folded(c, <<>>, es) = all
  BY DEF JoinFold!Folded, JoinStep, FoldLeft, MapThenFoldSet, Max,
         JoinFold!Highest
<1>8. Goals(es) = FirstOccurrences(all) BY DEF Goals
<1> HIDE DEF all
<1>9. all \in Seq(1 .. n) /\ \A k \in 1 .. m : InputSet(es[k]) \subseteq ToSet(all)
  BY <1>3, <1>6, <1>7 DEF JoinInv
<1>10. /\ Goals(es) \in Seq(1 .. n) /\ IsInjective(Goals(es)) /\ ToSet(all) \subseteq ToSet(Goals(es))
  BY <1>1, <1>8, <1>9, FirstAre
<1>11. \A e \in ToSet(es) : InputSet(e) \subseteq ToSet(Goals(es))
  <2>1. SUFFICES ASSUME NEW e \in ToSet(es) PROVE InputSet(e) \subseteq ToSet(Goals(es)) OBVIOUS
  <2>2. PICK k \in 1 .. m : es[k] = e BY <1>2
  <2>3. QED BY <1>9, <1>10, <2>2
<1>12. QED BY <1>10, <1>11 DEF n

(* The words reserved for memories and copies are a number of words. *)
LEMMA ReservedTyped ==
  ASSUME part \in Partitions
  PROVE  Reserved(part.endpoints).words \in Int
<1> DEFINE es == part.endpoints
           rams == {i \in DOMAIN es : es[i].kind = "ram"}
           activations == {Activation(e) : e \in {e \in ToSet(es) : e.kind # "ram"}}
           pins == {a[1] : a \in activations}
<1>1. DOMAIN es = 1 .. Len(es) /\ Len(es) \in Nat BY PartitionAssumption
<1>2. IsFiniteSet(DOMAIN es) BY <1>1, FS_Interval
<1>3. IsFiniteSet(rams) BY <1>2, FS_Subset
<1>4. IsFiniteSet(activations)
  <2> DEFINE S == {i \in DOMAIN es : es[i].kind # "ram"}
             f == [i \in S |-> Activation(es[i])]
  <2>1. IsFiniteSet(S) BY <1>2, FS_Subset
  <2>2. f \in Surjection(S, activations) BY DEF Surjection, ToSet
  <2>3. QED BY <2>1, <2>2, FS_Surjection
<1>5. IsFiniteSet(pins)
  <2> HIDE DEF activations
  <2> DEFINE f == [a \in activations |-> a[1]]
  <2>1. f \in Surjection(activations, pins) BY DEF Surjection
  <2>2. QED BY <1>4, <2>1, FS_Surjection
<1>6. Cardinality(rams) \in Nat /\ Cardinality(activations) \in Nat /\ Cardinality(pins) \in Nat
  BY <1>3, <1>4, <1>5, FS_CardinalityType
<1>7. Duplicates(es) = Cardinality(activations) - Cardinality(pins) BY DEF Duplicates
<1>8. Reserved(es).words = Cardinality(rams) + DuplicateWords(es) BY DEF Reserved
<1> HIDE DEF rams, activations, pins
<1>9. Duplicates(es) \in Int BY <1>6, <1>7
<1>10. DuplicateWords(es) \in Int
  <2>1. Word \in Nat \ {0} BY LevelsNat
  <2> HIDE DEF es
  <2>2. QED BY <1>9, <2>1 DEF DuplicateWords
<1>11. QED BY <1>6, <1>8, <1>10

----------------------------------------------------------------------------
(* A hierarchy as the executor finds it.                                   *)
LEMMA PositionSlot ==
  ASSUME NEW pos \in Position
  PROVE  \E h \in 1 .. Levels : \E k \in Slot(h) :
           /\ pos = k + Width(h)
           /\ \A hier : /\ PinAt(hier, pos) = hier[h][k]
                        /\ PinAt(hier, Beside(pos)) = hier[h - 1][k]
                        /\ PinAt(hier, Across(pos)) = hier[h - 1][k + Width(h)]
<1> DEFINE h == LevelAt[pos]
           k == pos - Width(h)
<1>1. Width(0) \in Nat \ {0} BY WidthNat, LevelsNat
<1>2. pos \in Place /\ pos < Width(0) BY <1>1 DEF Position, Place
<1>3. h \in 0 .. Levels /\ pos \in Width(h) .. 2 * Width(h) - 1 BY <1>2, LevelIs
<1>4. Beside(pos) = pos + Width(h) /\ Across(pos) = pos + 2 * Width(h) BY DEF Beside, Across
<1> HIDE DEF h
<1>5. h # 0 BY <1>1, <1>2, <1>3
<1>6. h \in 1 .. Levels /\ h - 1 \in 0 .. Levels - 1 /\ h - 1 \in 0 .. Levels /\ (h - 1) + 1 = h
  BY <1>3, <1>5, LevelsNat
<1>7. Width(h - 1) = 2 * Width(h) /\ Width(h) \in Nat \ {0} BY <1>3, <1>6, WidthStep, WidthNat
<1>8. k \in Slot(h) /\ pos = k + Width(h) BY <1>3, <1>7 DEF Slot
<1>9. k \in Slot(h - 1) /\ k + Width(h) \in Slot(h - 1)
  <2> DEFINE l == h - 1
  <2>1. l \in 0 .. Levels - 1 /\ l + 1 = h BY <1>6
  <2> HIDE DEF l, k
  <2>2. k \in Slot(l) /\ k + Width(h) \in Slot(l) BY <1>8, <2>1, SlotAbove
  <2>3. QED BY <2>2 DEF l
<1>10. k \in Nat /\ pos \in Nat BY <1>3, <1>7
<1>11. Beside(pos) = k + Width(h - 1) /\ Across(pos) = (k + Width(h)) + Width(h - 1)
  BY <1>4, <1>7, <1>8, <1>10
<1> HIDE DEF k
<1>12. ASSUME NEW hier
       PROVE  /\ PinAt(hier, pos) = hier[h][k]
              /\ PinAt(hier, Beside(pos)) = hier[h - 1][k]
              /\ PinAt(hier, Across(pos)) = hier[h - 1][k + Width(h)]
  <2>1. PinAt(hier, k + Width(h)) = hier[h][k] BY <1>3, <1>8, PinAtSlot
  <2>2. PinAt(hier, k + Width(h - 1)) = hier[h - 1][k] BY <1>6, <1>9, PinAtSlot
  <2>3. PinAt(hier, (k + Width(h)) + Width(h - 1)) = hier[h - 1][k + Width(h)] BY <1>6, <1>9, PinAtSlot
  <2>4. QED BY <1>8, <1>11, <2>1, <2>2, <2>3
<1>13. QED BY <1>6, <1>8, <1>12

(* A sound hierarchy is sound at each position of the state. *)
LEMMA SoundAt ==
  ASSUME NEW g, NEW hier, HierOk(g, hier), g.aig = part.aig, NEW pos \in Position
  PROVE  \/ PinAt(hier, pos) = Free
         \/ PassThrough(hier, pos)
         \/ /\ IsAnd(part.aig, PinAt(hier, pos))
            /\ Pin(part.aig[PinAt(hier, pos)].a) = PinAt(hier, Beside(pos))
            /\ Pin(part.aig[PinAt(hier, pos)].b) = PinAt(hier, Across(pos))
<1>1. PICK h \in 1 .. Levels : \E k \in Slot(h) :
        /\ PinAt(hier, pos) = hier[h][k]
        /\ PinAt(hier, Beside(pos)) = hier[h - 1][k]
        /\ PinAt(hier, Across(pos)) = hier[h - 1][k + Width(h)]
  BY PositionSlot
<1>2. PICK k \in Slot(h) :
        /\ PinAt(hier, pos) = hier[h][k]
        /\ PinAt(hier, Beside(pos)) = hier[h - 1][k]
        /\ PinAt(hier, Across(pos)) = hier[h - 1][k + Width(h)]
  BY <1>1
<1>3. h - 1 \in 0 .. Levels - 1 /\ (h - 1) + 1 = h BY LevelsNat
<1>4. LET q == hier[h][k] IN
      \/ q = Free
      \/ hier[h - 1][k] = q
      \/ /\ IsAnd(g.aig, q) /\ Pin(g.aig[q].a) = hier[h - 1][k]
         /\ Pin(g.aig[q].b) = hier[h - 1][k + Width(h)]
  <2>1. \A l \in 0 .. Levels - 1 : \A i \in Slot(l + 1) :
          LET q == hier[l + 1][i] IN
          \/ q = Free
          \/ hier[l][i] = q
          \/ /\ IsAnd(g.aig, q) /\ Pin(g.aig[q].a) = hier[l][i]
             /\ Pin(g.aig[q].b) = hier[l][i + Width(l + 1)]
    BY DEF HierOk, SlotsSound
  <2>2. k \in Slot((h - 1) + 1) BY <1>3
  <2>3. QED BY <1>3, <2>1, <2>2
<1>5. QED BY <1>2, <1>4 DEF PassThrough

(* A pin of the hierarchy has a place in the state. *)
LEMMA VisitedPlaced ==
  ASSUME NEW hier, NEW p \in Visited(hier)
  PROVE  PlacesOf(hier, p) # {}
<1>1. p # Free /\ \E h \in 1 .. Levels : \E j \in Slot(h) : hier[h][j] = p BY VisitedIs
<1>2. PICK h \in 1 .. Levels : \E j \in Slot(h) : hier[h][j] = p BY <1>1
<1>3. PICK j \in Slot(h) : hier[h][j] = p BY <1>2
<1>4. h \in 0 .. Levels /\ h # 0 /\ 0 \in 0 .. Levels BY LevelsNat
<1>5. Width(h) \in Nat \ {0} /\ Width(0) \in Nat /\ 2 * Width(h) <= Width(0) BY <1>4, WidthNat, WidthBound
<1>6. j \in 0 .. Width(h) - 1 BY DEF Slot
<1>7. j + Width(h) \in Position BY <1>5, <1>6 DEF Position
<1>8. PinAt(hier, j + Width(h)) = p BY <1>3, <1>4, PinAtSlot
<1>9. QED BY <1>7, <1>8 DEF PlacesOf

----------------------------------------------------------------------------
(* The mapper's invariant: besides what is asked of it, whatever the       *)
(* stages still to come need and do not compute is in the hierarchy of the *)
(* last one, or is an input of the partition.                              *)
Written(p) == \E k \in DOMAIN stages : GoesOut(stages[k], p)
AtHand(p) ==
  IF stages = <<>> THEN p \in Sources \cup part.inputs
  ELSE p \in Visited(stages[Len(stages)].hier)
Needed(p) ==
  /\ p \in ToSet(TopoTraverse(part.aig, unrealized, realized))
  /\ p \in realized \/ ~IsAnd(part.aig, p)

MapInv ==
  /\ part \in Partitions /\ Sequential
  /\ unrealized \in Seq(1 .. Len(part.aig)) /\ IsInjective(unrealized)
  /\ written \in Nat
  /\ TooManyReserved(part.endpoints) \/ written + Reserved(part.endpoints).words <= MaxWriteouts
  /\ StagesSound
  /\ \A e \in ToSet(part.endpoints) : \A p \in InputSet(e) : p \in ToSet(unrealized) \/ Written(p)
  /\ \A p : Needed(p) => AtHand(p)

(* The invariant gives what is asked of the mapper. *)
LEMMA InvIsAsked == MapInv => HierarchySound /\ NothingLost
<1> SUFFICES ASSUME MapInv PROVE HierarchySound /\ NothingLost OBVIOUS
<1>1. HierarchySound BY DEF MapInv, StagesSound, StageSound, HierarchySound
<1>2. \A k \in DOMAIN stages : \A j \in Slot(0) :
        LET p == stages[k].hier[0][j]
        IN  p # Free => IF k = 1 THEN p \in Sources \cup part.inputs
                        ELSE PlacesOf(stages[k - 1].hier, p) # {}
  BY DEF MapInv, StagesSound, StageSound
<1>3. ASSUME NEW e \in ToSet(part.endpoints), NEW p \in InputSet(e)
      PROVE  \/ Contains(unrealized, p)
             \/ \E k \in DOMAIN stages : \E w \in ToSet(stages[k].outs) : \E i \in 0 .. Word - 1 :
                  PinAt(stages[k].hier, w * Word + i) = p
  <2>1. p \in ToSet(unrealized) \/ Written(p) BY <1>3 DEF MapInv
  <2>2. p \in ToSet(unrealized) => Contains(unrealized, p) BY DEF Contains, ToSet
  <2>3. QED BY <2>1, <2>2 DEF Written, GoesOut
<1>4. QED BY <1>1, <1>2, <1>3 DEF NothingLost

(* It holds when no stage is built. *)
LEMMA MapperStarts == Init => MapInv
<1> SUFFICES ASSUME Init PROVE MapInv OBVIOUS
<1>1. /\ part \in Partitions /\ unrealized = Goals(part.endpoints) /\ realized = part.inputs
      /\ written = 0 /\ stages = <<>> BY DEF Init
<1>2. /\ unrealized \in Seq(1 .. Len(part.aig)) /\ IsInjective(unrealized)
      /\ \A e \in ToSet(part.endpoints) : InputSet(e) \subseteq ToSet(unrealized)
  BY <1>1, GoalsAre
<1>3. Sequential
  <2>1. <<>> \in Seq({}) OBVIOUS
  <2>2. QED BY <1>1, <2>1 DEF Sequential
<1>4. DOMAIN stages = {} BY <1>1
<1>5. StagesSound BY <1>4 DEF StagesSound
<1>6. TooManyReserved(part.endpoints) \/ written + Reserved(part.endpoints).words <= MaxWriteouts
  <2> DEFINE words == Reserved(part.endpoints).words
  <2>1. words \in Int BY <1>1, ReservedTyped
  <2>2. MaxWriteouts \in Nat BY SizeAssumption
  <2>3. words >= MaxWriteouts => TooManyReserved(part.endpoints) BY DEF TooManyReserved
  <2> HIDE DEF words
  <2>4. words >= MaxWriteouts \/ written + words <= MaxWriteouts BY <1>1, <2>1, <2>2
  <2>5. QED BY <2>3, <2>4 DEF words
<1>7. ASSUME NEW p, Needed(p) PROVE AtHand(p)
  <2>1. Ordered(part.aig, realized, TopoTraverse(part.aig, unrealized, realized))
    <3>1. part.aig \in Seq(Driver) /\ Acyclic(part.aig) /\ Simplified(part.aig) BY <1>1, PartitionAssumption
    <3>2. QED BY <1>2, <3>1, TopoOrders
  <2>2. p \in 1 .. Len(part.aig) BY <1>7, <2>1, ToSetOf DEF Needed, Ordered
  <2>3. p \in part.inputs \/ ~IsAnd(part.aig, p) BY <1>1, <1>7 DEF Needed
  <2>4. DOMAIN part.aig = 1 .. Len(part.aig) BY <1>1, PartTypes
  <2>5. QED BY <1>1, <2>2, <2>3, <2>4 DEF AtHand, Sources
<1>8. QED BY <1>1, <1>2, <1>3, <1>5, <1>6, <1>7 DEF MapInv

(* The parameter is the code's way (pe.rs:60).                             *)
BuiltAsCoded ==
  \A aig, pins, known, before, limit :
    NextStage(aig, pins, known, before, limit) = BuildStage(aig, pins, known, before, limit)

(* A stage built as the code builds it keeps it. *)
LEMMA MapperStep ==
  ASSUME BuiltAsCoded, MapInv, MapStage
  PROVE  MapInv'
<1> DEFINE g == Subgraph(part.aig, unrealized, realized)
           up == StartStage(g)
           s == LowerPart(LevelUp(up, unrealized), unrealized, written, Limit)
           n == Len(stages)
           hier == s.stage.hier
<1>1. /\ part \in Partitions /\ Sequential
      /\ unrealized \in Seq(1 .. Len(part.aig)) /\ IsInjective(unrealized) /\ written \in Nat
      /\ StagesSound
  BY DEF MapInv
<1>2. Built = s BY DEF BuiltAsCoded, Built, BuildStage
<1>3. /\ ~TooManyReserved(part.endpoints) /\ unrealized # <<>> /\ ~s.refused
      /\ stages' = Append(stages, s.stage) /\ unrealized' = s.unrealized /\ realized' = s.realized
      /\ written' = written + Len(s.stage.outs) /\ part' = part
  <2> HIDE DEF s
  <2>1. QED BY <1>2 DEF MapStage
<1>4. /\ part.aig \in Seq(Driver) /\ Acyclic(part.aig) /\ Simplified(part.aig)
      /\ DOMAIN part.aig = 1 .. Len(part.aig)
  BY <1>1, PartitionAssumption, PartTypes
<1>5. /\ GraphOk(g) /\ g.aig = part.aig /\ g.goals = ToSet(unrealized) /\ g.realized = realized
      /\ g.order = TopoTraverse(part.aig, unrealized, realized)
  BY <1>1, <1>3, <1>4, SubgraphOk
<1> HIDE DEF g
<1>6. Stage(g, up) BY <1>5, Started
<1> HIDE DEF up
<1>7. Limit = MaxWriteouts - Reserved(part.endpoints).words /\ Reserved(part.endpoints).words \in Int
      /\ MaxWriteouts \in Nat
  BY <1>1, ReservedTyped, SizeAssumption DEF Limit
<1>8. Limit \in Int BY <1>7
<1>9. /\ HierOk(g, hier) /\ Grows(up.hier, hier)
      /\ ToSet(up.necessary) \subseteq Visited(hier)
      /\ s.stage.outs \in Seq(OutWords) /\ written + Len(s.stage.outs) <= Limit
      /\ s.realized = g.realized \cup Visited(hier)
      /\ s.unrealized \in Seq(1 .. Len(g.aig)) /\ IsInjective(s.unrealized)
      /\ ToSet(s.unrealized) \subseteq g.goals
      /\ ToSet(LevelUp(up, unrealized).pushed.done) \cap ToSet(s.unrealized) = {}
      /\ \A p \in g.goals \ ToSet(s.unrealized) : GoesOut(s.stage, p)
  <2>1. unrealized \in Seq(1 .. Len(g.aig)) BY <1>1, <1>5
  <2>2. QED BY <1>1, <1>3, <1>5, <1>6, <1>8, <2>1, StageClosed, Zenon
<1> HIDE DEF s
<1>10. PICK S : stages \in Seq(S) BY <1>1 DEF Sequential
<1>11. n \in Nat BY <1>10
<1>12. DOMAIN stages = 1 .. n BY <1>10
<1>13. /\ stages' \in Seq(S \cup {s.stage}) /\ Len(stages') = n + 1
       /\ \A k \in 1 .. n : stages'[k] = stages[k]
       /\ stages'[n + 1] = s.stage
  BY <1>3, <1>10, AppendFacts
<1>14. stages = <<>> <=> n = 0 BY <1>10
<1> HIDE DEF n
<1>15. DOMAIN stages' = 1 .. n + 1 BY <1>13
<1>16. Sequential' BY <1>13 DEF Sequential
<1>17. ASSUME NEW k \in 1 .. n + 1 PROVE StageSound(k)'
  <2>1. CASE k \in 1 .. n
    <3>1. StageSound(k) BY <1>1, <1>12, <2>1 DEF StagesSound
    <3>2. stages'[k] = stages[k] /\ (k # 1 => stages'[k - 1] = stages[k - 1]) BY <1>11, <1>13, <2>1
    <3>3. QED BY <1>3, <3>1, <3>2 DEF StageSound, PassThrough, Sources
  <2>2. CASE k = n + 1
    <3>1. stages'[k] = s.stage BY <1>13, <2>2
    <3>2. s.stage.outs \in Seq(0 .. Width(0) \div Word - 1) BY <1>9 DEF OutWords
    <3>3. \A pos \in Position :
            \/ PinAt(hier, pos) = Free
            \/ PassThrough(hier, pos)
            \/ /\ IsAnd(part.aig, PinAt(hier, pos))
               /\ Pin(part.aig[PinAt(hier, pos)].a) = PinAt(hier, Beside(pos))
               /\ Pin(part.aig[PinAt(hier, pos)].b) = PinAt(hier, Across(pos))
      BY <1>5, <1>9, SoundAt
    <3>4. ASSUME NEW j \in Slot(0), hier[0][j] # Free
          PROVE  IF k = 1 THEN hier[0][j] \in Sources \cup part.inputs
                 ELSE PlacesOf(stages[n].hier, hier[0][j]) # {}
      <4> DEFINE p == hier[0][j]
      <4>1. 0 \in 0 .. Levels BY LevelsNat
      <4>2. p \in DOMAIN g.level /\ g.level[p] <= 0 BY <1>9, <3>4, <4>1 DEF HierOk, Fitting
      <4> HIDE DEF p
      <4>3. g.level[p] = 0 /\ ~Inner(g.aig, g.realized, p)
        <5>1. g.level[p] \in Nat /\ (g.level[p] = 0 <=> ~Inner(g.aig, g.realized, p)) BY <1>5, <4>2, PinOk
        <5>2. QED BY <4>2, <5>1
      <4>4. p \in ToSet(TopoTraverse(part.aig, unrealized, realized)) BY <1>5, <4>2 DEF GraphOk
      <4>5. Needed(p) BY <1>5, <4>3, <4>4 DEF Needed, Inner
      <4>6. AtHand(p) BY <4>5 DEF MapInv
      <4>7. CASE k = 1
        <5>1. stages = <<>> BY <1>11, <1>14, <2>2, <4>7
        <5>2. QED BY <4>6, <4>7, <5>1 DEF AtHand, p
      <4>8. CASE k # 1
        <5>1. stages # <<>> BY <1>11, <1>14, <2>2, <4>8
        <5>2. p \in Visited(stages[n].hier) BY <4>6, <5>1 DEF AtHand, n
        <5>3. QED BY <4>8, <5>2, VisitedPlaced DEF p
      <4>9. QED BY <4>7, <4>8
    <3>5. k # 1 => stages'[k - 1] = stages[n] BY <1>11, <1>13, <2>2
    <3>6. QED BY <1>3, <3>1, <3>2, <3>3, <3>4, <3>5 DEF StageSound, PassThrough, Sources
  <2>3. QED BY <1>11, <2>1, <2>2
<1>18. StagesSound' BY <1>15, <1>17 DEF StagesSound
<1>19. written' \in Nat /\ written' + Reserved(part.endpoints).words <= MaxWriteouts
  <2> DEFINE outs == Len(s.stage.outs)
             words == Reserved(part.endpoints).words
  <2>1. /\ outs \in Nat /\ words \in Int /\ Limit = MaxWriteouts - words /\ MaxWriteouts \in Nat
        /\ written \in Nat /\ written' = written + outs /\ written + outs <= Limit
    BY <1>1, <1>3, <1>7, <1>9
  <2> HIDE DEF outs, words
  <2>2. written' \in Nat /\ written' + words <= MaxWriteouts BY <2>1
  <2>3. QED BY <2>2 DEF words
<1>20. ASSUME NEW e \in ToSet(part.endpoints), NEW p \in InputSet(e)
       PROVE  p \in ToSet(unrealized') \/ Written(p)'
  <2>1. CASE p \in ToSet(unrealized)
    <3>1. p \in ToSet(s.unrealized) \/ GoesOut(s.stage, p) BY <1>5, <1>9, <2>1
    <3>2. n + 1 \in DOMAIN stages' BY <1>11, <1>15
    <3>3. QED BY <1>3, <1>13, <3>1, <3>2 DEF Written
  <2>2. CASE Written(p)
    <3>1. PICK k \in DOMAIN stages : GoesOut(stages[k], p) BY <2>2 DEF Written
    <3>2. k \in DOMAIN stages' /\ stages'[k] = stages[k] BY <1>11, <1>12, <1>13, <1>15
    <3>3. QED BY <3>1, <3>2 DEF Written
  <2>3. QED BY <2>1, <2>2 DEF MapInv
<1>21. ASSUME NEW p, Needed(p)' PROVE AtHand(p)'
  <2>1. stages' # <<>> BY <1>11, <1>13
  <2>2. p \in ToSet(TopoTraverse(g.aig, s.unrealized, s.realized))
        /\ (p \in s.realized \/ ~IsAnd(g.aig, p))
    BY <1>3, <1>5, <1>21 DEF Needed
  <2>3. p \in Visited(hier) BY <1>5, <1>6, <1>9, <2>2, Carried
  <2>4. stages'[Len(stages')].hier = hier BY <1>13
  <2>5. QED BY <2>1, <2>3, <2>4 DEF AtHand
<1>22. QED BY <1>1, <1>3, <1>5, <1>9, <1>16, <1>18, <1>19, <1>20, <1>21 DEF MapInv

(* Nothing but a new stage concerns it. *)
LEMMA MapperIdle ==
  ASSUME MapInv, UNCHANGED mapping
  PROVE  MapInv'
<1>1. /\ part' = part /\ unrealized' = unrealized /\ realized' = realized /\ written' = written
      /\ stages' = stages
  BY DEF mapping
<1>2. StagesSound' BY SameMapping DEF MapInv
<1>3. Sequential' BY <1>1 DEF MapInv, Sequential
<1>4. \A p : /\ Written(p)' = Written(p) /\ AtHand(p)' = AtHand(p) /\ Needed(p)' = Needed(p)
  BY <1>1 DEF Written, AtHand, Needed, Sources
<1>5. QED BY <1>1, <1>2, <1>3, <1>4 DEF MapInv

(* With the code's way to build a stage, all of that holds for every       *)
(* partition, whatever the graph, the number of levels and the word size   *)
(* (pe.rs:63, 497).                                                        *)
THEOREM MapperInvariance ==
  ASSUME BuiltAsCoded
  PROVE  Spec => []MapInv
<1>1. Init => MapInv BY MapperStarts
<1>2. MapInv /\ [Next]_vars => MapInv'
  <2> SUFFICES ASSUME MapInv, [Next]_vars PROVE MapInv' OBVIOUS
  <2>1. CASE MapStage BY <2>1, MapperStep
  <2>2. CASE Refuse BY <2>2, MapperIdle DEF Refuse
  <2>3. CASE Flatten BY <2>3, MapperIdle DEF Flatten
  <2>4. CASE FlattenStage BY <2>4, MapperIdle DEF FlattenStage
  <2>5. CASE Load BY <2>5, MapperIdle DEF Load
  <2>6. CASE RunStage BY <2>6, MapperIdle DEF RunStage
  <2>7. CASE StoreOutputs BY <2>7, MapperIdle DEF StoreOutputs
  <2>8. CASE UNCHANGED vars BY <2>8, MapperIdle DEF vars
  <2>9. QED BY <2>1, <2>2, <2>3, <2>4, <2>5, <2>6, <2>7, <2>8 DEF Next
<1>3. QED BY <1>1, <1>2, PTL DEF Spec

(* The code's stages are sound: each slot is empty, hands up a pin or is   *)
(* an and gate of the slots below it, and the words written out stay       *)
(* within what memories and copies leave of the limit (flatten.rs:607,     *)
(* pe.rs:430).                                                             *)
THEOREM MapsSoundly ==
  ASSUME BuiltAsCoded
  PROVE  Spec => []HierarchySound
<1>1. Spec => []MapInv BY MapperInvariance
<1>2. QED BY <1>1, InvIsAsked, PTL

(* The code's mapper loses nothing: a stage shuffles in only what the one  *)
(* before it left, and a pin is dropped only when its word is written out  *)
(* (pe.rs:217, flatten.rs:341).                                            *)
THEOREM LosesNothing ==
  ASSUME BuiltAsCoded
  PROVE  Spec => []NothingLost
<1>1. Spec => []MapInv BY MapperInvariance
<1>2. QED BY <1>1, InvIsAsked, PTL

(* So the executor of the code's stages computes every pin an endpoint     *)
(* needs, and the assembler finds it (flatten.rs:341, cuda_test.rs:503).   *)
THEOREM CodeComputes ==
  ASSUME BuiltAsCoded
  PROVE  Spec => []EndpointsComputed
<1>1. Spec => []HierarchySound /\ []NothingLost BY MapsSoundly, LosesNothing
<1>2. QED BY <1>1, ComputesTheGraph, PTL

(* And a cycle of the code's stages stores the value of every endpoint's   *)
(* literal, or the old one while it is disabled (flatten.rs:350,           *)
(* cuda_test.rs:550).                                                      *)
THEOREM CodeStores ==
  ASSUME BuiltAsCoded
  PROVE  Spec => []EndpointsStored
<1>1. Spec => []HierarchySound /\ []NothingLost BY MapsSoundly, LosesNothing
<1>2. QED BY <1>1, StoresTheGraph, PTL

----------------------------------------------------------------------------
(* That a stage makes progress.  If a stage adds no pin to the realized    *)
(* ones, its upper levels are empty and no gate is due, so that every pin  *)
(* to realize is known already and due on level 1.                         *)
LEMMA NoGateDue ==
  ASSUME NEW g, GraphOk(g), NEW hier, Visited(hier) = {},
         \A p \in DOMAIN g.level \cap Level1Necessary(g, Visited(hier), ReverseLevels(g, hier)) :
           g.level[p] = 0
  PROVE  g.goals \subseteq Level1Necessary(g, Visited(hier), ReverseLevels(g, hier))
<1> DEFINE rev == ReverseLevels(g, hier)
           visited == Visited(hier)
           due == Level1Necessary(g, visited, rev)
           open == {p \in DOMAIN g.level \ visited : rev[p] # Free}
           Bad == {p \in open : g.level[p] # 0}
<1>1. RevTyped(g, rev) /\ \A q \in ToSet(g.order) : Reached(g, visited, rev, q) BY ReverseReaches
<1>2. DOMAIN g.level = ToSet(g.order) /\ g.goals \subseteq DOMAIN g.level BY DEF GraphOk
<1>3. /\ \A p \in open : g.level[p] = 1 => p \in due
      /\ \A p \in open : g.level[p] = 0 /\ p \in g.goals => p \in due
  BY DEF Level1Necessary
<1> HIDE DEF rev, due
<1>4. \A p \in DOMAIN g.level \cap due : g.level[p] = 0 BY DEF due, visited, rev
<1>5. open \subseteq DOMAIN g.level /\ open = {p \in DOMAIN g.level : rev[p] # Free} BY DEF visited
<1>6. g.goals \subseteq open BY <1>1, <1>2, <1>5 DEF RevTyped
<1> HIDE DEF open
<1>7. ASSUME Bad # {} PROVE FALSE
  <2>1. Bad \in SUBSET Nat
    <3>1. \A p \in Bad : p \in 1 .. Len(g.aig) BY <1>5, PinOk
    <3>2. Len(g.aig) \in Nat BY DEF GraphOk
    <3>3. QED BY <3>1, <3>2
  <2> HIDE DEF Bad
  <2>2. PICK p \in Bad : \A q \in Bad : p <= q BY <1>7, <2>1, HasMinimum
  <2>3. p \in open /\ p \in DOMAIN g.level /\ g.level[p] # 0 BY <1>5 DEF Bad
  <2>4. Inner(g.aig, g.realized, p) BY <2>3, PinOk
  <2>5. p \in Nat /\ p \in 1 .. Len(g.aig) BY <2>1, <2>3, PinOk
  <2>6. PICK f \in Fanins(g.aig, p) : g.level[p] = g.level[f] + 1 BY <2>3, <2>4 DEF GraphOk, LevelsRight
  <2>7. f \in DOMAIN g.level BY <2>3, <2>4 DEF GraphOk, LevelsRight
  <2>8. f \in 1 .. p - 1
    <3>1. LET a == Pin(g.aig[p].a)  b == Pin(g.aig[p].b) IN
          Fanins(g.aig, p) = {a, b} /\ a \in 1 .. p - 1 /\ b \in 1 .. p - 1
      BY <2>4, <2>5, GateFanins DEF GraphOk, Inner
    <3>2. QED BY <3>1
  <2>9. rev[f] # Free
    <3>1. Reached(g, visited, rev, p) BY <1>1, <1>2, <2>3
    <3>2. p \notin g.realized \cup visited BY <2>4 DEF Inner, visited
    <3>3. QED BY <3>1, <3>2 DEF Reached
  <2>10. f \in open BY <1>5, <2>7, <2>9
  <2>11. f \notin Bad BY <2>2, <2>5, <2>8
  <2>12. g.level[f] = 0 BY <2>10, <2>11 DEF Bad
  <2>13. g.level[p] = 1 BY <2>6, <2>12
  <2>14. p \in due BY <1>3, <2>3, <2>13
  <2>15. QED BY <1>4, <2>3, <2>14
<1>8. \A p \in g.goals : g.level[p] = 0 BY <1>6, <1>7
<1>9. g.goals \subseteq due BY <1>3, <1>6, <1>8
<1>10. QED BY <1>9 DEF due, visited, rev

(* An empty hierarchy has room for them.                                   *)
LEMMA SpacesOpen ==
  ASSUME NEW hier, Visited(hier) = {}
  PROVE  /\ Spaces(hier) # <<>>
         /\ \A w \in 0 .. Width(1) \div Word - 1 : hier[1][w * Word] = Free
<1> DEFINE used(i) == Cardinality(Taken(hier, Chunk(i)))
           words == {i \in 0 .. Width(1) \div Word - 1 : used(i) < Crowded}
           rank == [i \in words |-> used(i) * Width(1) + i]
<1>0. Width(1) \in Nat \ {0} /\ Word \in Nat \ {0} /\ Width(1) % Word = 0 /\ 1 \in 1 .. Levels
  <2>1. 1 \in 0 .. Levels /\ 1 \in 1 .. Levels BY LevelsNat
  <2>2. QED BY <2>1, WidthNat, LevelsNat, SizeAssumption
<1>1. \A j \in Slot(1) : hier[1][j] = Free
  <2>1. SUFFICES ASSUME NEW j \in Slot(1), hier[1][j] # Free PROVE FALSE OBVIOUS
  <2>2. \E h \in 1 .. Levels : \E i \in Slot(h) : hier[h][i] = hier[1][j] BY <1>0
  <2>3. hier[1][j] \in Visited(hier) BY <2>1, <2>2, VisitedIs
  <2>4. QED BY <2>3
<1>2. Width(1) \div Word \in Nat \ {0} BY <1>0
<1>3. ASSUME NEW w \in 0 .. Width(1) \div Word - 1
      PROVE  /\ hier[1][w * Word] = Free
             /\ \A k \in 1 .. Word : w * Word + k - 1 \in Slot(1)
             /\ w * Word \in Nat
  <2>1. \A k \in 1 .. Word : w * Word + k - 1 \in Slot(1) BY Level1Word
  <2>2. w \in Nat BY <1>2
  <2>3. w * Word \in Nat BY <1>0, <2>2
  <2> DEFINE a == w * Word
  <2>4. 1 \in 1 .. Word /\ a + 1 - 1 = a BY <1>0, <2>3
  <2>5. a \in Slot(1) BY <2>1, <2>4
  <2>6. QED BY <1>1, <2>1, <2>3, <2>5
<1>4. ASSUME NEW i \in 0 .. Width(1) \div Word - 1 PROVE used(i) = 0
  <2>1. Taken(hier, Chunk(i)) = {}
    <3>1. SUFFICES ASSUME NEW j \in Chunk(i), hier[1][j] # Free PROVE FALSE BY DEF Taken
    <3> DEFINE a == i * Word
    <3>2. a \in Nat /\ Word \in Nat /\ j \in a .. a + Word - 1 BY <1>0, <1>3 DEF Chunk
    <3>3. \A k \in 1 .. Word : a + k - 1 \in Slot(1) BY <1>3
    <3> HIDE DEF a
    <3>4. j - a + 1 \in 1 .. Word /\ a + (j - a + 1) - 1 = j BY <3>2
    <3>5. j \in Slot(1) BY <3>3, <3>4
    <3>6. QED BY <1>1, <3>1, <3>5
  <2>2. QED BY <2>1, FS_EmptySet
<1>5. words = 0 .. Width(1) \div Word - 1
  <2>1. 0 < Crowded BY CrowdedAssumption
  <2>2. QED BY <1>4, <2>1
<1>6. IsFiniteSet(words) /\ words # {}
  <2> DEFINE n == Width(1) \div Word
  <2>1. n \in Nat \ {0} BY <1>2
  <2> HIDE DEF n
  <2>2. IsFiniteSet(0 .. n - 1) /\ 0 \in 0 .. n - 1 BY <2>1, FS_Interval
  <2> HIDE DEF words
  <2>3. QED BY <1>5, <2>2 DEF n
<1>7. \A i \in words : rank[i] \in Nat
  <2>1. TAKE i \in words
  <2>2. rank[i] = 0 * Width(1) + i BY <1>4, <1>5
  <2>3. i \in Nat BY <1>2
  <2>4. QED BY <1>0, <2>2, <2>3
<1>8. Spaces(hier) = SortedBy(words, rank) BY DEF Spaces
<1> HIDE DEF words, rank
<1>9. Len(Spaces(hier)) = Cardinality(words) BY <1>6, <1>7, <1>8, SortedInside
<1>10. Cardinality(words) # 0 BY <1>6, FS_EmptySet
<1>11. Spaces(hier) # <<>> BY <1>9, <1>10
<1>12. QED BY <1>3, <1>11

(* Of the pins that are due one is done, as soon as a slot is free.        *)
LEMMA SlotDone ==
  ASSUME NEW g, NEW base, NEW words, NEW st, Filling(g, base, words, st), NEW j \in Slot(1),
         st.done # <<>> \/ (st.todo # <<>> /\ st.hier[1][j] = Free)
  PROVE  FillSlot(g, st, j).done # <<>>
<1> DEFINE r == FillSlot(g, st, j)
           x == st.hier[1][j]
           p == Head(st.todo)
           hier == PlaceBit(g, st.hier, 1, j, p)
           later == IF x \in g.goals \ ToSet(st.done) THEN Append(st.done, x) ELSE st.done
<1>1. /\ st = [hier |-> st.hier, todo |-> st.todo, done |-> st.done, outs |-> st.outs, more |-> st.more]
      /\ st.done \in Seq(DOMAIN g.level)
  BY DEF Filling
<1>2. r = IF st.todo = <<>> THEN st
          ELSE IF x = Free
          THEN [st EXCEPT !.hier = hier, !.done = Append(@, p), !.todo = Tail(@)]
          ELSE [st EXCEPT !.done = IF x \in g.goals \ ToSet(@) THEN Append(@, x) ELSE @]
  BY DEF FillSlot
<1>3. \A y : Append(st.done, y) # <<>> BY <1>1
<1> HIDE DEF r, p, x, hier
<1>4. CASE st.todo = <<>> BY <1>2, <1>4 DEF r
<1>5. CASE st.todo # <<>> /\ x = Free
  <2>1. r = [st EXCEPT !.hier = hier, !.done = Append(@, p), !.todo = Tail(@)] BY <1>2, <1>5
  <2>2. r.done = Append(st.done, p) BY <1>1, <2>1
  <2>3. QED BY <1>3, <2>2 DEF r
<1>6. CASE st.todo # <<>> /\ x # Free
  <2>1. r = [st EXCEPT !.done = IF x \in g.goals \ ToSet(@) THEN Append(@, x) ELSE @] BY <1>2, <1>6
  <2>2. r.done = later BY <1>1, <2>1
  <2>3. st.done # <<>> BY <1>6 DEF x
  <2>4. later # <<>> BY <1>3, <2>3
  <2> HIDE DEF later
  <2>5. QED BY <2>2, <2>4 DEF r
<1>7. QED BY <1>4, <1>5, <1>6

DoneStep(c, st, j) == FillSlot(c.g, st, j)
DoneInv(c, i, st) == FillInv(c, i, st) /\ (i = 0 => st = c.start) /\ (i # 0 => st.done # <<>>)
DoneFold == INSTANCE FoldProofs WITH Op <- DoneStep, Inv <- DoneInv

LEMMA WordDone ==
  ASSUME NEW g, GraphOk(g), NEW base, NEW words, NEW st, Filling(g, base, words, st),
         NEW w \in 0 .. Width(1) \div Word - 1, (w * Word + Width(1)) \div Word \in words,
         st.done # <<>> \/ (st.todo # <<>> /\ st.hier[1][w * Word] = Free)
  PROVE  FillWord(g, st, w).done # <<>>
<1> DEFINE c == [g |-> g, base |-> base, words |-> words, outs |-> st.outs, more |-> st.more, start |-> st]
           seq == [k \in 1 .. Word |-> w * Word + k - 1]
<1>1. Word \in Nat \ {0} BY LevelsNat
<1>2. DOMAIN seq = 1 .. Word OBVIOUS
<1>3. /\ c.g = g /\ c.base = base /\ c.words = words /\ c.outs = st.outs /\ c.more = st.more
      /\ c.start = st
  OBVIOUS
<1>s. w * Word \in Nat
  <2>1. 1 \in 0 .. Levels BY LevelsNat
  <2>2. Width(1) \in Nat BY <2>1, WidthNat
  <2>3. w \in Nat BY <1>1, <2>2
  <2>4. QED BY <1>1, <2>3
<1>4. DoneInv(c, 0, st)
  <2> HIDE DEF c
  <2>1. FillInv(c, 0, st) BY <1>3 DEF FillInv
  <2>2. QED BY <1>3, <2>1 DEF DoneInv
<1>5. DoneFold!Steps(c, seq)
  <2>1. SUFFICES ASSUME NEW k \in 1 .. Word, NEW s, DoneInv(c, k - 1, s)
                 PROVE  DoneInv(c, k, DoneStep(c, s, seq[k]))
    BY <1>2 DEF DoneFold!Steps
  <2> DEFINE j == seq[k]
             r == FillSlot(g, s, j)
  <2>2. j = w * Word + k - 1 OBVIOUS
  <2> HIDE DEF seq, j, c
  <2>3. j \in Slot(1) /\ WordOf(1, j) \in words BY <2>2, Level1Word
  <2>4. /\ Filling(g, base, words, s) /\ s.outs = st.outs /\ s.more = st.more
        /\ (k - 1 = 0 => s = st) /\ (k - 1 # 0 => s.done # <<>>)
    BY <1>3, <2>1 DEF DoneInv, FillInv
  <2>5. Filling(g, base, words, r) /\ r.outs = s.outs /\ r.more = s.more BY <2>3, <2>4, SlotFilled
  <2>6. s.done # <<>> \/ (s.todo # <<>> /\ s.hier[1][j] = Free)
    <3>1. CASE k - 1 = 0
      <4>1. j = w * Word BY <1>s, <2>2, <3>1
      <4>2. QED BY <2>4, <3>1, <4>1
    <3>2. QED BY <2>4, <3>1
  <2>7. r.done # <<>> BY <2>3, <2>4, <2>6, SlotDone
  <2>8. DoneStep(c, s, j) = r BY <1>3 DEF DoneStep
  <2> HIDE DEF r
  <2>9. FillInv(c, k, r) BY <1>3, <2>4, <2>5 DEF FillInv
  <2>10. DoneInv(c, k, r) BY <2>7, <2>9 DEF DoneInv
  <2>11. QED BY <2>8, <2>10 DEF j
<1>6. DoneInv(c, Word, DoneFold!Folded(c, st, seq))
  <2> HIDE DEF c, seq
  <2>1. QED BY <1>1, <1>2, <1>4, <1>5, DoneFold!FoldKeeps
<1>7. DoneFold!Folded(c, st, seq) = FillWord(g, st, w)
  BY DEF FillWord, DoneFold!Folded, DoneStep, FoldLeft, MapThenFoldSet, Max,
         DoneFold!Highest
<1>8. QED BY <1>1, <1>6, <1>7 DEF DoneInv

(* A word is left alone only when endpoints are done already.              *)
LEMMA PushDone ==
  ASSUME NEW g, GraphOk(g), NEW base, NEW st, Filling(g, base, ToSet(st.outs), st),
         NEW w \in 0 .. Width(1) \div Word - 1,
         st.done # <<>> \/ (st.more /\ st.todo # <<>> /\ st.hier[1][w * Word] = Free)
  PROVE  PushWord(g, st, w, {}).done # <<>>
<1> DEFINE o == (w * Word + Width(1)) \div Word
           r == PushWord(g, st, w, {})
           filled == FillWord(g, st, w)
           wider == ToSet(st.outs) \cup {o}
<1>1. r = IF ~st.more THEN [st EXCEPT !.more = FALSE] ELSE [filled EXCEPT !.outs = Append(@, o)]
  BY DEF PushWord
<1>2. /\ Filling(g, base, wider, st) /\ o \in wider
      /\ st = [hier |-> st.hier, todo |-> st.todo, done |-> st.done, outs |-> st.outs, more |-> st.more]
  <2>1. ToSet(st.outs) \subseteq wider OBVIOUS
  <2>2. o \in wider OBVIOUS
  <2> HIDE DEF wider, o
  <2>3. Filling(g, base, wider, st) BY <2>1, MoreInWords
  <2>4. QED BY <2>2, <2>3 DEF Filling
<1> HIDE DEF r, wider
<1>3. CASE ~st.more
  <2>1. r = [st EXCEPT !.more = FALSE] BY <1>1, <1>3
  <2>2. r.done = st.done BY <1>2, <2>1
  <2>3. QED BY <1>3, <2>2 DEF r
<1>4. CASE st.more
  <2>1. Filling(g, base, wider, filled) BY <1>2, WordFilled
  <2>2. filled.done # <<>> BY <1>2, WordDone
  <2> HIDE DEF filled, o
  <2>3. r = [filled EXCEPT !.outs = Append(@, o)] BY <1>1, <1>4
  <2>4. filled = [hier |-> filled.hier, todo |-> filled.todo, done |-> filled.done,
                  outs |-> filled.outs, more |-> filled.more]
    BY <2>1 DEF Filling
  <2>5. r.done = filled.done BY <2>3, <2>4
  <2>6. QED BY <2>2, <2>5 DEF r
<1>5. QED BY <1>3, <1>4

PushedStep(c, st, w) == PushWord(c.g, st, w, {})
PushedInv(c, i, st) == PushInv(c, i, st) /\ (i = 0 => st = c.start) /\ (i # 0 => st.done # <<>>)
PushedFold == INSTANCE FoldProofs WITH Op <- PushedStep, Inv <- PushedInv

(* Pushing endpoints into an empty hierarchy does one at least, if all of  *)
(* them are due.                                                           *)
LEMMA EndpointsDone ==
  ASSUME NEW g, GraphOk(g), NEW hier, HierOk(g, hier), Visited(hier) = {},
         NEW todo \in Seq(LowPins(g)), IsInjective(todo), ToSet(todo) \subseteq g.goals, todo # <<>>
  PROVE  PushEndpoints(g, hier, todo, Spaces(hier), {}).done # <<>>
<1> DEFINE base == [hier |-> hier, todo |-> todo, done |-> <<>>, outs |-> <<>>, more |-> TRUE]
           c == [g |-> g, base |-> hier, start |-> base]
           seq == Spaces(hier)
           n == Len(seq)
           W == 0 .. Width(1) \div Word - 1
<1>1. seq \in Seq(W) BY SpacesTyped
<1>2. seq # <<>> /\ \A w \in W : hier[1][w * Word] = Free BY SpacesOpen
<1> HIDE DEF seq, W
<1>3. DOMAIN seq = 1 .. n /\ n \in Nat \ {0} /\ \A i \in 1 .. n : seq[i] \in W
  BY <1>1, <1>2, ToSetOf
<1> HIDE DEF n
<1>4. c.g = g /\ c.base = hier /\ c.start = base OBVIOUS
<1>5. /\ base.hier = hier /\ base.todo = todo /\ base.done = <<>> /\ base.outs = <<>> /\ base.more
      /\ base = [hier |-> base.hier, todo |-> base.todo, done |-> base.done,
                 outs |-> base.outs, more |-> base.more]
  OBVIOUS
<1> HIDE DEF base, c
<1>6. PushedInv(c, 0, base)
  <2>1. ToSet(<<>>) = {} /\ IsInjective(<<>>) BY DEF ToSet, IsInjective
  <2>2. Grows(hier, hier) BY DEF Grows
  <2>3. <<>> \in Seq(0 .. Width(0) \div Word - 1) /\ <<>> \in Seq(DOMAIN g.level) OBVIOUS
  <2>4. Filling(g, hier, {}, base) BY <1>5, <2>1, <2>2, <2>3 DEF Filling
  <2>5. QED BY <1>4, <1>5, <2>1, <2>3, <2>4 DEF PushInv, PushedInv
<1>7. PushedFold!Steps(c, seq)
  <2>1. SUFFICES ASSUME NEW i \in 1 .. n, NEW s, PushedInv(c, i - 1, s)
                 PROVE  PushedInv(c, i, PushedStep(c, s, seq[i]))
    BY <1>3 DEF PushedFold!Steps
  <2>2. /\ Filling(g, hier, ToSet(s.outs), s) /\ s.outs \in Seq(0 .. Width(0) \div Word - 1)
        /\ (i - 1 = 0 => s = base) /\ (i - 1 # 0 => s.done # <<>>)
    BY <1>4, <2>1 DEF PushedInv, PushInv
  <2> DEFINE w == seq[i]
             r == PushWord(g, s, w, {})
  <2>3. w \in 0 .. Width(1) \div Word - 1 BY <1>3 DEF W
  <2>4. hier[1][w * Word] = Free BY <1>2, <1>3
  <2> HIDE DEF w
  <2>5. Filling(g, hier, ToSet(r.outs), r) /\ r.outs \in Seq(0 .. Width(0) \div Word - 1)
    BY <2>2, <2>3, WordPushed
  <2>6. s.done # <<>> \/ (s.more /\ s.todo # <<>> /\ s.hier[1][w * Word] = Free)
    BY <1>5, <2>2, <2>4
  <2>7. r.done # <<>> BY <2>2, <2>3, <2>6, PushDone
  <2>8. PushedStep(c, s, w) = r BY <1>4 DEF PushedStep
  <2> HIDE DEF r
  <2>9. i # 0 BY <1>3
  <2>10. PushedInv(c, i, r) BY <1>4, <2>5, <2>7, <2>9 DEF PushInv, PushedInv
  <2>11. QED BY <2>8, <2>10 DEF w
<1>8. PushedInv(c, n, PushedFold!Folded(c, base, seq)) BY <1>3, <1>6, <1>7, PushedFold!FoldKeeps
<1>9. PushedFold!Folded(c, base, seq) = PushEndpoints(g, hier, todo, Spaces(hier), {})
  BY <1>4 DEF base, PushEndpoints, PushedFold!Folded, PushedStep, FoldLeft, MapThenFoldSet, Max, seq,
         PushedFold!Highest
<1>10. QED BY <1>3, <1>8, <1>9 DEF PushedInv

(* A sequence that repeats nothing is as long as it has elements.          *)
LEMMA LengthIs ==
  ASSUME NEW T, NEW s \in Seq(T), IsInjective(s)
  PROVE  IsFiniteSet(ToSet(s)) /\ Cardinality(ToSet(s)) = Len(s)
<1> DEFINE n == Len(s)
<1>1. /\ DOMAIN s = 1 .. n /\ n \in Nat /\ \A i \in 1 .. n : s[i] \in ToSet(s)
      /\ \A x \in ToSet(s) : \E i \in 1 .. n : s[i] = x
  BY ToSetOf
<1> HIDE DEF n
<1>2. s \in [1 .. n -> ToSet(s)]
  <2>1. s = [i \in 1 .. n |-> s[i]] BY <1>1 DEF n
  <2>2. QED BY <1>1, <2>1
<1>3. s \in Bijection(1 .. n, ToSet(s))
  <2>1. s \in Injection(1 .. n, ToSet(s)) BY <1>2 DEF Injection
  <2>2. s \in Surjection(1 .. n, ToSet(s)) BY <1>1, <1>2 DEF Surjection
  <2>3. QED BY <2>1, <2>2 DEF Bijection
<1>4. ExistsBijection(1 .. n, ToSet(s)) BY <1>3 DEF ExistsBijection
<1>5. IsFiniteSet(1 .. n) /\ Cardinality(1 .. n) = n
  <2>1. IsFiniteSet(1 .. n) /\ Cardinality(1 .. n) = IF 1 > n THEN 0 ELSE n - 1 + 1 BY <1>1, FS_Interval
  <2>2. QED BY <1>1, <2>1
<1>6. QED BY <1>4, <1>5, FS_Bijection DEF n

(* A stage that is not refused leaves fewer pins to realize, or adds to    *)
(* the realized ones: if its upper levels take in nothing new, level 1     *)
(* takes one of the pins.                                                  *)
LEMMA StageAdvances ==
  ASSUME NEW g, GraphOk(g), NEW up, Stage(g, up),
         NEW pins \in Seq(1 .. Len(g.aig)), IsInjective(pins), ToSet(pins) = g.goals, pins # <<>>,
         NEW written_ \in Nat, NEW limit, limit \in Int,
         ~LowerPart(LevelUp(up, pins), pins, written_, limit).refused
  PROVE  LET s == LowerPart(LevelUp(up, pins), pins, written_, limit) IN
         Len(s.unrealized) < Len(pins) \/ s.realized # g.realized
<1> DEFINE s == LowerPart(LevelUp(up, pins), pins, written_, limit)
           hier == s.stage.hier
           nec == up.necessary
           done == LevelUp(up, pins).pushed.done
           S == Level1Necessary(g, Visited(up.hier), ReverseLevels(g, up.hier))
<1>0. /\ HierOk(g, hier) /\ Grows(up.hier, hier)
      /\ ToSet(nec) \subseteq Visited(hier)
      /\ s.stage.outs \in Seq(OutWords) /\ written_ + Len(s.stage.outs) <= limit
      /\ s.realized = g.realized \cup Visited(hier)
      /\ s.unrealized \in Seq(1 .. Len(g.aig)) /\ IsInjective(s.unrealized)
      /\ ToSet(s.unrealized) \subseteq g.goals
      /\ ToSet(done) \cap ToSet(s.unrealized) = {}
      /\ \A p \in g.goals \ ToSet(s.unrealized) : GoesOut(s.stage, p)
  BY StageClosed, Zenon
<1>1. /\ HierOk(g, hier) /\ Grows(up.hier, hier) /\ ToSet(nec) \subseteq Visited(hier)
      /\ s.realized = g.realized \cup Visited(hier)
      /\ s.unrealized \in Seq(1 .. Len(g.aig)) /\ IsInjective(s.unrealized)
      /\ ToSet(s.unrealized) \subseteq g.goals
      /\ ToSet(done) \cap ToSet(s.unrealized) = {}
  <2> HIDE DEF s, done, nec
  <2>1. QED BY <1>0
<1>2. SUFFICES ASSUME s.realized = g.realized PROVE Len(s.unrealized) < Len(pins) OBVIOUS
<1> HIDE DEF s
<1>3. Visited(hier) \subseteq g.realized BY <1>1, <1>2
<1>4. up.g = g /\ HierOk(g, up.hier) /\ HasGate(g, up.hier) /\ up.inHier = g.goals \cap Visited(up.hier)
  BY DEF Stage
<1>5. \A p \in DOMAIN g.level : p \in g.realized => g.level[p] = 0 BY PinOk DEF Inner
<1>6. Visited(up.hier) = {}
  <2>1. Visited(up.hier) \subseteq Visited(hier) BY <1>1, VisitedGrows
  <2>2. Visited(up.hier) \subseteq DOMAIN g.level BY <1>4, VisitedTyped
  <2>3. \A p \in Visited(up.hier) : g.level[p] = 0 BY <1>3, <1>5, <2>1, <2>2
  <2>4. QED BY <1>4, <2>3 DEF HasGate
<1>7. /\ nec \in Seq(LowPins(g)) /\ ToSet(nec) \cap Visited(up.hier) = {}
      /\ \A p \in DOMAIN g.level \cap S : p \in ToSet(nec)
  BY NecessaryLow
<1> HIDE DEF S
<1>8. \A p \in DOMAIN g.level \cap S : g.level[p] = 0 BY <1>1, <1>3, <1>5, <1>7
<1>9. g.goals \subseteq ToSet(nec)
  <2>1. g.goals \subseteq S BY <1>6, <1>8, NoGateDue DEF S
  <2>2. g.goals \subseteq DOMAIN g.level BY DEF GraphOk
  <2>3. QED BY <1>7, <2>1, <2>2
<1> DEFINE due == ToSet(nec) \ up.inHier
           inLevel1 == Kept(pins, due)
           untouched == (up.g.goals \ up.inHier) \ ToSet(inLevel1)
           pushed == PushEndpoints(up.g, up.hier, inLevel1, Spaces(up.hier), untouched)
<1>10. done = pushed.done
  <2>1. LevelUp(up, pins) = [g |-> up.g, necessary |-> nec, inHier |-> up.inHier, untouched |-> untouched,
                             pushed |-> pushed]
    BY DEF LevelUp, FillLevel1
  <2> HIDE DEF pushed, untouched
  <2>2. QED BY <2>1
<1>11. inLevel1 \in Seq(1 .. Len(g.aig)) /\ ToSet(inLevel1) = ToSet(pins) \cap due /\ IsInjective(inLevel1)
  BY KeptIs
<1> HIDE DEF inLevel1
<1>12. ToSet(inLevel1) = g.goals BY <1>4, <1>6, <1>9, <1>11
<1>13. untouched = {} BY <1>4, <1>12
<1>14. inLevel1 \in Seq(LowPins(g))
  <2>1. ToSet(nec) \subseteq LowPins(g) BY <1>7, ToSetOf
  <2>2. ToSet(inLevel1) \subseteq LowPins(g) BY <1>9, <1>12, <2>1
  <2>3. QED BY <1>11, <2>2, Narrower
<1>15. g.goals # {}
  <2>1. DOMAIN pins = 1 .. Len(pins) /\ Len(pins) \in Nat /\ \A i \in 1 .. Len(pins) : pins[i] \in ToSet(pins)
    BY ToSetOf
  <2>2. 1 \in 1 .. Len(pins) BY <2>1
  <2>3. QED BY <2>1, <2>2
<1>16. inLevel1 # <<>>
  <2>1. ToSet(<<>>) = {} BY DEF ToSet
  <2>2. QED BY <1>12, <1>15, <2>1
<1>17. done # <<>>
  <2>1. ToSet(inLevel1) \subseteq g.goals BY <1>12
  <2>2. PushEndpoints(g, up.hier, inLevel1, Spaces(up.hier), {}).done # <<>>
    BY <1>4, <1>6, <1>11, <1>14, <1>16, <2>1, EndpointsDone
  <2>3. pushed = PushEndpoints(g, up.hier, inLevel1, Spaces(up.hier), {}) BY <1>4, <1>13
  <2> HIDE DEF pushed, done
  <2>4. QED BY <1>10, <2>2, <2>3
<1> HIDE DEF untouched, pushed
<1>18. done \in Seq(DOMAIN g.level) /\ ToSet(done) \subseteq g.goals
  <2>1. Filling(g, up.hier, ToSet(LevelUp(up, pins).pushed.outs), LevelUp(up, pins).pushed) BY LevelPushed
  <2>2. QED BY <2>1 DEF Filling
<1> HIDE DEF done
<1>19. PICK x : x \in ToSet(done)
  <2>1. /\ DOMAIN done = 1 .. Len(done) /\ Len(done) \in Nat
        /\ \A i \in 1 .. Len(done) : done[i] \in ToSet(done)
    BY <1>18, ToSetOf
  <2>2. 1 \in 1 .. Len(done) BY <1>17, <1>18, <2>1
  <2>3. QED BY <2>1, <2>2
<1>20. ToSet(s.unrealized) # ToSet(pins) BY <1>1, <1>18, <1>19
<1>21. /\ IsFiniteSet(ToSet(pins)) /\ Cardinality(ToSet(pins)) = Len(pins)
       /\ Cardinality(ToSet(s.unrealized)) = Len(s.unrealized)
  BY <1>1, LengthIs
<1>22. /\ Cardinality(ToSet(s.unrealized)) <= Cardinality(ToSet(pins))
       /\ Cardinality(ToSet(s.unrealized)) # Cardinality(ToSet(pins))
  <2>1. ToSet(s.unrealized) \in SUBSET ToSet(pins) BY <1>1
  <2>2. QED BY <1>20, <1>21, <2>1, FS_Subset
<1>23. Len(pins) \in Nat /\ Len(s.unrealized) \in Nat BY <1>1, ToSetOf
<1>24. QED BY <1>21, <1>22, <1>23 DEF s

(* A stage built as the code builds it makes progress.                     *)
LEMMA MapperAdvances ==
  ASSUME BuiltAsCoded, MapInv, MapStage
  PROVE  /\ ToSet(unrealized') \subseteq ToSet(unrealized) /\ realized \subseteq realized'
         /\ Len(unrealized') < Len(unrealized) \/ realized' # realized
<1> DEFINE g == Subgraph(part.aig, unrealized, realized)
           up == StartStage(g)
           s == LowerPart(LevelUp(up, unrealized), unrealized, written, Limit)
<1>1. /\ part \in Partitions
      /\ unrealized \in Seq(1 .. Len(part.aig)) /\ IsInjective(unrealized) /\ written \in Nat
  BY DEF MapInv
<1>2. Built = s BY DEF BuiltAsCoded, Built, BuildStage
<1>3. /\ unrealized # <<>> /\ ~s.refused /\ unrealized' = s.unrealized /\ realized' = s.realized
  <2> HIDE DEF s
  <2>1. QED BY <1>2 DEF MapStage
<1>4. /\ part.aig \in Seq(Driver) /\ Acyclic(part.aig) /\ Simplified(part.aig)
  BY <1>1, PartitionAssumption
<1>5. GraphOk(g) /\ g.aig = part.aig /\ g.goals = ToSet(unrealized) /\ g.realized = realized
  BY <1>1, <1>3, <1>4, SubgraphOk
<1> HIDE DEF g
<1>6. Stage(g, up) BY <1>5, Started
<1> HIDE DEF up
<1>7. Limit \in Int
  <2>1. Limit = MaxWriteouts - Reserved(part.endpoints).words BY DEF Limit
  <2>2. Reserved(part.endpoints).words \in Int /\ MaxWriteouts \in Nat BY <1>1, ReservedTyped, SizeAssumption
  <2>3. QED BY <2>1, <2>2
<1>8. /\ s.realized = g.realized \cup Visited(s.stage.hier) /\ ToSet(s.unrealized) \subseteq g.goals
  BY <1>1, <1>3, <1>5, <1>6, <1>7, StageClosed
<1>9. Len(s.unrealized) < Len(unrealized) \/ s.realized # g.realized
  BY <1>1, <1>3, <1>5, <1>6, <1>7, StageAdvances
<1> HIDE DEF s
<1>10. QED BY <1>3, <1>5, <1>8, <1>9

(* No stage of the code's is idle: each leaves fewer pins to realize or    *)
(* realizes another one, and forgets none, so that the loop that builds    *)
(* them comes to an end (pe.rs:550).                                       *)
THEOREM AlwaysAdvances ==
  ASSUME BuiltAsCoded
  PROVE  Spec => StagesAdvance
<1> DEFINE A == Len(stages') > Len(stages) =>
                  /\ ToSet(unrealized') \subseteq ToSet(unrealized) /\ realized \subseteq realized'
                  /\ Len(unrealized') < Len(unrealized) \/ realized' # realized
<1>1. Spec => []MapInv BY MapperInvariance
<1>2. MapInv /\ [Next]_vars => [A]_vars
  <2> SUFFICES ASSUME MapInv, [Next]_vars PROVE A OBVIOUS
  <2>1. CASE MapStage BY <2>1, MapperAdvances
  <2>2. CASE UNCHANGED stages
    <3>1. PICK S : stages \in Seq(S) BY DEF MapInv, Sequential
    <3>2. Len(stages) \in Nat /\ Len(stages') = Len(stages) BY <2>2, <3>1
    <3>3. QED BY <3>2
  <2>3. CASE Refuse BY <2>2, <2>3 DEF Refuse, mapping
  <2>4. CASE Flatten BY <2>2, <2>4 DEF Flatten, mapping
  <2>5. CASE FlattenStage BY <2>2, <2>5 DEF FlattenStage, mapping
  <2>6. CASE Load BY <2>2, <2>6 DEF Load, mapping
  <2>7. CASE RunStage BY <2>2, <2>7 DEF RunStage, mapping
  <2>8. CASE StoreOutputs BY <2>2, <2>8 DEF StoreOutputs, mapping
  <2>9. CASE UNCHANGED vars BY <2>2, <2>9 DEF vars, mapping
  <2>10. QED BY <2>1, <2>3, <2>4, <2>5, <2>6, <2>7, <2>8, <2>9 DEF Next
<1>3. QED BY <1>1, <1>2, PTL DEF Spec, StagesAdvance
=============================================================================
