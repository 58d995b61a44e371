-------------------------- MODULE GemActiveSafety --------------------------
(***************************************************************************)
(* Why pruning is invisible: the inductive invariant behind                *)
(* GatheredIsCurrent and SkipIsInvisible, for every script, circuit,       *)
(* number of blocks, stages and cycles that satisfies the assumptions of   *)
(* GemScript; first the types.                                             *)
(*                                                                         *)
(* The argument.  The grid barrier keeps the blocks in lockstep, so the    *)
(* bits a partition gathers cannot change once its block has entered the   *)
(* stage (GatherStable).  Hence the signature stored for a slot is that of *)
(* the inputs its partition has in the last cycle it was loaded            *)
(* (SignatureKept), the change flag of a loaded partition is exact         *)
(* (ChangeKnown), and the enabled outputs of a finished partition are a    *)
(* function of the inputs it still has (OutputsSettled).  A partition that *)
(* is skipped has unchanged inputs, so evaluating it again would rewrite   *)
(* what it wrote last time.                                                *)
(***************************************************************************)
EXTENDS GemActive, TLAPS, FiniteSetTheorems

LEMMA ScriptType ==
  ASSUME NEW k \in Slot, NEW i \in 1 .. Len(Script[k])
  PROVE  Script[k][i] \in Part
BY ScriptAssumption

(* A gathered vector has one Boolean per entry of the gather list. *)
LEMMA GatherType ==
  ASSUME NEW p \in Part, NEW before \in StateVector, NEW after \in StateVector
  PROVE  Gather(p, before, after) \in PackedInput(p)
<1>1. \A n \in 1 .. Len(Reads[p]) : Reads[p][n] \in Entry
  BY ReadsAssumption
<1>2. \A n \in 1 .. Len(Reads[p]) : Reads[p][n].bit \in Bit
  BY <1>1 DEF Entry
<1>3. SUFFICES ASSUME NEW n \in 1 .. Len(Reads[p])
               PROVE  (IF Reads[p][n].staged THEN after[Reads[p][n].bit]
                                             ELSE before[Reads[p][n].bit]) \in BOOLEAN
  BY DEF Gather, PackedInput
<1>4. QED BY <1>2 DEF StateVector

LEMMA PackedIsSeq ==
  ASSUME NEW p \in Part, NEW in \in PackedInput(p)
  PROVE  in \in Seq(BOOLEAN)
<1>1. Len(Reads[p]) \in Nat BY ReadsAssumption
<1>2. QED BY <1>1 DEF PackedInput

LEMMA EvaluateType ==
  ASSUME NEW p \in Part, NEW in \in PackedInput(p),
         NEW before \in StateVector, NEW memory \in [SramBit -> Memory]
  PROVE  Evaluate(p, in, before, memory) \in [Outs[p] -> BOOLEAN]
<1>1. Outs[p] \subseteq Bit BY OutsAssumption
<1> SUFFICES ASSUME NEW x \in Outs[p]
             PROVE  WriteOut(p, x, in, before[x], memory) \in BOOLEAN
  BY DEF Evaluate
<1>2. before[x] \in BOOLEAN BY <1>1 DEF StateVector
<1>3. Eval(x, in) \in BOOLEAN BY CircuitAssumption
<1>4. ASSUME x \in Srams[p] PROVE memory[x][RAddr(x, in)] \in BOOLEAN
  <2>1. x \in SramBit BY <1>4 DEF SramBit
  <2>2. RAddr(x, in) \in Addr BY <1>4, CircuitAssumption
  <2>3. QED BY <2>1, <2>2 DEF Memory
<1>5. QED BY <1>2, <1>3, <1>4 DEF WriteOut, NewBit

LEMMA OverwriteType ==
  ASSUME NEW p \in Part, NEW state \in StateVector, NEW new \in [Outs[p] -> BOOLEAN]
  PROVE  Overwrite(state, p, new) \in StateVector
BY DEF Overwrite, StateVector

LEMMA CommitRamType ==
  ASSUME NEW p \in Part, NEW in \in PackedInput(p), NEW memory \in [SramBit -> Memory]
  PROVE  CommitRam(p, in, memory) \in [SramBit -> Memory]
<1> SUFFICES ASSUME NEW x \in SramBit, x \in Srams[p]
             PROVE  [memory[x] EXCEPT ![WAddr(x, in)] = WData(x, in)] \in Memory
  BY DEF CommitRam
<1>1. x \in Outs[p] BY OutsAssumption
<1>2. WData(x, in) \in BOOLEAN BY <1>1, CircuitAssumption
<1>3. QED BY <1>2 DEF Memory

LEMMA ToggledType ==
  ASSUME NEW p \in Part, NEW before, NEW after
  PROVE  Toggled(p, before, after) \in Nat
<1>1. IsFiniteSet(Outs[p]) BY OutsAssumption
<1>2. IsFiniteSet({x \in Outs[p] : before[x] # after[x]}) BY <1>1, FS_Subset
<1>3. QED BY <1>2, FS_CardinalityType DEF Toggled

----------------------------------------------------------------------------
LEMMA InitTypeOK == Init => TypeOK
<1> SUFFICES ASSUME Init PROVE TypeOK
  OBVIOUS
<1> USE RunAssumption
<1>1. states \in [0 .. NumCycles -> StateVector]
  BY DEF Init, StateVector
<1>2. ram \in [SramBit -> Memory]
  BY DEF Init, Memory
<1>3. prevSig \in [Slot -> SigValue] /\ profile \in [Slot -> Counts]
  BY DEF Init, SigValue, Counts, NoCounts
<1>4. /\ cycle \in [Block -> 0 .. NumCycles]
      /\ stage \in [Block -> Stage]
      /\ part \in [Block -> Nat \ {0}]
  BY DEF Init, Stage
<1>5. loaded \in [Block -> Shared]
  BY DEF Init, Shared, NotLoaded
<1>6. ASSUME NEW b \in Block
      PROVE  part[b] <= Len(Script[Here(b)]) + 1 /\ ~loaded[b].full
  <2>1. Here(b) \in Slot BY <1>4 DEF Here, Slot
  <2>2. Len(Script[Here(b)]) \in Nat BY <2>1, ScriptAssumption
  <2>3. QED BY <2>2 DEF Init, NotLoaded
<1>7. QED BY <1>1, <1>2, <1>3, <1>4, <1>5, <1>6 DEF TypeOK

(* What TypeOK says about a block that is about to run a partition. *)
LEMMA RunningFacts ==
  ASSUME TypeOK, NEW b \in Block, Running(b)
  PROVE  /\ Here(b) \in Slot
         /\ Len(Script[Here(b)]) \in Nat
         /\ cycle[b] \in 0 .. NumCycles /\ cycle[b] + 1 \in 0 .. NumCycles
         /\ states[cycle[b]] \in StateVector
         /\ states[cycle[b] + 1] \in StateVector
         /\ ~AtEnd(b) => /\ part[b] \in 1 .. Len(Script[Here(b)])
                         /\ Current(b) \in Part
<1> USE RunAssumption
<1>1. Here(b) \in Slot BY DEF TypeOK, Here, Slot
<1>2. Len(Script[Here(b)]) \in Nat BY <1>1, ScriptAssumption
<1>3. cycle[b] \in 0 .. NumCycles /\ cycle[b] + 1 \in 0 .. NumCycles
  BY DEF TypeOK, Running
<1>4. states[cycle[b]] \in StateVector /\ states[cycle[b] + 1] \in StateVector
  BY <1>3 DEF TypeOK
<1>5. ASSUME ~AtEnd(b)
      PROVE  part[b] \in 1 .. Len(Script[Here(b)]) /\ Current(b) \in Part
  <2>1. part[b] \in 1 .. Len(Script[Here(b)]) BY <1>2, <1>5 DEF TypeOK, AtEnd
  <2>2. QED BY <1>1, <2>1, ScriptType DEF Current
<1>6. QED BY <1>1, <1>2, <1>3, <1>4, <1>5

LEMMA LoadTypeOK ==
  ASSUME TypeOK, NEW b \in Block, Load(b)
  PROVE  TypeOK'
<1> DEFINE p      == Current(b)
           packed == Gather(p, states[cycle[b]], states[cycle[b] + 1])
           signed == EnableProfile \/ EnablePrune
           entry  == [packed  |-> packed,
                      full    |-> TRUE,
                      changed |-> signed /\ Sig(packed) # prevSig[Here(b)],
                      skip    |-> signed /\ CanSkip(b, Sig(packed), prevSig[Here(b)])]
<1>1. Running(b) /\ ~AtEnd(b) BY DEF Load
<1>2. /\ Here(b) \in Slot /\ p \in Part
      /\ states[cycle[b]] \in StateVector /\ states[cycle[b] + 1] \in StateVector
  BY <1>1, RunningFacts
<1>3. packed \in PackedInput(p) BY <1>2, GatherType
<1>4. packed \in Seq(BOOLEAN) BY <1>2, <1>3, PackedIsSeq
<1>5. Sig(packed) \in SigValue BY <1>2, <1>3 DEF SigValue
<1>6. entry \in Shared
  <2>1. entry.changed \in BOOLEAN /\ entry.skip \in BOOLEAN
    BY ModeAssumption DEF CanSkip
  <2>2. QED BY <2>1, <1>4 DEF Shared
<1>7. loaded' = [loaded EXCEPT ![b] = entry] BY DEF Load
<1>8. loaded' \in [Block -> Shared] BY <1>6, <1>7 DEF TypeOK
<1>9. prevSig' \in [Slot -> SigValue] BY <1>2, <1>5 DEF TypeOK, Load
<1>10. UNCHANGED <<states, ram, profile, cycle, stage, part>> BY DEF Load
<1>11. ASSUME NEW a \in Block
       PROVE  /\ part[a] <= Len(Script[Here(a)]) + 1
              /\ loaded'[a].full => /\ Running(a) /\ ~AtEnd(a)
                                    /\ loaded'[a].packed \in PackedInput(Current(a))
  <2>1. CASE a = b
    <3>1. loaded'[a] = entry BY <2>1, <1>7 DEF TypeOK
    <3>2. QED BY <2>1, <3>1, <1>1, <1>3 DEF TypeOK
  <2>2. CASE a # b
    <3>1. loaded'[a] = loaded[a] BY <2>2, <1>7 DEF TypeOK
    <3>2. QED BY <3>1 DEF TypeOK
  <2>3. QED BY <2>1, <2>2
<1>12. QED
  BY <1>8, <1>9, <1>10, <1>11 DEF TypeOK, Here, Running, AtEnd, Current

(* Block b finishes the partition it had loaded. *)
LEMMA NextPartTypeOK ==
  ASSUME TypeOK, NEW b \in Block, loaded[b].full, NextPart(b)
  PROVE  /\ prevSig' \in [Slot -> SigValue]
         /\ cycle' \in [Block -> 0 .. NumCycles]
         /\ stage' \in [Block -> Stage]
         /\ part' \in [Block -> Nat \ {0}]
         /\ loaded' \in [Block -> Shared]
         /\ \A a \in Block :
              /\ part'[a] <= Len(Script[<<stage'[a], a>>]) + 1
              /\ loaded'[a].full =>
                   /\ cycle'[a] < NumCycles
                   /\ ~(part'[a] > Len(Script[<<stage'[a], a>>]))
                   /\ loaded'[a].packed \in PackedInput(Script[<<stage'[a], a>>][part'[a]])
<1>1. Running(b) /\ ~AtEnd(b) BY DEF TypeOK
<1>2. part[b] \in 1 .. Len(Script[Here(b)]) /\ Len(Script[Here(b)]) \in Nat
  BY <1>1, RunningFacts
<1>3. NotLoaded \in Shared BY DEF NotLoaded, Shared
<1>4. UNCHANGED <<prevSig, cycle, stage>> BY DEF NextPart
<1>5. loaded' \in [Block -> Shared] BY <1>3 DEF NextPart, TypeOK
<1>6. part' \in [Block -> Nat \ {0}] BY DEF NextPart, TypeOK
<1>7. ASSUME NEW a \in Block
      PROVE  /\ part'[a] <= Len(Script[<<stage[a], a>>]) + 1
             /\ loaded'[a].full =>
                  /\ cycle[a] < NumCycles
                  /\ ~(part'[a] > Len(Script[<<stage[a], a>>]))
                  /\ loaded'[a].packed \in PackedInput(Script[<<stage[a], a>>][part'[a]])
  <2>1. CASE a = b
    <3>1. part'[a] = part[b] + 1 /\ ~loaded'[a].full
      BY <2>1 DEF NextPart, TypeOK, NotLoaded
    <3>2. QED BY <2>1, <3>1, <1>2 DEF Here
  <2>2. CASE a # b
    <3>1. part'[a] = part[a] /\ loaded'[a] = loaded[a] BY <2>2 DEF NextPart, TypeOK
    <3>2. QED BY <3>1 DEF TypeOK, Here, Running, AtEnd, Current
  <2>3. QED BY <2>1, <2>2
<1>8. QED BY <1>4, <1>5, <1>6, <1>7 DEF TypeOK

LEMMA SkipTypeOK ==
  ASSUME TypeOK, NEW b \in Block, Skip(b)
  PROVE  TypeOK'
<1> DEFINE p == Current(b)
           c == cycle[b]
<1>1. loaded[b].full /\ NextPart(b) BY DEF Skip
<1>2. Running(b) /\ ~AtEnd(b) BY <1>1 DEF TypeOK
<1>3. /\ Here(b) \in Slot /\ p \in Part /\ c + 1 \in 0 .. NumCycles
      /\ states[c] \in StateVector /\ states[c + 1] \in StateVector
  BY <1>2, RunningFacts
<1>4. Overwrite(states[c + 1], p, states[c]) \in StateVector
  BY <1>3 DEF Overwrite, StateVector
<1>5. states' \in [0 .. NumCycles -> StateVector]
  BY <1>3, <1>4 DEF Skip, CopyForward, TypeOK
<1>6. profile' \in [Slot -> Counts]
  <2>1. profile[Here(b)] \in Counts BY <1>3 DEF TypeOK
  <2> DEFINE old == profile[Here(b)]
  <2>2. [cycles        |-> old.cycles + 1,
         inputChanged  |-> old.inputChanged,
         outputChanged |-> old.outputChanged,
         toggles       |-> old.toggles,
         skipped       |-> old.skipped + 1] \in Counts
    BY <2>1 DEF Counts
  <2>3. QED BY <2>2, <1>3 DEF Skip, CountSkip, TypeOK
<1>7. ram' = ram BY DEF Skip
<1>8. QED
  BY <1>1, <1>5, <1>6, <1>7, NextPartTypeOK DEF TypeOK, Here, Running, AtEnd, Current

LEMMA ExecuteTypeOK ==
  ASSUME TypeOK, NEW b \in Block, Execute(b)
  PROVE  TypeOK'
<1> DEFINE p   == Current(b)
           c   == cycle[b]
           in  == loaded[b].packed
           new == Evaluate(p, in, states[c], ram)
<1>1. loaded[b].full /\ NextPart(b) BY DEF Execute
<1>2. Running(b) /\ ~AtEnd(b) /\ in \in PackedInput(p) BY <1>1 DEF TypeOK
<1>3. /\ Here(b) \in Slot /\ p \in Part /\ c + 1 \in 0 .. NumCycles
      /\ states[c] \in StateVector /\ states[c + 1] \in StateVector
  BY <1>2, RunningFacts
<1>4. ram \in [SramBit -> Memory] BY DEF TypeOK
<1>5. new \in [Outs[p] -> BOOLEAN] BY <1>2, <1>3, <1>4, EvaluateType
<1>6. Overwrite(states[c + 1], p, new) \in StateVector
  BY <1>3, <1>5, OverwriteType
<1>7. states' = [states EXCEPT ![c + 1] = Overwrite(@, p, new)] BY DEF Execute
<1>8. states' \in [0 .. NumCycles -> StateVector]
  BY <1>3, <1>6, <1>7 DEF TypeOK
<1>9. ram' = CommitRam(p, in, ram) BY DEF Execute
<1>10. ram' \in [SramBit -> Memory] BY <1>2, <1>3, <1>4, <1>9, CommitRamType
<1>11. profile' \in [Slot -> Counts]
  <2> DEFINE toggled == Toggled(p, states[c], new)
  <2>1. toggled \in Nat BY <1>3, ToggledType
  <2>2. CountRun(b, toggled) BY DEF Execute
  <2>3. profile \in [Slot -> Counts] /\ profile[Here(b)] \in Counts BY <1>3 DEF TypeOK
  <2> HIDE DEF toggled
  <2> DEFINE old == profile[Here(b)]
  <2>4. [cycles        |-> old.cycles + 1,
         inputChanged  |-> old.inputChanged + One(cycle[b] > 0 /\ loaded[b].changed),
         outputChanged |-> old.outputChanged + One(toggled # 0),
         toggles       |-> old.toggles + toggled,
         skipped       |-> old.skipped] \in Counts
    BY <2>1, <2>3 DEF Counts, One
  <2>5. QED BY <2>2, <2>3, <2>4 DEF CountRun
<1>12. QED
  BY <1>1, <1>8, <1>10, <1>11, NextPartTypeOK DEF TypeOK, Here, Running, AtEnd, Current

LEMMA SyncTypeOK ==
  ASSUME TypeOK, NEW b \in Block, NextStage(b) \/ NextCycle(b)
  PROVE  TypeOK'
<1> USE RunAssumption
<1>1. Running(b) /\ AtEnd(b) BY DEF NextStage, NextCycle, Released
<1>2. ~loaded[b].full BY <1>1 DEF TypeOK
<1>3. /\ UNCHANGED <<states, ram, prevSig, profile, loaded>>
      /\ part' = [part EXCEPT ![b] = 1]
  BY DEF NextStage, NextCycle
<1>4. /\ cycle' \in [Block -> 0 .. NumCycles]
      /\ stage' \in [Block -> Stage]
      /\ \A a \in Block \ {b} : cycle'[a] = cycle[a] /\ stage'[a] = stage[a]
  <2>1. cycle \in [Block -> 0 .. NumCycles] /\ stage \in [Block -> Stage] /\ cycle[b] < NumCycles
    BY <1>1 DEF TypeOK, Running
  <2>2. CASE NextStage(b)
    BY <2>1, <2>2 DEF NextStage, Stage
  <2>3. CASE NextCycle(b)
    BY <2>1, <2>3 DEF NextCycle, Stage
  <2>4. QED BY <2>2, <2>3
<1>5. part' \in [Block -> Nat \ {0}] BY <1>3 DEF TypeOK
<1>6. ASSUME NEW a \in Block
      PROVE  /\ part'[a] <= Len(Script[<<stage'[a], a>>]) + 1
             /\ loaded[a].full =>
                  /\ cycle'[a] < NumCycles
                  /\ ~(part'[a] > Len(Script[<<stage'[a], a>>]))
                  /\ loaded[a].packed \in PackedInput(Script[<<stage'[a], a>>][part'[a]])
  <2>1. CASE a = b
    <3>1. <<stage'[a], a>> \in Slot BY <1>4 DEF Slot
    <3>2. Len(Script[<<stage'[a], a>>]) \in Nat BY <3>1, ScriptAssumption
    <3>3. part'[a] = 1 BY <2>1, <1>3 DEF TypeOK
    <3>4. QED BY <2>1, <3>2, <3>3, <1>2
  <2>2. CASE a # b
    <3>1. part'[a] = part[a] /\ cycle'[a] = cycle[a] /\ stage'[a] = stage[a]
      BY <2>2, <1>3, <1>4 DEF TypeOK
    <3>2. QED BY <3>1 DEF TypeOK, Here, Running, AtEnd, Current
  <2>3. QED BY <2>1, <2>2
<1>7. QED
  BY <1>3, <1>4, <1>5, <1>6 DEF TypeOK, Here, Running, AtEnd, Current

LEMMA NextTypeOK == TypeOK /\ [Next]_vars => TypeOK'
<1> SUFFICES ASSUME TypeOK, [Next]_vars PROVE TypeOK'
  OBVIOUS
<1>1. ASSUME NEW b \in Block, Step(b) PROVE TypeOK'
  BY <1>1, LoadTypeOK, SkipTypeOK, ExecuteTypeOK, SyncTypeOK DEF Step
<1>2. CASE UNCHANGED vars
  BY <1>2 DEF vars, TypeOK, Here, Running, AtEnd, Current
<1>3. QED BY <1>1, <1>2 DEF Next, Terminated

(* The kernel only ever reaches well-typed states. *)
THEOREM TypeCorrect == Spec => []TypeOK
BY InitTypeOK, NextTypeOK, PTL DEF Spec

----------------------------------------------------------------------------

(* What pruning needs of the signatures: one partition per slot, and no    *)
(* two inputs of a partition with the same signature.                      *)
FaithfulSignatures ==
  EnableProfile =>
    /\ \A k \in Slot : Len(Script[k]) <= 1
    /\ \A p \in Part : \A in, jn \in PackedInput(p) : Sig(in) = Sig(jn) => in = jn

(* Block k[2] has entered slot k in cycle d. *)
Begun(d, k) ==
  LET b == k[2]
  IN  cycle[b] > d \/ (cycle[b] = d /\ stage[b] >= k[1])

(* The inputs partition i of slot k has in cycle d. *)
InputsAt(d, k, i) == Gather(Script[k][i], states[d], states[d + 1])

(* The first partition of slot k has been loaded in cycle d. *)
LoadedIn(d, k) ==
  LET b == k[2]
  IN  \/ cycle[b] > d
      \/ cycle[b] = d /\ stage[b] > k[1]
      \/ cycle[b] = d /\ stage[b] = k[1] /\ (part[b] > 1 \/ loaded[b].full)

SignatureKept ==
  EnableProfile =>
    \A k \in Slot : \A d \in 0 .. NumCycles - 1 :
      Len(Script[k]) = 1 /\ LoadedIn(d, k) /\ ~LoadedIn(d + 1, k) =>
        prevSig[k] = Sig(InputsAt(d, k, 1))

ChangeKnown ==
  EnableProfile =>
    \A b \in Block :
      loaded[b].full /\ cycle[b] > 0 =>
        (loaded[b].changed <=>
           InputsAt(cycle[b], Here(b), part[b]) # InputsAt(cycle[b] - 1, Here(b), part[b]))

SkipDecision ==
  \A b \in Block :
    loaded[b].full /\ loaded[b].skip =>
      /\ EnablePrune
      /\ cycle[b] > 0
      /\ Srams[Current(b)] = {}
      /\ ~loaded[b].changed

OutputsSettled ==
  \A k \in Slot : \A i \in 1 .. Len(Script[k]) : \A d \in 0 .. NumCycles - 1 :
    Past(d, k, i) /\ Srams[Script[k][i]] = {} =>
      \A x \in Outs[Script[k][i]] :
        ClkEn(x, InputsAt(d, k, i)) => states[d + 1][x] = Eval(x, InputsAt(d, k, i))

Inv ==
  /\ TypeOK
  /\ InLockstep
  /\ GatheredIsCurrent
  /\ SignatureKept
  /\ ChangeKnown
  /\ SkipDecision
  /\ OutputsSettled

----------------------------------------------------------------------------
(* Lockstep. *)

LEMMA InitLockstep == Init => InLockstep
BY RunAssumption DEF Init, InLockstep

LEMMA WriteLockstep ==
  ASSUME TypeOK, InLockstep, NEW w \in Block, Skip(w) \/ Execute(w)
  PROVE  InLockstep'
<1>1. ~AtEnd(w) /\ NextPart(w) BY DEF Skip, Execute, TypeOK
<1>2. UNCHANGED <<cycle, stage>> /\ \A a \in Block \ {w} : part'[a] = part[a]
  BY <1>1 DEF NextPart, TypeOK
<1>3. ASSUME NEW a \in Block, AtEnd(a) PROVE AtEnd(a)'
  <2>1. a # w BY <1>1, <1>3
  <2>2. QED BY <2>1, <1>2, <1>3 DEF AtEnd, Here
<1>4. QED BY <1>2, <1>3 DEF InLockstep

LEMMA SyncFacts ==
  ASSUME TypeOK, NEW w \in Block, NextStage(w) \/ NextCycle(w)
  PROVE  /\ Running(w) /\ AtEnd(w) /\ ~loaded[w].full
         /\ \A a \in Block : Reached(a, cycle[w], stage[w])
         /\ UNCHANGED <<states, ram, prevSig, profile, loaded>>
         /\ part'[w] = 1
         /\ \A a \in Block \ {w} :
              cycle'[a] = cycle[a] /\ stage'[a] = stage[a] /\ part'[a] = part[a]
         /\ \/ cycle'[w] = cycle[w] /\ stage'[w] = stage[w] + 1
            \/ /\ cycle'[w] = cycle[w] + 1 /\ stage'[w] = 0
               /\ stage[w] = NumStages - 1
BY RunAssumption DEF NextStage, NextCycle, Released, TypeOK, Stage

LEMMA SyncLockstep ==
  ASSUME TypeOK, InLockstep, NEW w \in Block, NextStage(w) \/ NextCycle(w)
  PROVE  InLockstep'
<1> USE RunAssumption
<1>1. ASSUME NEW a \in Block \ {w} PROVE AtEnd(a)' <=> AtEnd(a)
  BY SyncFacts DEF AtEnd, Here
<1>2. SUFFICES ASSUME NEW a \in Block, NEW b \in Block
      PROVE  \/ cycle'[a] > cycle'[b]
             \/ cycle'[a] = cycle'[b] /\ stage'[a] >= stage'[b]
             \/ cycle'[a] = cycle'[b] /\ stage'[a] + 1 = stage'[b] /\ AtEnd(a)'
             \/ /\ cycle'[a] + 1 = cycle'[b] /\ stage'[b] = 0
                /\ stage'[a] = NumStages - 1 /\ AtEnd(a)'
  BY DEF InLockstep
<1>3. /\ cycle[a] \in Nat /\ cycle[b] \in Nat /\ stage[a] \in 0 .. NumStages - 1
      /\ stage[b] \in 0 .. NumStages - 1 /\ cycle[w] \in Nat
      /\ stage[w] \in 0 .. NumStages - 1
  BY DEF TypeOK, Stage
<1>4. /\ \/ cycle[a] > cycle[b]
         \/ cycle[a] = cycle[b] /\ stage[a] >= stage[b]
         \/ cycle[a] = cycle[b] /\ stage[a] + 1 = stage[b] /\ AtEnd(a)
         \/ /\ cycle[a] + 1 = cycle[b] /\ stage[b] = 0
            /\ stage[a] = NumStages - 1 /\ AtEnd(a)
      /\ Reached(a, cycle[w], stage[w])
  BY SyncFacts DEF InLockstep
<1>5. CASE a # w /\ b # w BY <1>1, <1>4, <1>5, SyncFacts
<1>6. CASE a = w /\ b # w
  <2>1. cycle'[b] = cycle[b] /\ stage'[b] = stage[b] BY <1>6, SyncFacts
  <2>2. CASE cycle'[w] = cycle[w] /\ stage'[w] = stage[w] + 1
    <3>1. TypeOK' BY SyncTypeOK
    <3>2. stage'[w] \in 0 .. NumStages - 1 BY <3>1 DEF TypeOK, Stage
    <3>3. QED BY <1>3, <1>4, <1>6, <2>1, <2>2, <3>2
  <2>3. CASE cycle'[w] = cycle[w] + 1 /\ stage'[w] = 0
    BY <1>3, <1>4, <1>6, <2>1, <2>3
  <2>4. QED BY <2>2, <2>3, SyncFacts
<1>7. CASE a # w /\ b = w BY <1>1, <1>3, <1>4, <1>7, SyncFacts DEF Reached
<1>8. CASE a = w /\ b = w BY <1>3, <1>8, SyncFacts
<1>9. QED BY <1>5, <1>6, <1>7, <1>8

LEMMA NextLockstep == TypeOK /\ InLockstep /\ [Next]_vars => InLockstep'
<1> SUFFICES ASSUME TypeOK, InLockstep, [Next]_vars PROVE InLockstep'
  OBVIOUS
<1>1. ASSUME UNCHANGED <<cycle, stage, part>> PROVE InLockstep'
  BY <1>1 DEF InLockstep, AtEnd, Here
<1>2. ASSUME NEW b \in Block, Step(b) PROVE InLockstep'
  <2>1. CASE Load(b) BY <2>1, <1>1 DEF Load
  <2>2. CASE Skip(b) \/ Execute(b) BY <2>2, WriteLockstep
  <2>3. CASE NextStage(b) \/ NextCycle(b) BY <2>3, SyncLockstep
  <2>4. QED BY <1>2, <2>1, <2>2, <2>3 DEF Step
<1>3. QED BY <1>1, <1>2 DEF Next, Terminated, vars

(* No block enters a stage before every block has finished the last one.   *)
THEOREM Lockstep == Spec => []InLockstep
BY InitTypeOK, NextTypeOK, InitLockstep, NextLockstep, PTL DEF Spec

----------------------------------------------------------------------------
(* Gathered inputs are stable. *)

LEMMA WriteFacts ==
  ASSUME TypeOK, NEW w \in Block, Skip(w) \/ Execute(w)
  PROVE  /\ Running(w) /\ ~AtEnd(w) /\ loaded[w].full
         /\ UNCHANGED <<prevSig, cycle, stage>>
         /\ part'[w] = part[w] + 1 /\ ~loaded'[w].full
         /\ \A a \in Block \ {w} : part'[a] = part[a] /\ loaded'[a] = loaded[a]
         /\ \A d \in 0 .. NumCycles, x \in Bit :
              d # cycle[w] + 1 \/ x \notin Outs[Current(w)] => states'[d][x] = states[d][x]
<1>1. loaded[w].full /\ NextPart(w) BY DEF Skip, Execute
<1>2. Running(w) /\ ~AtEnd(w) BY <1>1 DEF TypeOK
<1>3. cycle[w] + 1 \in 0 .. NumCycles /\ states[cycle[w] + 1] \in StateVector
  BY <1>2, RunningFacts
<1>4. PICK new : states' = [states EXCEPT ![cycle[w] + 1] = Overwrite(@, Current(w), new)]
  BY DEF Skip, Execute, CopyForward
<1>5. ASSUME NEW d \in 0 .. NumCycles, NEW x \in Bit,
             d # cycle[w] + 1 \/ x \notin Outs[Current(w)]
      PROVE  states'[d][x] = states[d][x]
  BY <1>3, <1>4, <1>5 DEF TypeOK, Overwrite
<1>6. QED BY <1>1, <1>2, <1>5 DEF NextPart, NotLoaded, TypeOK

(* Two places of the script that hold partitions with a common output bit  *)
(* are the same place.                                                     *)
LEMMA OnePlace ==
  ASSUME NEW k \in Slot, NEW i \in 1 .. Len(Script[k]),
         NEW l \in Slot, NEW j \in 1 .. Len(Script[l]),
         k # l \/ i # j
  PROVE  /\ Script[k][i] # Script[l][j]
         /\ Outs[Script[k][i]] \cap Outs[Script[l][j]] = {}
<1>1. Script[k][i] \in Part /\ Script[l][j] \in Part BY ScriptType
<1>2. Script[k][i] # Script[l][j] BY ScriptAssumption
<1>3. QED BY <1>1, <1>2, OutsAssumption

(* A block that is working (not at the end of its slot) is not ahead of    *)
(* any other block's stage.                                                *)
LEMMA WorkerIsNotBehind ==
  ASSUME TypeOK, InLockstep, NEW w \in Block, ~AtEnd(w), NEW b \in Block
  PROVE  cycle[w] > cycle[b] \/ (cycle[w] = cycle[b] /\ stage[w] >= stage[b])
BY DEF InLockstep

LEMMA Successors == \A a, b \in Nat : a # b => a + 1 # b + 1
OBVIOUS

LEMMA GatherStable ==
  ASSUME TypeOK, InLockstep, NEW w \in Block, Skip(w) \/ Execute(w),
         NEW k \in Slot, NEW i \in 1 .. Len(Script[k]),
         NEW d \in 0 .. NumCycles - 1, Begun(d, k)
  PROVE  InputsAt(d, k, i)' = InputsAt(d, k, i)
<1> DEFINE p == Script[k][i]
<1> USE RunAssumption
<1>1. p \in Part BY ScriptType
<1>2. k[2] \in Block /\ k[1] \in Stage BY DEF Slot
<1>3. /\ Here(w) \in Slot /\ part[w] \in 1 .. Len(Script[Here(w)])
      /\ Current(w) = Script[Here(w)][part[w]]
  BY WriteFacts, RunningFacts DEF Current
<1>4. /\ cycle[w] \in Nat /\ stage[w] \in Nat
      /\ cycle[k[2]] \in Nat /\ stage[k[2]] \in Nat
  BY <1>2 DEF TypeOK, Stage
<1>5. cycle[w] > d \/ (cycle[w] = d /\ stage[w] >= k[1])
  <2>1. cycle[w] > cycle[k[2]] \/ (cycle[w] = cycle[k[2]] /\ stage[w] >= stage[k[2]])
    BY <1>2, WriteFacts, WorkerIsNotBehind
  <2>2. QED BY <2>1, <1>2, <1>4 DEF Begun, Stage
<1>6. ASSUME NEW n \in 1 .. Len(Reads[p])
      PROVE  (IF Reads[p][n].staged THEN states'[d + 1][Reads[p][n].bit]
                                    ELSE states'[d][Reads[p][n].bit])
             = (IF Reads[p][n].staged THEN states[d + 1][Reads[p][n].bit]
                                      ELSE states[d][Reads[p][n].bit])
  <2> DEFINE x == Reads[p][n].bit
  <2>1. x \in Bit
    <3>1. Reads[p][n] \in Entry BY <1>1, ReadsAssumption
    <3>2. QED BY <3>1 DEF Entry
  <2>2. d \in 0 .. NumCycles /\ d + 1 \in 0 .. NumCycles OBVIOUS
  <2>0. \A e \in 0 .. NumCycles : \A y \in Bit :
          e # cycle[w] + 1 => states'[e][y] = states[e][y]
    BY WriteFacts
  <2>3. states'[d][x] = states[d][x]
    <3>1. d # cycle[w] + 1 BY <1>4, <1>5
    <3>2. QED BY <2>0, <2>1, <2>2, <3>1
  <2>4. ASSUME Reads[p][n].staged PROVE states'[d + 1][x] = states[d + 1][x]
    <3>1. CASE cycle[w] # d
      <4>1. d + 1 # cycle[w] + 1
        <5>1. d \in Nat OBVIOUS
        <5>2. QED BY <1>4, <3>1, <5>1, Successors
      <4>2. QED BY <4>1, <2>0, <2>1, <2>2
    <3>2. CASE cycle[w] = d
      <4>1. \E l \in Slot : \E j \in 1 .. Len(Script[l]) :
                l[1] < k[1] /\ Reads[p][n].bit \in Outs[Script[l][j]]
        BY <2>4, ReadsAssumption
      <4> PICK l \in Slot : \E j \in 1 .. Len(Script[l]) :
                l[1] < k[1] /\ x \in Outs[Script[l][j]]
        BY <4>1
      <4>2. PICK j \in 1 .. Len(Script[l]) : x \in Outs[Script[l][j]]
        BY <4>1
      <4>3. l # Here(w)
        <5>1. stage[w] >= k[1] BY <1>5, <3>2, <1>4
        <5>2. l[1] \in Stage BY DEF Slot
        <5>3. QED BY <4>1, <5>1, <5>2, <1>2, <1>4 DEF Here, Stage
      <4>4. x \notin Outs[Current(w)] BY <4>2, <4>3, <1>3, OnePlace
      <4>5. QED BY <4>4, <2>1, <2>2, WriteFacts
    <3>3. QED BY <3>1, <3>2
  <2>5. QED BY <2>3, <2>4
<1>7. QED BY <1>6 DEF Gather, InputsAt

LEMMA OnlyPart ==
  ASSUME NEW k \in Slot, Len(Script[k]) <= 1, NEW i \in 1 .. Len(Script[k])
  PROVE  i = 1 /\ Len(Script[k]) = 1
<1> DEFINE n == Len(Script[k])
<1>1. n \in Nat /\ n <= 1 /\ i \in 1 .. n BY ScriptAssumption
<1> HIDE DEF n
<1>2. i = 1 /\ n = 1 BY <1>1
<1>3. QED BY <1>2 DEF n

(* What a block that has loaded a partition, or writes one, refers to. *)
LEMMA LoadedPlace ==
  ASSUME TypeOK, NEW b \in Block, Running(b), ~AtEnd(b)
  PROVE  /\ Here(b) \in Slot /\ part[b] \in 1 .. Len(Script[Here(b)])
         /\ Here(b)[1] = stage[b] /\ Here(b)[2] = b
         /\ Current(b) = Script[Here(b)][part[b]] /\ Current(b) \in Part
         /\ cycle[b] \in 0 .. NumCycles - 1
         /\ Begun(cycle[b], Here(b))
         /\ cycle[b] > 0 => /\ cycle[b] - 1 \in 0 .. NumCycles - 1
                            /\ Begun(cycle[b] - 1, Here(b))
<1> USE RunAssumption
<1>1. /\ Here(b) \in Slot /\ part[b] \in 1 .. Len(Script[Here(b)])
      /\ Current(b) \in Part
  BY RunningFacts
<1>2. Here(b)[1] = stage[b] /\ Here(b)[2] = b BY DEF Here
<1>3. cycle[b] \in 0 .. NumCycles - 1 BY DEF TypeOK, Running
<1>4. stage[b] \in Nat BY DEF TypeOK, Stage
<1>5. Begun(cycle[b], Here(b)) BY <1>2, <1>3, <1>4 DEF Begun
<1>6. ASSUME cycle[b] > 0
      PROVE  cycle[b] - 1 \in 0 .. NumCycles - 1 /\ Begun(cycle[b] - 1, Here(b))
  BY <1>2, <1>3, <1>6 DEF Begun
<1>7. QED BY <1>1, <1>2, <1>3, <1>5, <1>6 DEF Current

LEMMA LoadFacts ==
  ASSUME TypeOK, NEW b \in Block, Load(b)
  PROVE  /\ Running(b) /\ ~AtEnd(b) /\ ~loaded[b].full
         /\ UNCHANGED <<states, ram, profile, cycle, stage, part>>
         /\ \A a \in Block \ {b} : loaded'[a] = loaded[a]
         /\ loaded'[b].full
         /\ loaded'[b].packed = InputsAt(cycle[b], Here(b), part[b])
         /\ loaded'[b].changed <=>
              ((EnableProfile \/ EnablePrune)
                 /\ Sig(loaded'[b].packed) # prevSig[Here(b)])
         /\ loaded'[b].skip <=>
              ((EnableProfile \/ EnablePrune)
                 /\ CanSkip(b, Sig(loaded'[b].packed), prevSig[Here(b)]))
         /\ EnableProfile => prevSig'[Here(b)] = Sig(loaded'[b].packed)
         /\ \A k \in Slot \ {Here(b)} : prevSig'[k] = prevSig[k]
<1>1. Running(b) /\ ~AtEnd(b) BY DEF Load
<1>2. Here(b) \in Slot BY <1>1, LoadedPlace
<1>3. QED BY <1>1, <1>2 DEF Load, TypeOK, InputsAt, Current

LEMMA NextGathered ==
  ASSUME TypeOK, InLockstep, GatheredIsCurrent, [Next]_vars
  PROVE  GatheredIsCurrent'
<1> USE DEF GatheredIsCurrent
<1>1. ASSUME NEW b \in Block, Load(b) PROVE GatheredIsCurrent'
  BY <1>1, LoadFacts DEF Current, Here, InputsAt
<1>2. ASSUME NEW w \in Block, Skip(w) \/ Execute(w) PROVE GatheredIsCurrent'
  <2>1. SUFFICES ASSUME NEW b \in Block, loaded'[b].full
                 PROVE  loaded'[b].packed =
                          Gather(Current(b)', states'[cycle'[b]], states'[cycle'[b] + 1])
    OBVIOUS
  <2>2. b # w BY <1>2, <2>1, WriteFacts
  <2>3. /\ loaded'[b] = loaded[b] /\ cycle'[b] = cycle[b]
        /\ stage'[b] = stage[b] /\ part'[b] = part[b]
    BY <1>2, <2>2, WriteFacts
  <2>4. Running(b) /\ ~AtEnd(b) BY <2>1, <2>3 DEF TypeOK
  <2>5. InputsAt(cycle[b], Here(b), part[b])' = InputsAt(cycle[b], Here(b), part[b])
    <3> DEFINE k == Here(b)
               i == part[b]
               d == cycle[b]
    <3>1. /\ k \in Slot /\ i \in 1 .. Len(Script[k]) /\ d \in 0 .. NumCycles - 1
          /\ Begun(d, k)
      BY <2>4, LoadedPlace
    <3>2. Gather(Script[k][i], states'[d], states'[d + 1]) = InputsAt(d, k, i)
      <4> HIDE DEF k, i, d
      <4>1. QED BY <3>1, <1>2, GatherStable DEF InputsAt
    <3>3. QED BY <3>2, <2>3 DEF InputsAt, Here
  <2>6. QED BY <2>1, <2>3, <2>5 DEF InputsAt, Current, Here
<1>3. ASSUME NEW w \in Block, NextStage(w) \/ NextCycle(w) PROVE GatheredIsCurrent'
  <2>1. ASSUME NEW b \in Block, loaded'[b].full
        PROVE  b # w /\ loaded[b].full
    BY <1>3, <2>1, SyncFacts
  <2>2. QED BY <1>3, <2>1, SyncFacts DEF Current, Here
<1>4. CASE UNCHANGED vars
  BY <1>4 DEF vars, Current, Here
<1>5. QED BY <1>1, <1>2, <1>3, <1>4 DEF Next, Step, Terminated

(* The inputs a block gathered are still current when it writes out, for   *)
(* every script that satisfies the assumptions and whatever the mode.      *)
THEOREM GatheredStaysCurrent == Spec => []GatheredIsCurrent
<1>1. Init => GatheredIsCurrent BY DEF Init, GatheredIsCurrent, NotLoaded
<1>2. QED
  BY <1>1, InitTypeOK, NextTypeOK, InitLockstep, NextLockstep, NextGathered, PTL DEF Spec

----------------------------------------------------------------------------
(* The stored signature. *)

LEMMA LoadSignature ==
  ASSUME TypeOK, SignatureKept, FaithfulSignatures, NEW b \in Block, Load(b)
  PROVE  SignatureKept'
<1>1. SUFFICES ASSUME EnableProfile, NEW k \in Slot, NEW d \in 0 .. NumCycles - 1,
                      Len(Script[k]) = 1, LoadedIn(d, k)', ~LoadedIn(d + 1, k)'
               PROVE  prevSig'[k] = Sig(InputsAt(d, k, 1)')
  BY DEF SignatureKept
<1>2. InputsAt(d, k, 1)' = InputsAt(d, k, 1) BY LoadFacts DEF InputsAt
<1>3. /\ Here(b)[1] = stage[b] /\ Here(b)[2] = b
      /\ part[b] \in 1 .. Len(Script[Here(b)]) /\ cycle[b] \in Nat
  BY LoadFacts, LoadedPlace
<1>4. k = <<k[1], k[2]>> /\ k[2] \in Block BY DEF Slot
<1>5. CASE k = Here(b)
  <2>1. part[b] = 1
    <3>1. part[b] \in 1 .. Len(Script[k]) BY <1>3, <1>5
    <3>2. Len(Script[k]) <= 1 BY <1>1
    <3>3. QED BY <3>1, <3>2, OnlyPart
  <2>2. cycle[b] = d
    <3>1. /\ k[2] = b /\ k[1] = stage[b] /\ loaded'[b].full
          /\ cycle' = cycle /\ stage' = stage
      BY <1>3, <1>5, LoadFacts
    <3>2. QED BY <1>1, <1>3, <3>1 DEF LoadedIn
  <2>3. prevSig'[k] = Sig(InputsAt(cycle[b], k, part[b]))
    BY <1>1, <1>5, LoadFacts
  <2>4. QED BY <1>2, <2>1, <2>2, <2>3
<1>6. CASE k # Here(b)
  <2>1. ASSUME NEW e \in Nat PROVE LoadedIn(e, k)' <=> LoadedIn(e, k)
    <3>1. CASE k[2] = b
      <4>1. stage[b] # k[1] BY <1>4, <1>6, <3>1 DEF Here
      <4>2. QED BY <3>1, <4>1, LoadFacts DEF LoadedIn
    <3>2. CASE k[2] # b BY <1>4, <3>2, LoadFacts DEF LoadedIn
    <3>3. QED BY <3>1, <3>2
  <2>2. LoadedIn(d, k) /\ ~LoadedIn(d + 1, k) BY <1>1, <2>1
  <2>3. prevSig[k] = Sig(InputsAt(d, k, 1)) BY <1>1, <2>2 DEF SignatureKept
  <2>4. QED BY <1>2, <1>6, <2>3, LoadFacts
<1>7. QED BY <1>5, <1>6

LEMMA WriteSignature ==
  ASSUME TypeOK, InLockstep, SignatureKept, NEW w \in Block, Skip(w) \/ Execute(w)
  PROVE  SignatureKept'
<1>1. SUFFICES ASSUME EnableProfile, NEW k \in Slot, NEW d \in 0 .. NumCycles - 1,
                      Len(Script[k]) = 1, LoadedIn(d, k)', ~LoadedIn(d + 1, k)'
               PROVE  prevSig'[k] = Sig(InputsAt(d, k, 1)')
  BY DEF SignatureKept
<1>2. k[2] \in Block /\ k[1] \in Stage BY DEF Slot
<1>3. part[w] \in Nat \ {0} BY DEF TypeOK
<1>4. ASSUME NEW e \in Nat PROVE LoadedIn(e, k)' <=> LoadedIn(e, k)
  <2>1. CASE k[2] = w BY <1>2, <1>3, <2>1, WriteFacts DEF LoadedIn
  <2>2. CASE k[2] # w
    <3>1. /\ loaded'[k[2]] = loaded[k[2]] /\ part'[k[2]] = part[k[2]]
          /\ cycle'[k[2]] = cycle[k[2]] /\ stage'[k[2]] = stage[k[2]]
      BY <1>2, <2>2, WriteFacts
    <3>2. QED BY <3>1 DEF LoadedIn
  <2>3. QED BY <2>1, <2>2
<1>5. LoadedIn(d, k) /\ ~LoadedIn(d + 1, k) BY <1>1, <1>4
<1>6. Begun(d, k)
  <2>1. stage[k[2]] \in Nat /\ k[1] \in Nat BY <1>2 DEF TypeOK, Stage
  <2>2. QED BY <1>5, <2>1 DEF LoadedIn, Begun
<1>7. InputsAt(d, k, 1)' = InputsAt(d, k, 1) BY <1>1, <1>6, GatherStable
<1>8. prevSig[k] = Sig(InputsAt(d, k, 1)) BY <1>1, <1>5 DEF SignatureKept
<1>9. QED BY <1>7, <1>8, WriteFacts

LEMMA SyncSignature ==
  ASSUME TypeOK, SignatureKept, NEW w \in Block, NextStage(w) \/ NextCycle(w)
  PROVE  SignatureKept'
<1> USE RunAssumption
<1>1. SUFFICES ASSUME EnableProfile, NEW k \in Slot, NEW d \in 0 .. NumCycles - 1,
                      Len(Script[k]) = 1, LoadedIn(d, k)', ~LoadedIn(d + 1, k)'
               PROVE  prevSig'[k] = Sig(InputsAt(d, k, 1)')
  BY DEF SignatureKept
<1>2. k = <<k[1], k[2]>> /\ k[2] \in Block /\ k[1] \in 0 .. NumStages - 1
  BY DEF Slot, Stage
<1>3. /\ cycle[w] \in Nat /\ stage[w] \in 0 .. NumStages - 1
      /\ part[w] > Len(Script[Here(w)])
  BY SyncFacts DEF TypeOK, Stage, AtEnd
<1>4. ASSUME NEW e \in Nat PROVE LoadedIn(e, k)' <=> LoadedIn(e, k)
  <2>1. CASE k[2] = w
    <3>1. ~loaded[w].full /\ ~loaded'[w].full BY SyncFacts
    <3>2. k[1] = stage[w] => part[w] > 1
      BY <1>1, <1>2, <1>3, <2>1 DEF Here
    <3>3. CASE cycle'[w] = cycle[w] /\ stage'[w] = stage[w] + 1
      BY <1>2, <1>3, <2>1, <3>1, <3>2, <3>3, SyncFacts DEF LoadedIn
    <3>4. CASE cycle'[w] = cycle[w] + 1 /\ stage'[w] = 0 /\ stage[w] = NumStages - 1
      <4>1. k[1] < stage[w] \/ (k[1] = stage[w] /\ part[w] > 1)
        BY <1>2, <1>3, <3>2, <3>4
      <4>2. LoadedIn(e, k) <=> cycle[w] >= e
        BY <1>2, <1>3, <2>1, <4>1 DEF LoadedIn
      <4>3. part'[w] = 1 BY SyncFacts
      <4>4. LoadedIn(e, k)' <=> cycle'[w] > e
        BY <1>2, <2>1, <3>1, <3>4, <4>3 DEF LoadedIn
      <4>5. QED BY <1>3, <3>4, <4>2, <4>4
    <3>5. QED BY <3>3, <3>4, SyncFacts
  <2>2. CASE k[2] # w
    <3>1. /\ loaded'[k[2]] = loaded[k[2]] /\ part'[k[2]] = part[k[2]]
          /\ cycle'[k[2]] = cycle[k[2]] /\ stage'[k[2]] = stage[k[2]]
      BY <1>2, <2>2, SyncFacts
    <3>2. QED BY <3>1 DEF LoadedIn
  <2>3. QED BY <2>1, <2>2
<1>5. LoadedIn(d, k) /\ ~LoadedIn(d + 1, k) BY <1>1, <1>4
<1>6. InputsAt(d, k, 1)' = InputsAt(d, k, 1) BY SyncFacts DEF InputsAt
<1>7. prevSig[k] = Sig(InputsAt(d, k, 1)) BY <1>1, <1>5 DEF SignatureKept
<1>8. QED BY <1>6, <1>7, SyncFacts

LEMMA NextSignature ==
  ASSUME TypeOK, InLockstep, SignatureKept, FaithfulSignatures, [Next]_vars
  PROVE  SignatureKept'
<1>1. CASE UNCHANGED vars
  BY <1>1 DEF vars, SignatureKept, LoadedIn, InputsAt
<1>2. QED
  BY <1>1, LoadSignature, WriteSignature, SyncSignature DEF Next, Step, Terminated

----------------------------------------------------------------------------
(* The change flag and the skip decision. *)

LEMMA NextChange ==
  ASSUME TypeOK, InLockstep, SignatureKept, ChangeKnown, FaithfulSignatures, [Next]_vars
  PROVE  ChangeKnown'
<1> USE RunAssumption
<1>1. SUFFICES ASSUME EnableProfile, NEW b \in Block, loaded'[b].full, cycle'[b] > 0
               PROVE  loaded'[b].changed <=>
                        InputsAt(cycle[b], Here(b), part[b])'
                          # InputsAt(cycle[b] - 1, Here(b), part[b])'
  BY DEF ChangeKnown
<1>2. ASSUME Load(b)
      PROVE  loaded'[b].changed <=>
               InputsAt(cycle[b], Here(b), part[b])'
                 # InputsAt(cycle[b] - 1, Here(b), part[b])'
  <2> DEFINE k == Here(b)
             c == cycle[b]
  <2>1. /\ UNCHANGED <<states, cycle, stage, part>> /\ ~loaded[b].full
        /\ Running(b) /\ ~AtEnd(b)
    BY <1>2, LoadFacts
  <2>2. /\ k \in Slot /\ part[b] \in 1 .. Len(Script[k]) /\ k[1] = stage[b] /\ k[2] = b
        /\ c \in 0 .. NumCycles - 1 /\ c - 1 \in 0 .. NumCycles - 1
        /\ Script[k][part[b]] \in Part
    BY <1>1, <2>1, LoadedPlace, ScriptType
  <2>3. Len(Script[k]) = 1 /\ part[b] = 1
    <3>1. k \in Slot /\ part[b] \in 1 .. Len(Script[k]) BY <2>2
    <3> HIDE DEF k
    <3>2. Len(Script[k]) <= 1 BY <1>1, <3>1 DEF FaithfulSignatures
    <3>3. QED BY <3>1, <3>2, OnlyPart
  <2>4. LoadedIn(c - 1, k) /\ ~LoadedIn((c - 1) + 1, k)
    <3>1. (c - 1) + 1 = c /\ c > c - 1 /\ ~(c > c) BY <2>2
    <3>2. cycle[k[2]] = c /\ part[k[2]] = 1 /\ ~loaded[k[2]].full /\ stage[k[2]] = k[1]
      BY <2>1, <2>2, <2>3
    <3>3. k[1] \in Int BY <2>2 DEF Slot, Stage
    <3> HIDE DEF k, c
    <3>4. QED BY <3>1, <3>2, <3>3 DEF LoadedIn
  <2>5. prevSig[k] = Sig(InputsAt(c - 1, k, 1))
    BY <1>1, <2>2, <2>3, <2>4 DEF SignatureKept
  <2>6. loaded'[b].changed <=> Sig(InputsAt(c, k, 1)) # Sig(InputsAt(c - 1, k, 1))
    BY <1>1, <1>2, <2>3, <2>5, LoadFacts
  <2>7. /\ InputsAt(c, k, 1) \in PackedInput(Script[k][1])
        /\ InputsAt(c - 1, k, 1) \in PackedInput(Script[k][1])
    <3>1. /\ states[c] \in StateVector /\ states[c + 1] \in StateVector
          /\ states[c - 1] \in StateVector /\ states[(c - 1) + 1] \in StateVector
      BY <2>2 DEF TypeOK
    <3>2. QED BY <2>2, <2>3, <3>1, GatherType DEF InputsAt
  <2>8. loaded'[b].changed <=> InputsAt(c, k, 1) # InputsAt(c - 1, k, 1)
    BY <1>1, <2>2, <2>3, <2>6, <2>7 DEF FaithfulSignatures
  <2>9. QED BY <2>1, <2>3, <2>8 DEF InputsAt, Here
<1>3. ASSUME loaded'[b] = loaded[b],
             UNCHANGED <<cycle[b], stage[b], part[b]>>,
             \A d \in 0 .. NumCycles - 1 :
               Begun(d, Here(b)) =>
                 InputsAt(d, Here(b), part[b])' = InputsAt(d, Here(b), part[b])
      PROVE  loaded'[b].changed <=>
               InputsAt(cycle[b], Here(b), part[b])'
                 # InputsAt(cycle[b] - 1, Here(b), part[b])'
  <2>1. Running(b) /\ ~AtEnd(b) BY <1>1, <1>3 DEF TypeOK
  <2>2. QED BY <1>1, <1>3, <2>1, LoadedPlace DEF ChangeKnown
<1>4. ASSUME NEW w \in Block, Load(w), w # b
      PROVE  loaded'[b].changed <=>
               InputsAt(cycle[b], Here(b), part[b])'
                 # InputsAt(cycle[b] - 1, Here(b), part[b])'
  BY <1>3, <1>4, LoadFacts DEF InputsAt, Here
<1>5. ASSUME NEW w \in Block, Skip(w) \/ Execute(w)
      PROVE  loaded'[b].changed <=>
               InputsAt(cycle[b], Here(b), part[b])'
                 # InputsAt(cycle[b] - 1, Here(b), part[b])'
  <2>1. b # w BY <1>1, <1>5, WriteFacts
  <2>2. loaded'[b] = loaded[b] /\ UNCHANGED <<cycle[b], stage[b], part[b]>>
    BY <1>5, <2>1, WriteFacts
  <2>3. Running(b) /\ ~AtEnd(b) BY <1>1, <2>2 DEF TypeOK
  <2>4. Here(b) \in Slot /\ part[b] \in 1 .. Len(Script[Here(b)]) BY <2>3, LoadedPlace
  <2>5. ASSUME NEW d \in 0 .. NumCycles - 1, Begun(d, Here(b))
        PROVE  InputsAt(d, Here(b), part[b])' = InputsAt(d, Here(b), part[b])
    <3> DEFINE k == Here(b)
               i == part[b]
    <3>1. Gather(Script[k][i], states'[d], states'[d + 1]) = InputsAt(d, k, i)
      <4> HIDE DEF k, i
      <4>1. k \in Slot /\ i \in 1 .. Len(Script[k]) /\ Begun(d, k)
        BY <2>4, <2>5 DEF k, i
      <4>2. QED BY <1>5, <4>1, GatherStable DEF InputsAt
    <3>2. QED BY <2>2, <3>1 DEF InputsAt, Here
  <2>6. QED BY <1>3, <2>2, <2>5
<1>6. ASSUME NEW w \in Block, NextStage(w) \/ NextCycle(w)
      PROVE  loaded'[b].changed <=>
               InputsAt(cycle[b], Here(b), part[b])'
                 # InputsAt(cycle[b] - 1, Here(b), part[b])'
  <2>1. b # w BY <1>1, <1>6, SyncFacts
  <2>2. QED BY <1>3, <1>6, <2>1, SyncFacts DEF InputsAt, Here
<1>7. CASE UNCHANGED vars BY <1>3, <1>7 DEF vars, InputsAt, Here
<1>8. QED BY <1>2, <1>4, <1>5, <1>6, <1>7 DEF Next, Step, Terminated

LEMMA NextDecision ==
  ASSUME TypeOK, SkipDecision, [Next]_vars
  PROVE  SkipDecision'
<1> USE DEF SkipDecision
<1>1. ASSUME NEW b \in Block, Load(b) PROVE SkipDecision'
  <2>1. loaded'[b].skip => /\ EnablePrune /\ cycle[b] > 0 /\ Srams[Current(b)] = {}
                           /\ ~loaded'[b].changed
    BY <1>1, LoadFacts DEF CanSkip
  <2>2. QED BY <1>1, <2>1, LoadFacts DEF Current, Here
<1>2. ASSUME NEW w \in Block, Skip(w) \/ Execute(w) PROVE SkipDecision'
  BY <1>2, WriteFacts DEF Current, Here
<1>3. ASSUME NEW w \in Block, NextStage(w) \/ NextCycle(w) PROVE SkipDecision'
  BY <1>3, SyncFacts DEF Current, Here
<1>4. CASE UNCHANGED vars BY <1>4 DEF vars, Current, Here
<1>5. QED BY <1>1, <1>2, <1>3, <1>4 DEF Next, Step, Terminated

----------------------------------------------------------------------------
(* The outputs of finished partitions. *)

(* What the write step itself puts into the new state. *)
LEMMA WrittenBits ==
  ASSUME TypeOK, NEW w \in Block, Skip(w) \/ Execute(w), NEW x \in Outs[Current(w)]
  PROVE  /\ Skip(w) => states'[cycle[w] + 1][x] = states[cycle[w]][x]
         /\ Execute(w) =>
              states'[cycle[w] + 1][x] =
                WriteOut(Current(w), x, loaded[w].packed, states[cycle[w]][x], ram)
<1> DEFINE p == Current(w)
           c == cycle[w]
<1>1. Running(w) /\ ~AtEnd(w) BY WriteFacts
<1>2. p \in Part /\ c + 1 \in 0 .. NumCycles BY <1>1, RunningFacts
<1>3. x \in Bit BY <1>2, OutsAssumption
<1>4. Skip(w) => states'[c + 1] = Overwrite(states[c + 1], p, states[c])
  BY <1>2 DEF Skip, CopyForward, TypeOK
<1>5. Execute(w) =>
        states'[c + 1] =
          Overwrite(states[c + 1], p, Evaluate(p, loaded[w].packed, states[c], ram))
  BY <1>2 DEF Execute, TypeOK
<1> HIDE DEF p, c
<1>6. \A s, new : Overwrite(s, p, new)[x] = new[x]
  BY <1>3 DEF Overwrite, p
<1>7. \A in, before, m : Evaluate(p, in, before, m)[x] = WriteOut(p, x, in, before[x], m)
  BY DEF Evaluate, p
<1>8. QED BY <1>4, <1>5, <1>6, <1>7 DEF p, c

(* A partition that is written, skipped or not, ends up settled.           *)
LEMMA WrittenIsSettled ==
  ASSUME Inv, FaithfulSignatures, NEW w \in Block, Skip(w) \/ Execute(w),
         Srams[Current(w)] = {}, NEW x \in Outs[Current(w)],
         ClkEn(x, InputsAt(cycle[w], Here(w), part[w]))
  PROVE  states'[cycle[w] + 1][x] = Eval(x, InputsAt(cycle[w], Here(w), part[w]))
<1> DEFINE k  == Here(w)
           c  == cycle[w]
           in == InputsAt(c, k, part[w])
<1>1. TypeOK BY DEF Inv
<1>2. Running(w) /\ ~AtEnd(w) /\ loaded[w].full BY <1>1, WriteFacts
<1>3. /\ k \in Slot /\ part[w] \in 1 .. Len(Script[k]) /\ k[1] = stage[w] /\ k[2] = w
      /\ Current(w) = Script[k][part[w]]
      /\ c \in 0 .. NumCycles - 1
  BY <1>1, <1>2, LoadedPlace
<1>4. CASE Execute(w)
  <2>1. loaded[w].packed = in BY <1>2 DEF Inv, GatheredIsCurrent, InputsAt, Current
  <2>2. states'[c + 1][x] = WriteOut(Current(w), x, in, states[c][x], ram)
    BY <1>1, <1>4, <2>1, WrittenBits
  <2>3. x \notin Srams[Current(w)] OBVIOUS
  <2>4. QED BY <2>2, <2>3 DEF WriteOut, NewBit
<1>5. CASE Skip(w)
  <2>1. loaded[w].skip BY <1>5 DEF Skip
  <2>2. EnablePrune /\ c > 0 /\ ~loaded[w].changed
    BY <1>2, <2>1 DEF Inv, SkipDecision
  <2>3. in = InputsAt(c - 1, k, part[w])
    BY <1>2, <2>2, ModeAssumption DEF Inv, ChangeKnown
  <2>4. Past(c - 1, k, part[w]) /\ c - 1 \in 0 .. NumCycles - 1
    <3>1. cycle[k[2]] > c - 1 /\ c - 1 \in 0 .. NumCycles - 1
      BY <1>3, <2>2, RunAssumption
    <3> HIDE DEF k, c
    <3>2. QED BY <3>1 DEF Past
  <2>5. states[(c - 1) + 1][x] = Eval(x, in)
    <3> DEFINE i == part[w]
               d == c - 1
    <3>1. /\ k \in Slot /\ i \in 1 .. Len(Script[k]) /\ d \in 0 .. NumCycles - 1
          /\ Past(d, k, i) /\ Srams[Script[k][i]] = {} /\ x \in Outs[Script[k][i]]
          /\ ClkEn(x, InputsAt(d, k, i)) /\ in = InputsAt(d, k, i)
      BY <1>3, <2>3, <2>4
    <3> HIDE DEF k, i, d, in
    <3>2. states[d + 1][x] = Eval(x, InputsAt(d, k, i))
      BY <3>1 DEF Inv, OutputsSettled
    <3>3. QED BY <3>1, <3>2 DEF d
  <2>6. (c - 1) + 1 = c BY <1>3
  <2>7. states'[c + 1][x] = states[c][x] BY <1>1, <1>5, WrittenBits
  <2>8. QED BY <2>5, <2>6, <2>7
<1>6. QED BY <1>4, <1>5

(* A block that still works has not yet passed its own position.           *)
LEMMA PastWrite ==
  ASSUME TypeOK, InLockstep, NEW w \in Block, Skip(w) \/ Execute(w),
         NEW k \in Slot, NEW i \in 1 .. Len(Script[k]), NEW d \in 0 .. NumCycles - 1
  PROVE  /\ Past(d, k, i)' <=>
              Past(d, k, i) \/ (k = Here(w) /\ i = part[w] /\ d = cycle[w])
         /\ Past(d, k, i) => ~(k = Here(w) /\ i = part[w] /\ d = cycle[w])
         /\ Past(d, k, i) => Begun(d, k) /\ d <= cycle[w]
<1>1. /\ k = <<k[1], k[2]>> /\ k[2] \in Block /\ k[1] \in Stage BY DEF Slot
<1>2. ~AtEnd(w) BY WriteFacts
<1>3. /\ cycle[w] \in Nat /\ stage[w] \in Nat /\ part[w] \in Nat /\ k[1] \in Nat
      /\ cycle[k[2]] \in Nat /\ stage[k[2]] \in Nat /\ part[k[2]] \in Nat
  BY <1>1 DEF TypeOK, Stage
<1>4. cycle[w] > cycle[k[2]] \/ (cycle[w] = cycle[k[2]] /\ stage[w] >= stage[k[2]])
  BY <1>1, <1>2, WorkerIsNotBehind
<1>5. UNCHANGED <<cycle, stage>> /\ part'[w] = part[w] + 1 BY WriteFacts
<1>6. CASE k[2] = w
  <2>1. k = Here(w) <=> k[1] = stage[w] BY <1>1, <1>6 DEF Here
  <2>2. i \in Int OBVIOUS
  <2>3. QED BY <1>3, <1>5, <1>6, <2>1, <2>2 DEF Past, Begun
<1>7. CASE k[2] # w
  <2>1. part'[k[2]] = part[k[2]] BY <1>1, <1>7, WriteFacts
  <2>2. k # Here(w) BY <1>7 DEF Here
  <2>3. QED BY <1>3, <1>4, <1>5, <2>1, <2>2 DEF Past, Begun
<1>8. QED BY <1>6, <1>7

LEMMA WriteSettled ==
  ASSUME Inv, FaithfulSignatures, NEW w \in Block, Skip(w) \/ Execute(w)
  PROVE  OutputsSettled'
<1>1. SUFFICES ASSUME NEW k \in Slot, NEW i \in 1 .. Len(Script[k]),
                      NEW d \in 0 .. NumCycles - 1, Past(d, k, i)',
                      Srams[Script[k][i]] = {}, NEW x \in Outs[Script[k][i]],
                      ClkEn(x, InputsAt(d, k, i)')
               PROVE  states'[d + 1][x] = Eval(x, InputsAt(d, k, i)')
  BY DEF OutputsSettled
<1>2. TypeOK /\ InLockstep BY DEF Inv
<1>3. Running(w) /\ ~AtEnd(w) BY <1>2, WriteFacts
<1>4. /\ Here(w) \in Slot /\ part[w] \in 1 .. Len(Script[Here(w)])
      /\ Current(w) = Script[Here(w)][part[w]]
      /\ cycle[w] \in 0 .. NumCycles - 1 /\ Begun(cycle[w], Here(w))
  BY <1>2, <1>3, LoadedPlace
<1>5. CASE Past(d, k, i)
  <2>1. Begun(d, k) /\ ~(k = Here(w) /\ i = part[w] /\ d = cycle[w])
    BY <1>2, <1>5, PastWrite
  <2>2. InputsAt(d, k, i)' = InputsAt(d, k, i) BY <1>2, <2>1, GatherStable
  <2>3. states'[d + 1][x] = states[d + 1][x]
    <3>1. Script[k][i] \in Part BY ScriptType
    <3>2. x \in Bit /\ d + 1 \in 0 .. NumCycles BY <3>1, OutsAssumption, RunAssumption
    <3>3. CASE d # cycle[w]
      <4>1. d + 1 # cycle[w] + 1 BY <1>4, <3>3
      <4>2. QED BY <1>2, <3>2, <4>1, WriteFacts
    <3>4. CASE d = cycle[w]
      <4>1. k # Here(w) \/ i # part[w] BY <2>1, <3>4
      <4>2. Outs[Script[k][i]] \cap Outs[Current(w)] = {}
        <5> DEFINE l == Here(w)
                   j == part[w]
        <5>1. l \in Slot /\ j \in 1 .. Len(Script[l]) /\ (k # l \/ i # j) BY <1>4, <4>1
        <5> HIDE DEF l, j
        <5>2. Outs[Script[k][i]] \cap Outs[Script[l][j]] = {} BY <5>1, OnePlace
        <5>3. QED BY <1>4, <5>2 DEF l, j
      <4>3. x \notin Outs[Current(w)] BY <4>2
      <4>4. QED BY <1>2, <3>2, <4>3, WriteFacts
    <3>5. QED BY <3>3, <3>4
  <2>4. ClkEn(x, InputsAt(d, k, i)) BY <1>1, <2>2
  <2>5. states[d + 1][x] = Eval(x, InputsAt(d, k, i))
    BY <1>1, <1>5, <2>4 DEF Inv, OutputsSettled
  <2>6. QED BY <2>2, <2>3, <2>5
<1>6. CASE k = Here(w) /\ i = part[w] /\ d = cycle[w]
  <2>1. InputsAt(d, k, i)' = InputsAt(d, k, i) BY <1>2, <1>4, <1>6, GatherStable
  <2>2. x \in Outs[Current(w)] /\ Srams[Current(w)] = {} BY <1>1, <1>4, <1>6
  <2>3. ClkEn(x, InputsAt(cycle[w], Here(w), part[w])) BY <1>1, <1>6, <2>1
  <2>4. states'[cycle[w] + 1][x] = Eval(x, InputsAt(cycle[w], Here(w), part[w]))
    BY <2>2, <2>3, WrittenIsSettled
  <2>5. QED BY <1>6, <2>1, <2>4
<1>7. QED BY <1>1, <1>2, <1>5, <1>6, PastWrite

LEMMA PastSync ==
  ASSUME TypeOK, NEW w \in Block, NextStage(w) \/ NextCycle(w),
         NEW k \in Slot, NEW i \in 1 .. Len(Script[k]), NEW d \in 0 .. NumCycles - 1
  PROVE  Past(d, k, i)' <=> Past(d, k, i)
<1> USE RunAssumption
<1>1. k = <<k[1], k[2]>> /\ k[2] \in Block /\ k[1] \in 0 .. NumStages - 1
  BY DEF Slot, Stage
<1>2. CASE k[2] # w
  <2>1. /\ part'[k[2]] = part[k[2]]
        /\ cycle'[k[2]] = cycle[k[2]] /\ stage'[k[2]] = stage[k[2]]
    BY <1>1, <1>2, SyncFacts
  <2>2. QED BY <2>1 DEF Past
<1>3. CASE k[2] = w
  <2>1. cycle[w] \in Nat /\ stage[w] \in 0 .. NumStages - 1 BY DEF TypeOK, Stage
  <2>2. k[1] = stage[w] => part[w] > i
    <3>1. SUFFICES ASSUME k[1] = stage[w] PROVE part[w] > i
      OBVIOUS
    <3>2. part[w] > Len(Script[k]) BY <1>1, <1>3, <3>1, SyncFacts DEF AtEnd, Here
    <3>3. Len(Script[k]) \in Nat /\ part[w] \in Nat BY ScriptAssumption DEF TypeOK
    <3> DEFINE n == Len(Script[k])
    <3>4. i \in 1 .. n /\ n \in Nat /\ part[w] > n BY <3>2, <3>3
    <3> HIDE DEF n
    <3>5. QED BY <3>3, <3>4
  <2>3. ~(1 > i) OBVIOUS
  <2>4. part'[w] = 1 BY SyncFacts
  <2>5. CASE cycle'[w] = cycle[w] /\ stage'[w] = stage[w] + 1
    BY <1>1, <1>3, <2>1, <2>2, <2>3, <2>4, <2>5 DEF Past
  <2>6. CASE cycle'[w] = cycle[w] + 1 /\ stage'[w] = 0 /\ stage[w] = NumStages - 1
    <3>1. k[1] < stage[w] \/ (k[1] = stage[w] /\ part[w] > i)
      BY <1>1, <1>3, <2>1, <2>2, <2>6
    <3>2. Past(d, k, i) <=> cycle[w] >= d
      BY <1>1, <1>3, <2>1, <3>1 DEF Past
    <3>3. Past(d, k, i)' <=> cycle'[w] > d
      BY <1>1, <1>3, <2>3, <2>4, <2>6 DEF Past
    <3>4. QED BY <2>1, <2>6, <3>2, <3>3
  <2>7. QED BY <2>5, <2>6, SyncFacts
<1>4. QED BY <1>2, <1>3

LEMMA NextSettled ==
  ASSUME Inv, FaithfulSignatures, [Next]_vars
  PROVE  OutputsSettled'
<1> USE DEF Inv, OutputsSettled
<1>1. ASSUME UNCHANGED <<states, cycle, stage, part>> PROVE OutputsSettled'
  <2>1. \A d, k, i : Past(d, k, i)' <=> Past(d, k, i) BY <1>1 DEF Past
  <2>2. \A d, k, i : InputsAt(d, k, i)' = InputsAt(d, k, i) BY <1>1 DEF InputsAt
  <2>3. QED BY <1>1, <2>1, <2>2
<1>2. ASSUME NEW w \in Block, NextStage(w) \/ NextCycle(w) PROVE OutputsSettled'
  <2>1. UNCHANGED states BY <1>2, SyncFacts
  <2>2. \A d, k, i : InputsAt(d, k, i)' = InputsAt(d, k, i) BY <2>1 DEF InputsAt
  <2>3. \A k \in Slot, d \in 0 .. NumCycles - 1 : \A i \in 1 .. Len(Script[k]) :
          Past(d, k, i)' <=> Past(d, k, i)
    BY <1>2, PastSync
  <2>4. QED BY <2>1, <2>2, <2>3
<1>3. ASSUME NEW w \in Block, Load(w) PROVE OutputsSettled'
  BY <1>1, <1>3, LoadFacts
<1>4. CASE UNCHANGED vars BY <1>1, <1>4 DEF vars
<1>5. QED BY <1>2, <1>3, <1>4, WriteSettled DEF Next, Step, Terminated

----------------------------------------------------------------------------
LEMMA InitInv == Init => Inv
<1> SUFFICES ASSUME Init PROVE Inv
  OBVIOUS
<1>1. TypeOK /\ InLockstep BY InitTypeOK, InitLockstep
<1>2. GatheredIsCurrent /\ ChangeKnown /\ SkipDecision
  BY DEF Init, GatheredIsCurrent, ChangeKnown, SkipDecision, NotLoaded
<1>3. \A k \in Slot : k[2] \in Block /\ k[1] \in Nat BY DEF Slot, Stage
<1>4. \A k \in Slot, d \in 0 .. NumCycles - 1 : ~LoadedIn(d, k)
  BY <1>3 DEF Init, LoadedIn, NotLoaded
<1>5. \A k \in Slot, d \in 0 .. NumCycles - 1 : \A i \in 1 .. Len(Script[k]) : ~Past(d, k, i)
  BY <1>3 DEF Init, Past
<1>6. QED BY <1>1, <1>2, <1>4, <1>5 DEF Inv, SignatureKept, OutputsSettled

LEMMA NextInv == FaithfulSignatures /\ Inv /\ [Next]_vars => Inv'
BY NextTypeOK, NextLockstep, NextGathered, NextSignature, NextChange, NextDecision,
   NextSettled DEF Inv

LEMMA InvSkipIsInvisible == FaithfulSignatures /\ Inv => SkipIsInvisible
<1> SUFFICES ASSUME FaithfulSignatures, Inv, NEW b \in Block,
                    loaded[b].full, loaded[b].skip
             PROVE  /\ Srams[Current(b)] = {}
                    /\ \A x \in Outs[Current(b)] :
                         WriteOut(Current(b), x, InputsAt(cycle[b], Here(b), part[b]),
                                  states[cycle[b]][x], ram) = states[cycle[b]][x]
  BY DEF SkipIsInvisible, InputsAt, Current
<1> DEFINE k == Here(b)
           c == cycle[b]
           i == part[b]
<1>1. Running(b) /\ ~AtEnd(b) BY DEF Inv, TypeOK
<1>2. /\ k \in Slot /\ i \in 1 .. Len(Script[k]) /\ k[1] = stage[b] /\ k[2] = b
      /\ Current(b) = Script[k][i] /\ c \in 0 .. NumCycles - 1
  BY <1>1, LoadedPlace DEF Inv
<1>3. EnablePrune /\ c > 0 /\ Srams[Current(b)] = {} /\ ~loaded[b].changed
  BY DEF Inv, SkipDecision
<1>4. InputsAt(c, k, i) = InputsAt(c - 1, k, i)
  BY <1>3, ModeAssumption DEF Inv, ChangeKnown
<1>5. Past(c - 1, k, i) /\ c - 1 \in 0 .. NumCycles - 1 /\ (c - 1) + 1 = c
  <2>1. /\ cycle[k[2]] > c - 1 /\ c - 1 \in 0 .. NumCycles - 1 /\ (c - 1) + 1 = c
    BY <1>2, <1>3, RunAssumption
  <2> HIDE DEF k, c, i
  <2>2. QED BY <2>1 DEF Past
<1> HIDE DEF k, c, i
<1>6. ASSUME NEW x \in Outs[Current(b)]
      PROVE  WriteOut(Current(b), x, InputsAt(c, k, i), states[c][x], ram) = states[c][x]
  <2>1. ClkEn(x, InputsAt(c - 1, k, i)) => states[(c - 1) + 1][x] = Eval(x, InputsAt(c - 1, k, i))
    BY <1>2, <1>3, <1>5 DEF Inv, OutputsSettled
  <2>2. ClkEn(x, InputsAt(c, k, i)) => states[c][x] = Eval(x, InputsAt(c, k, i))
    BY <1>4, <1>5, <2>1
  <2>3. x \notin Srams[Current(b)] BY <1>3
  <2>4. QED BY <2>2, <2>3 DEF WriteOut, NewBit
<1>7. QED BY <1>3, <1>6 DEF k, c, i

(* Skipping is invisible: with one partition per slot and no signature     *)
(* collision, a partition is only skipped when evaluating it would rewrite *)
(* the bits that are copied forward.                                       *)
THEOREM SkippingIsInvisible ==
  ASSUME FaithfulSignatures
  PROVE  Spec => []SkipIsInvisible
<1>1. Inv /\ [Next]_vars => Inv' BY NextInv
<1>2. Inv => SkipIsInvisible BY InvSkipIsInvisible
<1>3. QED BY <1>1, <1>2, InitInv, PTL DEF Spec

----------------------------------------------------------------------------
(***************************************************************************)
(* Why the activity counters close.  A counted cycle of a slot is either   *)
(* skipped or executed; what tells them apart past the warmup is the       *)
(* change flag, which is also what is counted (SkipKnown).  The exception  *)
(* is cycle 0, which is executed and not counted as a change; it is        *)
(* counted as a cycle exactly when the block has passed it (FirstCounted). *)
(* The same fact shows that pruning is effective: with an exact flag a     *)
(* partition whose inputs are those of the previous cycle is skipped.      *)
(***************************************************************************)

(* The slots whose counters must close. *)
Closing(k) == Len(Script[k]) = 1 /\ Srams[Script[k][1]] = {}

SkipKnown ==
  \A b \in Block :
    loaded[b].full /\ Closing(Here(b)) =>
      (loaded[b].skip <=> cycle[b] > 0 /\ cycle[b] >= Warmup /\ ~loaded[b].changed)

FirstCounted ==
  \A k \in Slot :
    Closing(k) /\ Warmup = 0 => (profile[k].cycles > 0 <=> Past(0, k, 1))

Closes(k) ==
  profile[k].cycles =
    profile[k].skipped + profile[k].inputChanged + One(Warmup = 0 /\ profile[k].cycles > 0)

CounterInv == SkipKnown /\ FirstCounted /\ \A k \in Slot : Closing(k) => Closes(k)

----------------------------------------------------------------------------
LEMMA InitCounterInv == Init => CounterInv
<1> SUFFICES ASSUME Init PROVE CounterInv
  OBVIOUS
<1>1. SkipKnown BY DEF SkipKnown, Init, NotLoaded
<1>2. ASSUME NEW k \in Slot PROVE ~(profile[k].cycles > 0) /\ ~Past(0, k, 1) /\ Closes(k)
  <2>1. k[1] \in Nat /\ k[2] \in Block BY RunAssumption DEF Slot, Stage
  <2>2. profile[k] = NoCounts BY DEF Init
  <2>3. ~Past(0, k, 1) BY <2>1 DEF Init, Past
  <2>4. QED BY <2>2, <2>3, RunAssumption DEF NoCounts, Closes, One
<1>3. QED BY <1>1, <1>2 DEF CounterInv, FirstCounted

(* Loading decides to skip on the very change flag that it stores. *)
LEMMA LoadCounterInv ==
  ASSUME EnablePrune, TypeOK, CounterInv, NEW b \in Block, Load(b)
  PROVE  CounterInv'
<1> DEFINE sig == Sig(Gather(Current(b), states[cycle[b]], states[cycle[b] + 1]))
           prev == prevSig[Here(b)]
<1>1. UNCHANGED <<profile, cycle, stage, part>> BY DEF Load
<1>2. FirstCounted' BY <1>1 DEF FirstCounted, Past, CounterInv
<1>3. ASSUME NEW k \in Slot, Closing(k) PROVE Closes(k)'
  BY <1>1, <1>3 DEF Closes, CounterInv
<1>4. SkipKnown'
  <2> SUFFICES ASSUME NEW a \in Block, loaded'[a].full, Closing(Here(a))
               PROVE  loaded'[a].skip <=> cycle[a] > 0 /\ cycle[a] >= Warmup /\ ~loaded'[a].changed
    BY <1>1 DEF SkipKnown, Here
  <2>1. CASE a = b
    <3>1. /\ loaded'[b].changed = ((EnableProfile \/ EnablePrune) /\ sig # prev)
          /\ loaded'[b].skip = ((EnableProfile \/ EnablePrune) /\ CanSkip(b, sig, prev))
      BY DEF Load, TypeOK
    <3>2. Running(b) /\ ~AtEnd(b) BY DEF Load
    <3>3. part[b] = 1
      <4>1. part[b] \in 1 .. Len(Script[Here(b)]) BY <3>2, RunningFacts
      <4>2. Len(Script[Here(b)]) = 1 BY <2>1 DEF Closing
      <4>3. part[b] \in 1 .. 1 BY <4>1, <4>2, Zenon
      <4>4. QED BY <4>3
    <3>4. Srams[Current(b)] = {} BY <2>1, <3>3 DEF Closing, Current
    <3>5. QED BY <2>1, <3>1, <3>4 DEF CanSkip
  <2>2. CASE a # b
    <3>1. loaded'[a] = loaded[a] BY <2>2 DEF Load, TypeOK
    <3>2. QED BY <3>1 DEF CounterInv, SkipKnown
  <2>3. QED BY <2>1, <2>2
<1>5. QED BY <1>2, <1>3, <1>4 DEF CounterInv

(* Finishing a partition leaves other slots alone, and moves its own past  *)
(* the first position.                                                     *)
LEMMA FinishedFacts ==
  ASSUME TypeOK, CounterInv, NEW b \in Block, loaded[b].full, NextPart(b),
         NEW k \in Slot, Closing(k)
  PROVE  /\ k # Here(b) => (Past(0, k, 1)' <=> Past(0, k, 1))
         /\ k = Here(b) => Past(0, k, 1)' /\ (Past(0, k, 1) <=> cycle[b] > 0)
<1>1. Running(b) /\ ~AtEnd(b) BY DEF TypeOK
<1>2. Here(b) \in Slot /\ part[b] \in 1 .. Len(Script[Here(b)]) BY <1>1, RunningFacts
<1>3. /\ UNCHANGED <<cycle, stage>>
      /\ part' = [part EXCEPT ![b] = @ + 1]
  BY DEF NextPart
<1>4. k = <<k[1], k[2]>> /\ k[1] \in Stage /\ k[2] \in Block BY DEF Slot
<1>5. cycle[b] \in Nat /\ stage[b] \in Nat /\ part[b] \in Nat
  BY RunAssumption DEF TypeOK, Stage
<1>6. CASE k = Here(b)
  <2>1. k[1] = stage[b] /\ k[2] = b BY <1>6 DEF Here
  <2>2. part[b] = 1
    <3>1. Len(Script[Here(b)]) = 1 BY <1>6 DEF Closing
    <3>2. part[b] \in 1 .. 1 BY <1>2, <3>1, Zenon
    <3>3. QED BY <3>2
  <2>3. part'[b] = 2 BY <1>3, <2>2 DEF TypeOK
  <2>4. QED BY <1>3, <1>5, <1>6, <2>1, <2>2, <2>3 DEF Past
<1>7. CASE k # Here(b)
  <2>1. CASE k[2] = b
    <3>1. k[1] # stage[b] BY <1>4, <1>7, <2>1 DEF Here
    <3>2. QED BY <1>3, <1>7, <2>1, <3>1 DEF Past
  <2>2. CASE k[2] # b
    <3>1. part'[k[2]] = part[k[2]] BY <1>3, <1>4, <2>2 DEF TypeOK
    <3>2. QED BY <1>3, <1>7, <3>1 DEF Past
  <2>3. QED BY <2>1, <2>2
<1>8. QED BY <1>6, <1>7

LEMMA RunCounterInv ==
  ASSUME EnablePrune, TypeOK, TypeOK', CounterInv, NEW b \in Block, Skip(b) \/ Execute(b)
  PROVE  CounterInv'
<1> DEFINE h == Here(b)
           toggled == Toggled(Current(b), states[cycle[b]],
                        Evaluate(Current(b), loaded[b].packed, states[cycle[b]], ram))
<1>1. loaded[b].full /\ NextPart(b) BY DEF Skip, Execute
<1>2. Running(b) /\ ~AtEnd(b) BY <1>1 DEF TypeOK
<1>3. h \in Slot BY <1>2, RunningFacts
<1>4. UNCHANGED <<cycle, stage>> /\ loaded' = [loaded EXCEPT ![b] = NotLoaded]
  BY <1>1 DEF NextPart
<1>5. SkipKnown'
  <2> SUFFICES ASSUME NEW a \in Block, loaded'[a].full, Closing(Here(a))
               PROVE  loaded'[a].skip <=> cycle[a] > 0 /\ cycle[a] >= Warmup /\ ~loaded'[a].changed
    BY <1>4 DEF SkipKnown, Here
  <2>1. a # b BY <1>4 DEF TypeOK, NotLoaded
  <2>2. loaded'[a] = loaded[a] BY <1>4, <2>1 DEF TypeOK
  <2>3. QED BY <2>2 DEF CounterInv, SkipKnown
<1>6. EnableProfile BY ModeAssumption
<1>7. ASSUME NEW k \in Slot, k # h PROVE profile'[k] = profile[k]
  <2>1. CASE Skip(b) BY <1>7, <2>1 DEF Skip, CountSkip, TypeOK
  <2>2. CASE Execute(b) BY <1>7, <2>2 DEF Execute, CountRun, TypeOK
  <2>3. QED BY <2>1, <2>2
<1>8. /\ profile[h].cycles \in Nat /\ profile[h].skipped \in Nat
      /\ profile[h].inputChanged \in Nat /\ cycle[b] \in Nat
  <2>1. profile[h] \in Counts BY <1>3 DEF TypeOK
  <2>2. cycle[b] \in Nat BY RunAssumption DEF TypeOK
  <2>3. QED BY <2>1, <2>2 DEF Counts
<1>9. CASE cycle[b] >= Warmup
  <2>1. Profiled(b) BY <1>6, <1>9 DEF Profiled
  <2>2. profile'[h].cycles = profile[h].cycles + 1
    <3>1. CASE Skip(b) BY <1>3, <2>1, <3>1 DEF Skip, CountSkip, TypeOK
    <3>2. CASE Execute(b) BY <1>3, <2>1, <3>2 DEF Execute, CountRun, TypeOK
    <3>3. QED BY <3>1, <3>2
  <2>3. Closing(h) => profile'[h].skipped + profile'[h].inputChanged
                        = profile[h].skipped + profile[h].inputChanged + One(cycle[b] > 0)
    <3> SUFFICES ASSUME Closing(h)
                 PROVE  profile'[h].skipped + profile'[h].inputChanged
                          = profile[h].skipped + profile[h].inputChanged + One(cycle[b] > 0)
      OBVIOUS
    <3>1. loaded[b].skip <=> cycle[b] > 0 /\ ~loaded[b].changed
      BY <1>1, <1>9 DEF CounterInv, SkipKnown
    <3>2. CASE Skip(b)
      <4>1. cycle[b] > 0 BY <3>1, <3>2 DEF Skip
      <4>2. /\ profile'[h].skipped = profile[h].skipped + 1
            /\ profile'[h].inputChanged = profile[h].inputChanged
        BY <1>3, <2>1, <3>2 DEF Skip, CountSkip, TypeOK
      <4>3. QED BY <1>8, <4>1, <4>2 DEF One
    <3>3. CASE Execute(b)
      <4>1. cycle[b] > 0 => loaded[b].changed BY <3>1, <3>3 DEF Execute
      <4>2. /\ profile'[h].skipped = profile[h].skipped
            /\ profile'[h].inputChanged
                 = profile[h].inputChanged + One(cycle[b] > 0 /\ loaded[b].changed)
        BY <1>3, <2>1, <3>3 DEF Execute, CountRun, TypeOK
      <4>3. QED BY <1>8, <4>1, <4>2 DEF One
    <3>4. QED BY <3>2, <3>3
  <2>4. FirstCounted'
    <3> SUFFICES ASSUME NEW k \in Slot, Closing(k), Warmup = 0
                 PROVE  profile'[k].cycles > 0 <=> Past(0, k, 1)'
      BY DEF FirstCounted
    <3>1. CASE k = h BY <1>1, <1>8, <2>2, <3>1, FinishedFacts
    <3>2. CASE k # h
      BY <1>1, <1>7, <3>2, FinishedFacts DEF CounterInv, FirstCounted
    <3>3. QED BY <3>1, <3>2
  <2>5. ASSUME NEW k \in Slot, Closing(k) PROVE Closes(k)'
    <3>1. CASE k # h BY <1>7, <2>5, <3>1 DEF Closes, CounterInv
    <3>2. CASE k = h
      <4>1. Closes(h) BY <2>5, <3>2 DEF CounterInv
      <4>2. Warmup = 0 => (profile[h].cycles > 0 <=> cycle[b] > 0)
        BY <1>1, <1>3, <2>5, <3>2, FinishedFacts DEF CounterInv, FirstCounted
      <4>3. Warmup # 0 => cycle[b] > 0 BY <1>8, <1>9, RunAssumption
      <4>4. /\ profile'[h].cycles \in Nat
            /\ profile'[h].skipped \in Nat /\ profile'[h].inputChanged \in Nat
        BY <1>3 DEF TypeOK, Counts
      <4>5. QED
        BY <1>8, <2>2, <2>3, <2>5, <3>2, <4>1, <4>2, <4>3, <4>4 DEF Closes, One
    <3>3. QED BY <3>1, <3>2
  <2>6. QED BY <1>5, <2>4, <2>5 DEF CounterInv
<1>10. CASE ~(cycle[b] >= Warmup)
  <2>1. profile' = profile
    BY <1>10 DEF Skip, CountSkip, Execute, CountRun, Profiled
  <2>2. Warmup # 0 BY <1>8, <1>10
  <2>3. QED BY <1>5, <2>1, <2>2 DEF CounterInv, FirstCounted, Closes
<1>11. QED BY <1>9, <1>10

(* The barrier lets a block on only when it is past the end of its script, *)
(* so that no closing slot gains or loses its first cycle there.           *)
LEMMA SyncCounterInv ==
  ASSUME TypeOK, CounterInv, NEW b \in Block, NextStage(b) \/ NextCycle(b)
  PROVE  CounterInv'
<1>1. Running(b) /\ AtEnd(b) BY DEF NextStage, NextCycle, Released
<1>2. ~loaded[b].full BY <1>1 DEF TypeOK
<1>3. /\ UNCHANGED <<profile, loaded>>
      /\ part' = [part EXCEPT ![b] = 1]
      /\ \A a \in Block \ {b} : cycle'[a] = cycle[a] /\ stage'[a] = stage[a]
  BY DEF NextStage, NextCycle, TypeOK
<1>4. \A a \in Block : loaded[a].full => a # b BY <1>2
<1>5. SkipKnown' BY <1>3, <1>4 DEF CounterInv, SkipKnown, Here
<1>6. ASSUME NEW k \in Slot, Closing(k) PROVE Past(0, k, 1)' <=> Past(0, k, 1)
  <2>1. k = <<k[1], k[2]>> /\ k[1] \in Stage /\ k[2] \in Block BY DEF Slot
  <2>2. CASE k[2] # b
    <3>1. /\ cycle'[k[2]] = cycle[k[2]] /\ stage'[k[2]] = stage[k[2]]
          /\ part'[k[2]] = part[k[2]]
      BY <1>3, <2>1, <2>2 DEF TypeOK
    <3>2. QED BY <3>1 DEF Past
  <2>3. CASE k[2] = b
    <3>1. part'[b] = 1 BY <1>3 DEF TypeOK
    <3>2. stage[b] = k[1] => part[b] > 1 BY <1>1, <1>6, <2>1, <2>3 DEF AtEnd, Here, Closing
    <3>3. /\ cycle[b] \in Nat /\ stage[b] \in Nat /\ k[1] \in Nat /\ k[1] < NumStages
          /\ part[b] \in Nat /\ NumStages \in Nat
      BY <2>1, RunAssumption DEF TypeOK, Stage
    <3>4. CASE NextStage(b)
      <4>1. cycle'[b] = cycle[b] /\ stage'[b] = stage[b] + 1 BY <3>4 DEF NextStage, TypeOK
      <4>2. QED BY <2>3, <3>1, <3>2, <3>3, <4>1 DEF Past
    <3>5. CASE NextCycle(b)
      <4>1. cycle'[b] = cycle[b] + 1 /\ stage[b] + 1 = NumStages
        BY <3>5 DEF NextCycle, TypeOK
      <4>2. QED BY <2>3, <3>2, <3>3, <4>1 DEF Past
    <3>6. QED BY <3>4, <3>5
  <2>4. QED BY <2>2, <2>3
<1>7. FirstCounted' BY <1>3, <1>6 DEF CounterInv, FirstCounted
<1>8. QED BY <1>3, <1>5, <1>7 DEF CounterInv, Closes

LEMMA NextCounterInv ==
  ASSUME EnablePrune, TypeOK, TypeOK', CounterInv, [Next]_vars
  PROVE  CounterInv'
<1>1. ASSUME NEW b \in Block, Step(b) PROVE CounterInv'
  BY <1>1, LoadCounterInv, RunCounterInv, SyncCounterInv DEF Step
<1>2. CASE UNCHANGED vars
  BY <1>2 DEF vars, CounterInv, SkipKnown, FirstCounted, Closes, Past, Here
<1>3. QED BY <1>1, <1>2 DEF Next, Terminated

(* The five counters of a slot with one partition and no memory agree, for *)
(* every script, stimulus, warmup and number of cycles.                    *)
THEOREM CountersAlwaysClose == Spec => []CountersClose
<1>1. CASE EnablePrune
  <2>1. CounterInv => CountersClose BY DEF CounterInv, CountersClose, Closing, Closes
  <2>2. TypeOK /\ TypeOK' /\ CounterInv /\ [Next]_vars => CounterInv'
    BY <1>1, NextCounterInv
  <2>3. QED BY <2>1, <2>2, InitCounterInv, TypeCorrect, PTL DEF Spec
<1>2. CASE ~EnablePrune
  <2>1. CountersClose BY <1>2 DEF CountersClose
  <2>2. QED BY <2>1, PTL
<1>3. QED BY <1>1, <1>2

(* Pruning is effective: with one partition per slot and no signature      *)
(* collision, whatever is executed past the warmup has memories or inputs  *)
(* other than those of the previous cycle.                                 *)
LEMMA ExecutedIsBusy ==
  ASSUME EnablePrune, Inv, SkipKnown, FaithfulSignatures, NEW b \in Block, Execute(b),
         cycle[b] > 0, cycle[b] >= Warmup, Srams[Current(b)] = {}
  PROVE  Gather(Current(b), states[cycle[b]], states[cycle[b] + 1])
           # Gather(Current(b), states[cycle[b] - 1], states[cycle[b]])
<1>1. loaded[b].full /\ ~loaded[b].skip BY DEF Execute
<1>2. Running(b) /\ ~AtEnd(b) /\ TypeOK BY <1>1 DEF Inv, TypeOK
<1>3. /\ Here(b) \in Slot /\ part[b] \in 1 .. Len(Script[Here(b)])
      /\ Len(Script[Here(b)]) \in Nat /\ cycle[b] \in Nat
  BY <1>2, RunningFacts, RunAssumption DEF TypeOK
<1>4. EnableProfile BY ModeAssumption
<1>5. Len(Script[Here(b)]) <= 1 BY <1>3, <1>4 DEF FaithfulSignatures
<1>6. Len(Script[Here(b)]) = 1 /\ part[b] = 1
  <2> DEFINE n == Len(Script[Here(b)])
  <2>1. n \in Nat /\ part[b] \in 1 .. n /\ n <= 1 BY <1>3, <1>5
  <2> HIDE DEF n
  <2>2. n = 1 /\ part[b] = 1 BY <2>1
  <2>3. QED BY <2>2 DEF n
<1>7. Closing(Here(b)) BY <1>6 DEF Closing, Current
<1>8. loaded[b].changed BY <1>1, <1>7 DEF SkipKnown
<1>9. InputsAt(cycle[b], Here(b), part[b]) # InputsAt(cycle[b] - 1, Here(b), part[b])
  BY <1>1, <1>4, <1>8 DEF Inv, ChangeKnown
<1>10. (cycle[b] - 1) + 1 = cycle[b] BY <1>3
<1>11. QED BY <1>9, <1>10 DEF InputsAt, Current

THEOREM QuietPartitionsAreSkipped ==
  ASSUME FaithfulSignatures
  PROVE  Spec => QuietIsSkipped
<1> DEFINE Busy ==
      \A b \in Block :
        LET p == Current(b)
            c == cycle[b]
        IN  /\ EnablePrune
            /\ Execute(b)
            /\ c > 0 /\ c >= Warmup
            /\ Srams[p] = {}
            => Gather(p, states[c], states[c + 1]) # Gather(p, states[c - 1], states[c])
<1>1. Inv /\ (EnablePrune => SkipKnown) => Busy BY ExecutedIsBusy
<1>2. Inv /\ [Next]_vars => Inv' BY NextInv
<1>3. CASE EnablePrune
  <2>1. TypeOK /\ TypeOK' /\ CounterInv /\ [Next]_vars => CounterInv'
    BY <1>3, NextCounterInv
  <2>2. CounterInv => SkipKnown BY DEF CounterInv
  <2>3. Inv => TypeOK BY DEF Inv
  <2> HIDE DEF Busy
  <2>4. Spec => [][Busy]_vars
    BY <1>1, <1>2, <2>1, <2>2, <2>3, InitInv, InitCounterInv, PTL DEF Spec
  <2>5. QED BY <2>4 DEF QuietIsSkipped, Busy
<1>4. CASE ~EnablePrune
  <2>1. Busy BY <1>4
  <2> HIDE DEF Busy
  <2>2. [][Busy]_vars BY <2>1, PTL
  <2>3. QED BY <2>2 DEF QuietIsSkipped, Busy
<1>5. QED BY <1>3, <1>4

(* The instance's copies of the script operators are the operators.        *)
LEMMA SameOperators ==
  /\ \A p, s, t : Dataflow!Gather(p, s, t) = Gather(p, s, t)
  /\ \A p, s, new : Dataflow!Overwrite(s, p, new) = Overwrite(s, p, new)
  /\ \A p, s, t : Dataflow!Toggled(p, s, t) = Toggled(p, s, t)
  /\ \A e : Dataflow!One(e) = One(e)
  /\ Dataflow!Slot = Slot
  /\ Dataflow!SramBit = SramBit
<1>1. \A p, s, t : Dataflow!Gather(p, s, t) = Gather(p, s, t)
  BY DEF Dataflow!Gather, Gather
<1>2. \A p, s, new : Dataflow!Overwrite(s, p, new) = Overwrite(s, p, new)
  BY DEF Dataflow!Overwrite, Overwrite
<1>3. \A p, s, t : Dataflow!Toggled(p, s, t) = Toggled(p, s, t)
  BY DEF Dataflow!Toggled, Toggled, Dataflow!Cardinality, Cardinality
<1>4. \A e : Dataflow!One(e) = One(e)
  BY DEF Dataflow!One, One
<1>5. Dataflow!Slot = Slot
  BY DEF Dataflow!Slot, Slot, Dataflow!Stage, Stage
<1>6. Dataflow!SramBit = SramBit
  BY DEF Dataflow!SramBit, SramBit
<1>7. QED BY <1>1, <1>2, <1>3, <1>4, <1>5, <1>6

LEMMA SameEvaluate ==
  ASSUME NEW p, NEW in, NEW before, NEW memory
  PROVE  Dataflow!Evaluate(p, in, before, memory) = Evaluate(p, in, before, memory)
BY DEF Dataflow!Evaluate, Evaluate, Dataflow!WriteOut, WriteOut, Dataflow!NewBit, NewBit

LEMMA SameCommitRam ==
  ASSUME NEW p, NEW in, NEW memory
  PROVE  Dataflow!CommitRam(p, in, memory) = CommitRam(p, in, memory)
BY SameOperators DEF Dataflow!CommitRam, CommitRam

----------------------------------------------------------------------------
(* The history that the refinement reconstructs from the blocks' positions. *)

LEMMA DoneIsPast ==
  ASSUME NEW k \in Slot, NEW i \in 1 .. Len(Script[k]), NEW d \in 0 .. NumCycles - 1
  PROVE  /\ <<d, Script[k][i]>> \in Completed <=> Past(d, k, i)
         /\ <<d, Script[k][i]>> \in Completed' <=> Past(d, k, i)'
<1>1. Script[k][i] \in Part BY ScriptType
<1>2. \A l \in Slot : \A j \in 1 .. Len(Script[l]) :
        Script[l][j] = Script[k][i] => l = k /\ j = i
  BY ScriptAssumption
<1>3. QED BY <1>1, <1>2 DEF Completed

LEMMA HasPlace ==
  ASSUME NEW p \in Part
  PROVE  \E k \in Slot : \E i \in 1 .. Len(Script[k]) : Script[k][i] = p
BY ScriptAssumption

LEMMA DoneIsPair == \A cp : cp \in Completed \/ cp \in Completed'
                              => cp \in (0 .. NumCycles - 1) \X Part
BY DEF Completed

(* A block that works has every earlier cycle and stage behind it. *)
LEMMA EarlierIsDone ==
  ASSUME TypeOK, InLockstep, NEW w \in Block,
         NEW l \in Slot, NEW j \in 1 .. Len(Script[l]), NEW d \in 0 .. NumCycles - 1,
         d < cycle[w] \/ (d = cycle[w] /\ l[1] < stage[w])
  PROVE  Past(d, l, j)
<1> USE RunAssumption
<1>1. l = <<l[1], l[2]>> /\ l[2] \in Block /\ l[1] \in 0 .. NumStages - 1
  BY DEF Slot, Stage
<1> DEFINE b == l[2]
<1>2. /\ cycle[w] \in Nat /\ stage[w] \in 0 .. NumStages - 1
      /\ cycle[b] \in Nat /\ stage[b] \in 0 .. NumStages - 1
  BY <1>1 DEF TypeOK, Stage
<1>3. AtEnd(b) /\ stage[b] = l[1] => part[b] > j
  <2>1. SUFFICES ASSUME AtEnd(b), stage[b] = l[1] PROVE part[b] > j
    OBVIOUS
  <2>2. part[b] > Len(Script[l]) BY <1>1, <2>1 DEF AtEnd, Here
  <2> DEFINE n == Len(Script[l])
  <2>3. n \in Nat /\ part[b] \in Nat /\ part[b] > n /\ j \in 1 .. n
    BY <1>1, <2>2, ScriptAssumption DEF TypeOK
  <2> HIDE DEF n, b
  <2>4. QED BY <2>3
<1>4. \/ cycle[b] > cycle[w]
      \/ cycle[b] = cycle[w] /\ stage[b] >= stage[w]
      \/ cycle[b] = cycle[w] /\ stage[b] + 1 = stage[w] /\ AtEnd(b)
      \/ /\ cycle[b] + 1 = cycle[w] /\ stage[w] = 0
         /\ stage[b] = NumStages - 1 /\ AtEnd(b)
  BY <1>1 DEF InLockstep
<1>5. \/ cycle[b] > d
      \/ cycle[b] = d /\ stage[b] > l[1]
      \/ cycle[b] = d /\ stage[b] = l[1] /\ part[b] > j
  <2>1. l[1] \in 0 .. NumStages - 1 BY <1>1
  <2>2. d \in Nat OBVIOUS
  <2> HIDE DEF b
  <2>3. CASE cycle[b] > cycle[w] BY <1>2, <2>1, <2>2, <2>3
  <2>4. CASE cycle[b] = cycle[w] /\ stage[b] >= stage[w] BY <1>2, <2>1, <2>2, <2>4
  <2>5. CASE cycle[b] = cycle[w] /\ stage[b] + 1 = stage[w] /\ AtEnd(b)
    BY <1>2, <1>3, <2>1, <2>2, <2>5
  <2>6. CASE /\ cycle[b] + 1 = cycle[w] /\ stage[w] = 0
             /\ stage[b] = NumStages - 1 /\ AtEnd(b)
    BY <1>2, <1>3, <2>1, <2>2, <2>6
  <2>7. QED BY <1>4, <2>3, <2>4, <2>5, <2>6
<1>6. QED BY <1>5 DEF Past

LEMMA FiresOnce ==
  ASSUME TypeOK, InLockstep, NEW w \in Block, Skip(w) \/ Execute(w)
  PROVE  /\ <<cycle[w], Current(w)>> \notin Completed
         /\ Completed' = Completed \cup {<<cycle[w], Current(w)>>}
<1> DEFINE c == cycle[w]
           h == Here(w)
           m == part[w]
<1>1. Running(w) /\ ~AtEnd(w) BY WriteFacts
<1>2. /\ h \in Slot /\ m \in 1 .. Len(Script[h]) /\ Current(w) = Script[h][m]
      /\ Current(w) \in Part /\ c \in 0 .. NumCycles - 1
  BY <1>1, LoadedPlace
<1>3. \A k \in Slot : \A i \in 1 .. Len(Script[k]) : \A d \in 0 .. NumCycles - 1 :
        /\ Past(d, k, i)' <=> Past(d, k, i) \/ (k = h /\ i = m /\ d = c)
        /\ Past(d, k, i) => ~(k = h /\ i = m /\ d = c)
  BY PastWrite
<1> HIDE DEF c, h, m
<1>4. <<c, Script[h][m]>> \notin Completed BY <1>2, <1>3, DoneIsPast
<1>5. ASSUME NEW d \in 0 .. NumCycles - 1, NEW p \in Part
      PROVE  <<d, p>> \in Completed' <=> <<d, p>> \in Completed \/ <<d, p>> = <<c, Current(w)>>
  <2>1. PICK k \in Slot : \E i \in 1 .. Len(Script[k]) : Script[k][i] = p BY HasPlace
  <2>2. PICK i \in 1 .. Len(Script[k]) : Script[k][i] = p BY <2>1
  <2>3. /\ <<d, p>> \in Completed <=> Past(d, k, i)
        /\ <<d, p>> \in Completed' <=> Past(d, k, i)'
    BY <2>2, DoneIsPast
  <2>4. p = Current(w) <=> k = h /\ i = m
    <3>1. k # h \/ i # m => Script[k][i] # Script[h][m] BY <1>2, OnePlace
    <3>2. QED BY <1>2, <2>2, <3>1
  <2>5. QED BY <1>3, <2>3, <2>4
<1>6. <<c, Current(w)>> \in (0 .. NumCycles - 1) \X Part BY <1>2
<1>7. Completed' = Completed \cup {<<c, Current(w)>>}
  <2>1. ASSUME NEW cp
        PROVE  cp \in Completed' <=> cp \in Completed \cup {<<c, Current(w)>>}
    <3>1. CASE cp \in (0 .. NumCycles - 1) \X Part
      <4>1. PICK d \in 0 .. NumCycles - 1, p \in Part : cp = <<d, p>> BY <3>1
      <4>2. QED BY <1>5, <4>1
    <3>2. CASE cp \notin (0 .. NumCycles - 1) \X Part
      BY <1>6, <3>2, DoneIsPair
    <3>3. QED BY <3>1, <3>2
  <2>2. QED BY <2>1
<1>8. QED BY <1>2, <1>4, <1>7 DEF c


----------------------------------------------------------------------------
(* One write is one firing. *)

Activity ==
  [k \in Slot |->
     [cycles        |-> profile[k].cycles,
      inputChanged  |-> profile[k].inputChanged,
      outputChanged |-> profile[k].outputChanged,
      toggles       |-> profile[k].toggles]]

(* What the abstract firing of the partition under w's hand would write. *)
FiredInputs(w) == Gather(Current(w), states[cycle[w]], states[cycle[w] + 1])
FiredBits(w)   == Evaluate(Current(w), FiredInputs(w), states[cycle[w]], ram)

LEMMA StagedIsWritten ==
  ASSUME NEW k \in Slot, NEW i \in 1 .. Len(Script[k]), NEW n \in 1 .. Len(Reads[Script[k][i]]),
         Reads[Script[k][i]][n].staged
  PROVE  \E l \in Slot : \E j \in 1 .. Len(Script[l]) :
           l[1] < k[1] /\ Reads[Script[k][i]][n].bit \in Outs[Script[l][j]]
BY ReadsAssumption

LEMMA FiresWhenReady ==
  ASSUME TypeOK, InLockstep, NEW w \in Block, Skip(w) \/ Execute(w)
  PROVE  Dataflow!InputsFinal(cycle[w], Current(w))
<1> USE RunAssumption
<1> DEFINE c == cycle[w]
           h == Here(w)
           m == part[w]
<1>1. Running(w) /\ ~AtEnd(w) BY WriteFacts
<1>2. /\ h \in Slot /\ m \in 1 .. Len(Script[h]) /\ Current(w) = Script[h][m]
      /\ Current(w) \in Part /\ c \in 0 .. NumCycles - 1 /\ h[1] = stage[w]
  BY <1>1, LoadedPlace
<1>3. ASSUME NEW d \in 0 .. c - 1, NEW q \in Part PROVE <<d, q>> \in Completed
  <2>1. PICK l \in Slot : \E j \in 1 .. Len(Script[l]) : Script[l][j] = q BY HasPlace
  <2>2. PICK j \in 1 .. Len(Script[l]) : Script[l][j] = q BY <2>1
  <2>3. d \in 0 .. NumCycles - 1 /\ d < cycle[w] BY <1>2
  <2>4. Past(d, l, j) BY <2>3, EarlierIsDone
  <2>5. QED BY <2>2, <2>3, <2>4, DoneIsPast
<1>4. ASSUME NEW n \in 1 .. Len(Reads[Current(w)]), NEW q \in Part,
             Reads[Current(w)][n].staged, Reads[Current(w)][n].bit \in Outs[q]
      PROVE  <<c, q>> \in Completed
  <2> DEFINE x == Reads[Current(w)][n].bit
  <2>1. \E l \in Slot : \E j \in 1 .. Len(Script[l]) :
          l[1] < h[1] /\ x \in Outs[Script[l][j]]
    <3> HIDE DEF h, m
    <3>1. h \in Slot /\ m \in 1 .. Len(Script[h]) /\ Current(w) = Script[h][m] BY <1>2
    <3>2. n \in 1 .. Len(Reads[Script[h][m]]) /\ Reads[Script[h][m]][n].staged BY <3>1, <1>4
    <3>3. \E l \in Slot : \E j \in 1 .. Len(Script[l]) :
            l[1] < h[1] /\ Reads[Script[h][m]][n].bit \in Outs[Script[l][j]]
      BY <3>1, <3>2, StagedIsWritten
    <3>4. QED BY <3>1, <3>3
  <2>2. PICK l \in Slot : \E j \in 1 .. Len(Script[l]) :
          l[1] < h[1] /\ x \in Outs[Script[l][j]]
    BY <2>1
  <2>3. PICK j \in 1 .. Len(Script[l]) : l[1] < h[1] /\ x \in Outs[Script[l][j]]
    BY <2>2
  <2>4. Script[l][j] \in Part BY ScriptType
  <2>5. Script[l][j] = q BY <1>4, <2>3, <2>4, OutsAssumption
  <2>6. Past(c, l, j) BY <1>2, <2>3, EarlierIsDone
  <2>7. QED BY <1>2, <2>5, <2>6, DoneIsPast
<1>5. QED BY <1>3, <1>4 DEF Dataflow!InputsFinal

LEMMA FiredStates ==
  ASSUME FaithfulSignatures, Inv, NEW w \in Block, Skip(w) \/ Execute(w)
  PROVE  /\ states' = [states EXCEPT ![cycle[w] + 1] =
                         Overwrite(@, Current(w), FiredBits(w))]
         /\ ram' = CommitRam(Current(w), FiredInputs(w), ram)
         /\ Skip(w) => \A x \in Outs[Current(w)] : FiredBits(w)[x] = states[cycle[w]][x]
<1>1. TypeOK /\ GatheredIsCurrent /\ loaded[w].full BY WriteFacts DEF Inv
<1>2. loaded[w].packed = FiredInputs(w) BY <1>1 DEF GatheredIsCurrent, FiredInputs
<1>3. CASE Execute(w) /\ ~Skip(w)
  BY <1>2, <1>3 DEF Execute, FiredBits
<1>4. CASE Skip(w)
  <2>1. loaded[w].skip BY <1>4 DEF Skip
  <2>2. /\ Srams[Current(w)] = {}
        /\ \A x \in Outs[Current(w)] :
             WriteOut(Current(w), x, FiredInputs(w), states[cycle[w]][x], ram)
               = states[cycle[w]][x]
    BY <1>1, <2>1, InvSkipIsInvisible DEF SkipIsInvisible, FiredInputs
  <2>3. \A x \in Outs[Current(w)] : FiredBits(w)[x] = states[cycle[w]][x]
    BY <2>2 DEF FiredBits, Evaluate
  <2>4. \A s : Overwrite(s, Current(w), FiredBits(w))
                 = Overwrite(s, Current(w), states[cycle[w]])
    BY <2>3 DEF Overwrite
  <2>5. states' = [states EXCEPT ![cycle[w] + 1] = Overwrite(@, Current(w), FiredBits(w))]
    BY <1>4, <2>4 DEF Skip, CopyForward
  <2>6. CommitRam(Current(w), FiredInputs(w), ram) = ram
    BY <1>1, <2>2 DEF CommitRam, TypeOK
  <2>7. ram' = ram BY <1>4 DEF Skip
  <2>8. QED BY <2>3, <2>5, <2>6, <2>7
<1>5. QED BY <1>3, <1>4

LEMMA PlaceIsHere ==
  ASSUME TypeOK, NEW w \in Block, Running(w), ~AtEnd(w)
  PROVE  Dataflow!SlotOf(Current(w)) = Here(w)
<1> DEFINE h == Here(w)
           m == part[w]
<1>1. h \in Slot /\ m \in 1 .. Len(Script[h]) /\ Current(w) = Script[h][m]
  BY LoadedPlace
<1> HIDE DEF h, m
<1>2. \A k \in Slot : (\E i \in 1 .. Len(Script[k]) : Script[k][i] = Current(w)) <=> k = h
  <2>1. ASSUME NEW k \in Slot, NEW i \in 1 .. Len(Script[k]), Script[k][i] = Current(w)
        PROVE  k = h
    BY <1>1, <2>1, OnePlace
  <2>2. QED BY <1>1, <2>1
<1>3. (CHOOSE k \in Slot : \E i \in 1 .. Len(Script[k]) : Script[k][i] = Current(w)) = h
  BY <1>1, <1>2
<1>4. QED BY <1>3, SameOperators DEF Dataflow!SlotOf, h

LEMMA FiredDiffer ==
  ASSUME Inv, EnableProfile, NEW w \in Block, Skip(w) \/ Execute(w)
  PROVE  Dataflow!InputsDiffer(cycle[w], Current(w)) <=> cycle[w] > 0 /\ loaded[w].changed
<1>1. TypeOK /\ ChangeKnown BY DEF Inv
<1>2. loaded[w].full /\ Running(w) /\ ~AtEnd(w) BY <1>1, WriteFacts
<1>3. cycle[w] \in Nat BY <1>1 DEF TypeOK
<1>4. (cycle[w] - 1) + 1 = cycle[w] BY <1>3
<1>5. cycle[w] > 0 =>
        (loaded[w].changed <=>
           Gather(Current(w), states[cycle[w]], states[cycle[w] + 1])
             # Gather(Current(w), states[cycle[w] - 1], states[cycle[w]]))
  BY <1>1, <1>2, <1>4 DEF ChangeKnown, InputsAt, Current
<1>6. QED BY <1>5, SameOperators DEF Dataflow!InputsDiffer


LEMMA FiredActivity ==
  ASSUME FaithfulSignatures, Inv, NEW w \in Block, Skip(w) \/ Execute(w)
  PROVE  IF EnableProfile /\ cycle[w] >= Warmup
         THEN Activity' =
                [Activity EXCEPT ![Here(w)] =
                   LET toggled == Toggled(Current(w), states[cycle[w]], FiredBits(w))
                   IN  [cycles        |-> @.cycles + 1,
                        inputChanged  |-> @.inputChanged
                                            + One(cycle[w] > 0 /\ loaded[w].changed),
                        outputChanged |-> @.outputChanged + One(toggled # 0),
                        toggles       |-> @.toggles + toggled]]
         ELSE Activity' = Activity
<1> DEFINE h == Here(w)
           toggled == Toggled(Current(w), states[cycle[w]], FiredBits(w))
<1>1. TypeOK /\ GatheredIsCurrent /\ SkipDecision BY DEF Inv
<1>2. loaded[w].full /\ Running(w) /\ ~AtEnd(w) BY <1>1, WriteFacts
<1>3. h \in Slot /\ Current(w) \in Part BY <1>1, <1>2, LoadedPlace
<1>4. CASE ~Profiled(w)
  <2>1. profile' = profile BY <1>4 DEF Skip, Execute, CountSkip, CountRun
  <2>2. QED BY <1>4, <2>1 DEF Profiled, Activity
<1>5. CASE Profiled(w)
  <2> DEFINE old == profile[h]
  <2>1. profile \in [Slot -> Counts] /\ old \in Counts BY <1>1, <1>3 DEF TypeOK
  <2>2. CASE Execute(w) /\ ~Skip(w)
    <3>1. loaded[w].packed = FiredInputs(w)
      BY <1>1, <1>2 DEF GatheredIsCurrent, FiredInputs
    <3>2. CountRun(w, toggled) BY <2>2, <3>1 DEF Execute, FiredBits
    <3> HIDE DEF toggled
    <3>3. profile' = [profile EXCEPT ![h] =
                        [cycles        |-> old.cycles + 1,
                         inputChanged  |-> old.inputChanged
                                             + One(cycle[w] > 0 /\ loaded[w].changed),
                         outputChanged |-> old.outputChanged + One(toggled # 0),
                         toggles       |-> old.toggles + toggled,
                         skipped       |-> old.skipped]]
      BY <1>3, <1>5, <2>1, <3>2 DEF CountRun
    <3> HIDE DEF h
    <3>4. Activity' =
            [Activity EXCEPT ![h] =
               [cycles        |-> @.cycles + 1,
                inputChanged  |-> @.inputChanged
                                    + One(cycle[w] > 0 /\ loaded[w].changed),
                outputChanged |-> @.outputChanged + One(toggled # 0),
                toggles       |-> @.toggles + toggled]]
      BY <1>3, <2>1, <3>3 DEF Activity
    <3>5. QED BY <1>5, <3>4 DEF Profiled, h, toggled
  <2>3. CASE Skip(w)
    <3>1. toggled = 0
      <4>1. {x \in Outs[Current(w)] : states[cycle[w]][x] # FiredBits(w)[x]} = {}
        BY <2>3, FiredStates
      <4>2. QED BY <4>1, FS_EmptySet DEF Toggled
    <3>2. ~loaded[w].changed BY <1>1, <1>2, <2>3 DEF Skip, SkipDecision
    <3>3. One(cycle[w] > 0 /\ loaded[w].changed) = 0 /\ One(toggled # 0) = 0
      BY <3>1, <3>2 DEF One
    <3> HIDE DEF toggled
    <3>4. profile' = [profile EXCEPT ![h] =
                        [cycles        |-> old.cycles + 1,
                         inputChanged  |-> old.inputChanged,
                         outputChanged |-> old.outputChanged,
                         toggles       |-> old.toggles,
                         skipped       |-> old.skipped + 1]]
      BY <1>3, <1>5, <2>1, <2>3 DEF Skip, CountSkip
    <3> DEFINE n == One(cycle[w] > 0 /\ loaded[w].changed)
               o == One(toggled # 0)
    <3>5. n = 0 /\ o = 0 BY <3>3
    <3> HIDE DEF h, n, o
    <3>6. /\ old.inputChanged + n = old.inputChanged
          /\ old.outputChanged + o = old.outputChanged
          /\ old.toggles + toggled = old.toggles
      BY <2>1, <3>1, <3>5 DEF Counts
    <3>7. Activity' =
            [Activity EXCEPT ![h] =
               [cycles        |-> @.cycles + 1,
                inputChanged  |-> @.inputChanged + n,
                outputChanged |-> @.outputChanged + o,
                toggles       |-> @.toggles + toggled]]
      BY <1>3, <2>1, <3>4, <3>6 DEF Activity
    <3>8. QED BY <1>5, <3>7 DEF Profiled, h, n, o, toggled
  <2>4. QED BY <2>2, <2>3
<1>6. QED BY <1>4, <1>5

LEMMA WriteFires ==
  ASSUME FaithfulSignatures, Inv, NEW w \in Block, Skip(w) \/ Execute(w)
  PROVE  Dataflow!Next
<1>1. TypeOK /\ InLockstep BY DEF Inv
<1>2. Running(w) /\ ~AtEnd(w) BY <1>1, WriteFacts
<1>3. Current(w) \in Part /\ cycle[w] \in Dataflow!Cycle
  BY <1>1, <1>2, LoadedPlace DEF Dataflow!Cycle
<1>4. PICK c \in Dataflow!Cycle, p \in Part : c = cycle[w] /\ p = Current(w)
  BY <1>3
<1> DEFINE in  == Dataflow!Gather(p, states[c], states[c + 1])
           new == Dataflow!Evaluate(p, in, states[c], ram)
<1>5. <<c, p>> \notin Completed /\ Completed' = Completed \cup {<<c, p>>}
  BY <1>1, <1>4, FiresOnce
<1>6. Dataflow!InputsFinal(c, p)
  BY <1>1, <1>4, FiresWhenReady DEF Dataflow!InputsFinal
<1>7. in = FiredInputs(w) /\ new = FiredBits(w)
  BY <1>4, SameOperators, SameEvaluate DEF FiredInputs, FiredBits
<1>8. /\ states' = [states EXCEPT ![c + 1] = Dataflow!Overwrite(@, p, new)]
      /\ ram' = Dataflow!CommitRam(p, in, ram)
  BY <1>4, <1>7, FiredStates, SameOperators, SameCommitRam
<1>9. IF EnableProfile /\ c >= Warmup
      THEN Dataflow!Observe(c, p, new)
      ELSE Activity' = Activity
  <2>1. EnableProfile => (Dataflow!InputsDiffer(c, p) <=> c > 0 /\ loaded[w].changed)
    BY <1>4, FiredDiffer DEF Dataflow!InputsDiffer
  <2>2. Dataflow!SlotOf(p) = Here(w) BY <1>1, <1>2, <1>4, PlaceIsHere
  <2>3. EnableProfile => Dataflow!One(Dataflow!InputsDiffer(c, p))
                           = One(cycle[w] > 0 /\ loaded[w].changed)
    BY <1>4, <2>1 DEF Dataflow!One, One
  <2>4. ASSUME EnableProfile, c >= Warmup
        PROVE  Activity' =
                 [Activity EXCEPT ![Dataflow!SlotOf(p)] =
                    LET toggled == Dataflow!Toggled(p, states[c], new)
                    IN  [cycles        |-> @.cycles + 1,
                         inputChanged  |-> @.inputChanged
                                             + Dataflow!One(Dataflow!InputsDiffer(c, p)),
                         outputChanged |-> @.outputChanged + Dataflow!One(toggled # 0),
                         toggles       |-> @.toggles + toggled]]
    <3> DEFINE t == Toggled(p, states[c], new)
    <3>1. Dataflow!Toggled(p, states[c], new) = t /\ Dataflow!One(t # 0) = One(t # 0)
      BY SameOperators
    <3>2. t = Toggled(Current(w), states[cycle[w]], FiredBits(w)) BY <1>4, <1>7
    <3> HIDE DEF t, new
    <3>3. Activity' =
            [Activity EXCEPT ![Here(w)] =
               [cycles        |-> @.cycles + 1,
                inputChanged  |-> @.inputChanged
                                    + One(cycle[w] > 0 /\ loaded[w].changed),
                outputChanged |-> @.outputChanged + One(t # 0),
                toggles       |-> @.toggles + t]]
      BY <1>4, <2>4, <3>2, FiredActivity
    <3>4. QED BY <2>2, <2>3, <2>4, <3>1, <3>3
  <2>5. EnableProfile /\ c >= Warmup => Dataflow!Observe(c, p, new)
    BY <2>4 DEF Dataflow!Observe, Activity
  <2>6. ~(EnableProfile /\ c >= Warmup) => Activity' = Activity
    BY <1>4, FiredActivity
  <2>7. QED BY <2>5, <2>6
<1>10. Dataflow!Fire(c, p)
  BY <1>5, <1>6, <1>8, <1>9 DEF Dataflow!Fire, Activity
<1>11. QED BY <1>10 DEF Dataflow!Next

----------------------------------------------------------------------------
(* The refinement. *)

LEMMA InitRefines == Init => Dataflow!Init
<1> SUFFICES ASSUME Init PROVE Dataflow!Init
  OBVIOUS
<1> USE RunAssumption
<1>1. Dataflow!InputBit = InputBit BY DEF Dataflow!InputBit, InputBit
<1>2. \E stimulus \in [0 .. NumCycles -> SUBSET Dataflow!InputBit] :
        states = [c \in 0 .. NumCycles |-> [x \in Bit |-> x \in stimulus[c]]]
  BY <1>1 DEF Init
<1>3. ram = [x \in Dataflow!SramBit |-> [a \in Addr |-> FALSE]]
  BY SameOperators DEF Init
<1>4. Completed = {}
  <2>1. \A k \in Slot : \A i \in 1 .. Len(Script[k]) : \A d \in 0 .. NumCycles - 1 :
          ~Past(d, k, i)
    BY DEF Init, Past, Slot, Stage
  <2>2. QED BY <2>1 DEF Completed
<1>5. Activity = [k \in Dataflow!Slot |-> Dataflow!NoActivity]
  BY SameOperators DEF Init, Activity, NoCounts, Dataflow!NoActivity
<1>6. QED BY <1>2, <1>3, <1>4, <1>5 DEF Dataflow!Init, Activity

LEMMA SyncIsInvisible ==
  ASSUME TypeOK, NEW w \in Block, NextStage(w) \/ NextCycle(w)
  PROVE  Completed' = Completed
<1>1. \A k \in Slot : \A i \in 1 .. Len(Script[k]) : \A d \in 0 .. NumCycles - 1 :
        Past(d, k, i)' <=> Past(d, k, i)
  BY PastSync
<1>2. QED BY <1>1 DEF Completed

LEMMA NextRefines ==
  ASSUME FaithfulSignatures, Inv, [Next]_vars
  PROVE  [Dataflow!Next]_(Dataflow!vars)
<1>1. TypeOK BY DEF Inv
<1>2. ASSUME UNCHANGED <<states, ram, profile>>, Completed' = Completed
      PROVE  UNCHANGED Dataflow!vars
  BY <1>2 DEF Dataflow!vars
<1>3. ASSUME NEW w \in Block, Load(w) PROVE UNCHANGED Dataflow!vars
  <2>1. UNCHANGED <<states, ram, profile, cycle, stage, part>> BY <1>1, <1>3, LoadFacts
  <2>2. Completed' = Completed BY <2>1 DEF Completed, Past
  <2>3. QED BY <1>2, <2>1, <2>2
<1>4. ASSUME NEW w \in Block, NextStage(w) \/ NextCycle(w) PROVE UNCHANGED Dataflow!vars
  BY <1>1, <1>2, <1>4, SyncIsInvisible, SyncFacts
<1>5. CASE UNCHANGED vars
  BY <1>2, <1>5 DEF vars, Completed, Past
<1>6. QED BY <1>3, <1>4, <1>5, WriteFires DEF Next, Step, Terminated

(* The pruning kernel computes the same waveform, memories and activity    *)
(* counters as evaluating every partition in every cycle, provided that a  *)
(* profiled slot holds one partition and no two inputs share a signature.  *)
THEOREM PruningRefinesDataflow ==
  ASSUME FaithfulSignatures
  PROVE  Spec => ImplementsDataflow
<1>1. Inv /\ [Next]_vars => Inv' BY NextInv
<1>2. Inv /\ [Next]_vars => [Dataflow!Next]_(Dataflow!vars) BY NextRefines
<1>3. QED
  BY <1>1, <1>2, InitInv, InitRefines, PTL DEF Spec, ImplementsDataflow, Dataflow!Spec
=============================================================================
