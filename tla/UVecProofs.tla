----------------------------- MODULE UVecProofs -----------------------------
(***************************************************************************)
(* UVec keeps its buffers coherent and never panics, for any number of     *)
(* devices, readers, values and lengths, when its callers keep to the      *)
(* calls that preserve the content (Careful).                              *)
(*                                                                         *)
(* Coherent is not inductive.  Two more things hold it up: every buffer    *)
(* has exactly capacity elements (Shape), and a reader that copies holds   *)
(* the lock of the device it copies to, so that nobody publishes or        *)
(* rewrites that buffer meanwhile (Readers).                               *)
(***************************************************************************)
EXTENDS UVec, TLAPS, WellFoundedInduction

Full == [1 .. capacity -> Elem]

Shape ==
  /\ capacity \in Nat /\ capacity <= Heuristic(MaxLen)
  /\ len \in 0 .. capacity
  /\ buf \in [Device -> {NoBuffer} \cup Full]
  /\ valid \in SUBSET Device
  /\ written \in [1 .. len -> Elem]

Agree(b) == \A i \in 1 .. len : written[i] # Junk => b[i] = written[i]
Sound(d) == buf[d] # NoBuffer /\ Agree(buf[d])

Content ==
  /\ capacity > 0 => valid # {}
  /\ \A d \in valid : Sound(d)

Position == {"idle", "waiting", "locked", "copying", "copied", "unlocking", "holding"}
Locked   == {"locked", "copying", "copied", "unlocking"}

Readers ==
  /\ lock \in [Device -> Thread \cup {Nobody}]
  /\ pc \in [Thread -> Position]
  /\ want \in [Thread -> Device]
  /\ panicked = FALSE
  /\ \A t \in Thread : pc[t] \in Locked => lock[want[t]] = t

Copiers ==
  \A t \in Thread :
    /\ pc[t] = "copying" => capacity > 0 /\ want[t] \notin valid /\ buf[want[t]] # NoBuffer
    /\ pc[t] = "copied"  => Sound(want[t])

UInv == Shape /\ Content /\ Readers /\ Copiers

----------------------------------------------------------------------------
(* Arithmetic of realloc_heuristic and of intervals.                       *)
LEMMA HeuristicGrows ==
  ASSUME NEW n \in Nat
  PROVE  Heuristic(n) \in Nat /\ n <= Heuristic(n)
BY DEF Heuristic

LEMMA HeuristicMonotone ==
  ASSUME NEW m \in Nat, NEW n \in Nat, m <= n
  PROVE  Heuristic(m) <= Heuristic(n)
BY DEF Heuristic

LEMMA SameInterval ==
  ASSUME NEW m \in Nat, NEW n \in Nat, 1 .. m = 1 .. n
  PROVE  m = n
<1>1. CASE m = 0 BY <1>1
<1>2. CASE m # 0
  <2>1. m \in 1 .. n BY <1>2
  <2>2. n \in 1 .. m BY <2>1
  <2>3. QED BY <2>1, <2>2
<1>3. QED BY <1>1, <1>2

LEMMA HasMinimum ==
  ASSUME NEW S \in SUBSET Nat, S # {}
  PROVE  \E d \in S : \A e \in S : d <= e
<1>1. IsWellFoundedOn(OpToRel(<, Nat), Nat) BY NatLessThanWellFounded
<1>2. PICK d \in S : \A e \in S : ~ (<<e, d>> \in OpToRel(<, Nat)) BY <1>1, WFMin
<1>3. \A e \in S : ~(e < d) BY <1>2 DEF OpToRel
<1>4. QED BY <1>3

LEMMA FirstIsValid ==
  ASSUME valid \in SUBSET Device, valid # {}
  PROVE  FirstValid \in valid
<1>1. valid \in SUBSET Nat BY UVecAssumption DEF Device
<1>2. QED BY <1>1, HasMinimum DEF FirstValid

(* The CPU is a device, and a buffer of any capacity in use is no None.    *)
LEMMA Devices == CPU \in Device /\ Zero \in Elem /\ Junk \in Elem
BY UVecAssumption DEF Device, CPU, Elem

LEMMA BufferIsThere ==
  ASSUME NEW n \in Nat, n <= Heuristic(MaxLen), NEW b \in [1 .. n -> Elem]
  PROVE  b # NoBuffer
<1>1. Heuristic(MaxLen) \in Nat BY HeuristicGrows, UVecAssumption
<1>2. b \in Buffer BY <1>1 DEF Buffer
<1>3. QED BY <1>2, UVecAssumption

----------------------------------------------------------------------------
(* schedule_device_read always succeeds and yields the content.            *)
LEMMA FetchIsSound ==
  ASSUME Shape, Content, NEW d \in Device
  PROVE  Fetchable(d) /\ Fetched(d) \in Full /\ Agree(Fetched(d))
<1>1. Allocated(d) \in Full BY Devices DEF Allocated, Blank, Full, Shape
<1>2. CASE d \in valid
  BY <1>2 DEF Fetchable, Fetched, Content, Sound, Shape
<1>3. CASE d \notin valid /\ capacity = 0
  <2>1. len = 0 BY <1>3 DEF Shape
  <2>2. QED BY <1>1, <1>3, <2>1 DEF Fetchable, Fetched, Agree
<1>4. CASE d \notin valid /\ capacity # 0
  <2>1. valid # {} /\ FirstValid \in valid BY <1>4, FirstIsValid DEF Shape, Content
  <2>2. FirstValid \in Device /\ Sound(FirstValid) BY <2>1 DEF Shape, Content
  <2>3. buf[FirstValid] \in Full BY <2>2 DEF Shape, Sound
  <2>4. 1 .. len \subseteq 1 .. capacity BY DEF Shape
  <2>5. Fetchable(d) BY <1>1, <2>1, <2>2, <2>3, <2>4 DEF Fetchable, Holds, Sound, Full
  <2>6. Fetched(d) = Copied(Allocated(d), buf[FirstValid]) BY <1>4 DEF Fetched
  <2>7. Copied(Allocated(d), buf[FirstValid]) \in Full
    BY <1>1, <2>3, <2>4 DEF Copied, Full, Shape
  <2>8. Agree(Copied(Allocated(d), buf[FirstValid]))
    BY <1>1, <2>2, <2>4 DEF Copied, Full, Agree, Sound, Shape
  <2>9. QED BY <2>5, <2>6, <2>7, <2>8
<1>5. QED BY <1>2, <1>3, <1>4

(* A device whose buffer is there has room for the content.                *)
LEMMA RoomForContent ==
  ASSUME Shape, NEW d \in Device, buf[d] # NoBuffer
  PROVE  Holds(d, len)
BY DEF Shape, Full, Holds

(* A change by the owner leaves the readers, all idle, as they are.        *)
LEMMA NobodyReads ==
  ASSUME Readers, Exclusive, Calm
  PROVE  Readers' /\ Copiers'
BY DEF Readers, Copiers, Exclusive, Calm, Locked

(* The owner leaves one device with the content and the others without.    *)
LEMMA OneBuffer ==
  ASSUME NEW d \in Device, NEW b, b \in Full',
         (capacity \in Nat /\ capacity <= Heuristic(MaxLen))',
         (len \in 0 .. capacity)',
         (written \in [1 .. len -> Elem])',
         buf' = OnlyOn(d, b), valid' = {d},
         \A i \in 1 .. len' : written'[i] # Junk => b[i] = written'[i]
  PROVE  Shape' /\ Content'
<1>1. b # NoBuffer BY BufferIsThere DEF Full
<1>2. buf'[d] = b BY DEF OnlyOn
<1>3. Shape' BY DEF Shape, OnlyOn
<1>4. Content' BY <1>1, <1>2 DEF Content, Sound, Agree
<1>5. QED BY <1>3, <1>4

----------------------------------------------------------------------------
(* The constructors.                                                       *)
LEMMA Constructed ==
  ASSUME Careful, UInv, Construct
  PROVE  UInv'
<1>m. MaxLen \in Nat BY UVecAssumption
<1>1. ASSUME NEW n \in 0 .. MaxLen, NEW cap \in 0 .. MaxLen, NEW d \in Device,
             NewZeroed(n, cap, d)
      PROVE  UInv'
  <2>1. n = cap /\ cap <= Heuristic(MaxLen) BY <1>1, <1>m, HeuristicGrows DEF NewZeroed
  <2>2. buf' = OnlyOn(d, [i \in 1 .. cap |-> Zero]) BY <1>1, <2>1 DEF NewZeroed
  <2>3. Shape' /\ Content'
    BY <1>1, <1>m, <2>1, <2>2, OneBuffer, Devices DEF NewZeroed, Full
  <2>4. QED BY <1>1, <2>3, NobodyReads DEF UInv, NewZeroed
<1>2. ASSUME NEW n \in 0 .. MaxLen, NEW cap \in 0 .. MaxLen, NEW d \in Device,
             NewUninitialized(n, cap, d)
      PROVE  UInv'
  <2>1. n <= cap /\ cap <= Heuristic(MaxLen)
    BY <1>2, <1>m, HeuristicGrows DEF NewUninitialized
  <2>2. Shape' /\ Content'
    BY <1>2, <1>m, <2>1, OneBuffer, Devices DEF NewUninitialized, Full, Blank
  <2>3. QED BY <1>2, <2>2, NobodyReads DEF UInv, NewUninitialized
<1>3. ASSUME NEW n \in 0 .. MaxLen, NEW value \in Value, FromBox(n, value)
      PROVE  UInv'
  <2>1. n <= Heuristic(MaxLen) /\ value \in Elem BY <1>m, HeuristicGrows DEF Elem
  <2>2. Shape' /\ Content' BY <1>3, <1>m, <2>1, OneBuffer, Devices DEF FromBox, Full
  <2>3. QED BY <1>3, <2>2, NobodyReads DEF UInv, FromBox
<1>4. QED BY <1>1, <1>2, <1>3 DEF Construct

(* An exclusive access through a device: fetch, then overwrite.            *)
LEMMA Written ==
  ASSUME UInv, NEW d \in Device, NEW changed \in SUBSET (1 .. len),
         NEW value \in Value, Write(d, changed, value)
  PROVE  UInv'
<1> DEFINE b == [i \in DOMAIN Fetched(d) |-> IF i \in changed THEN value ELSE Fetched(d)[i]]
<1>1. Fetchable(d) /\ Fetched(d) \in Full /\ Agree(Fetched(d)) BY FetchIsSound DEF UInv
<1>2. d \in valid => Holds(d, len) BY RoomForContent DEF UInv, Content, Sound
<1>3. value \in Elem BY DEF Elem
<1>4. /\ Exclusive /\ Calm
      /\ buf' = [buf EXCEPT ![d] = b]
      /\ valid' = {d}
      /\ written' = [i \in 1 .. len |-> IF i \in changed THEN value ELSE written[i]]
      /\ len' = len /\ capacity' = capacity
  BY <1>1, <1>2 DEF Write
<1>5. b \in Full BY <1>1, <1>3 DEF Full
<1>6. b # NoBuffer BY <1>5, BufferIsThere DEF UInv, Shape, Full
<1>7. \A i \in 1 .. len : written'[i] # Junk => b[i] = written'[i]
  BY <1>1, <1>4 DEF UInv, Shape, Full, Agree
<1> HIDE DEF b
<1>8. Shape' BY <1>3, <1>4, <1>5 DEF UInv, Shape, Full
<1>9. buf'[d] = b BY <1>4 DEF UInv, Shape
<1>10. Content' BY <1>4, <1>6, <1>7, <1>9 DEF Content, Sound, Agree
<1>11. QED BY <1>4, <1>8, <1>10, NobodyReads DEF UInv

(* reserve: the buffer of a valid device moves to a larger one.            *)
LEMMA Reserved ==
  ASSUME Careful, UInv, NEW n \in 1 .. MaxLen, NEW d \in Device, len + n <= MaxLen,
         Reserve(n, d)
  PROVE  UInv'
<1>1. d \in valid /\ Sound(d) BY DEF Reserve, UInv, Content
<1>2. Holds(d, len) BY <1>1, RoomForContent DEF UInv, Sound
<1>3. /\ Exclusive /\ Calm
      /\ capacity' = Heuristic(len + n) /\ buf' = Moved(d, capacity') /\ valid' = {d}
      /\ len' = len /\ written' = written
  BY <1>2 DEF Reserve
<1>4. len \in Nat /\ n \in Nat /\ len + n \in Nat /\ MaxLen \in Nat
  BY UVecAssumption DEF UInv, Shape
<1>5. capacity' \in Nat /\ len <= capacity' /\ capacity' <= Heuristic(MaxLen)
  <2>1. Heuristic(len + n) \in Nat /\ len + n <= Heuristic(len + n)
    BY <1>4, HeuristicGrows
  <2>2. Heuristic(len + n) <= Heuristic(MaxLen) BY <1>4, HeuristicMonotone
  <2>3. QED BY <1>3, <1>4, <2>1, <2>2
<1> DEFINE b == [i \in 1 .. capacity' |-> IF i <= len THEN buf[d][i] ELSE Junk]
<1>6. b \in Full'
  BY <1>1, <1>4, <1>5, Devices DEF UInv, Shape, Full, Sound
<1>7. \A i \in 1 .. len' : written'[i] # Junk => b[i] = written'[i]
  BY <1>1, <1>3, <1>4, <1>5 DEF Sound, Agree
<1>8. buf' = OnlyOn(d, b) BY <1>3 DEF Moved
<1> HIDE DEF b
<1>9. Shape' /\ Content'
  BY <1>3, <1>4, <1>5, <1>6, <1>7, <1>8, OneBuffer DEF UInv, Shape
<1>10. QED BY <1>3, <1>9, NobodyReads DEF UInv

(* set_len, and a resize that gives the content up.                        *)
LEMMA Relabelled ==
  ASSUME UInv, NEW n \in 0 .. MaxLen, n <= capacity, Exclusive, Calm,
         len' = n, UNCHANGED <<buf, valid, capacity>>,
         written' = Resized(n) \/ written' = Blank(n)
  PROVE  UInv'
<1>1. n \in Nat /\ Junk \in Elem BY UVecAssumption, Devices
<1>2. written' \in [1 .. n -> Elem]
  BY <1>1 DEF Resized, Blank, UInv, Shape
<1>3. \A i \in 1 .. n : written'[i] # Junk => i \in 1 .. len /\ written'[i] = written[i]
  BY <1>1 DEF Resized, Blank, UInv, Shape
<1>4. Shape' BY <1>1, <1>2 DEF UInv, Shape, Full
<1>5. Content' BY <1>3 DEF UInv, Content, Sound, Agree
<1>6. QED BY <1>4, <1>5, NobodyReads DEF UInv

LEMMA ResizedWithout ==
  ASSUME UInv, NEW n \in 0 .. MaxLen, NEW d \in Device, ResizeNoPreserve(n, d)
  PROVE  UInv'
<1>1. MaxLen \in Nat /\ n \in Nat BY UVecAssumption
<1>2. Exclusive /\ Calm /\ len' = n /\ written' = Blank(n) BY DEF ResizeNoPreserve
<1>3. CASE capacity < n
  <2>1. capacity' = Heuristic(n) /\ buf' = OnlyOn(d, Blank(capacity')) /\ valid' = {d}
    BY <1>3 DEF ResizeNoPreserve
  <2>2. capacity' \in Nat /\ n <= capacity' /\ capacity' <= Heuristic(MaxLen)
    BY <1>1, <2>1, HeuristicGrows, HeuristicMonotone
  <2>3. Blank(capacity') \in Full' /\ written' \in [1 .. n -> Elem]
    BY <1>2, Devices DEF Blank, Full
  <2>4. \A i \in 1 .. n : written'[i] = Junk BY <1>2 DEF Blank
  <2>5. Shape' /\ Content'
    BY <1>1, <1>2, <2>1, <2>2, <2>3, <2>4, OneBuffer
  <2>6. QED BY <1>2, <2>5, NobodyReads DEF UInv
<1>4. CASE ~(capacity < n)
  <2>1. n <= capacity BY <1>1, <1>4 DEF UInv, Shape
  <2>2. UNCHANGED <<buf, valid, capacity>> BY <1>4 DEF ResizeNoPreserve
  <2>3. QED BY <1>2, <2>1, <2>2, Relabelled
<1>5. QED BY <1>3, <1>4

(* A resize that fetches the content first.                                *)
LEMMA ResizedWith ==
  ASSUME Careful, UInv, NEW n \in 0 .. MaxLen, NEW d \in Device, ResizePreserve(n, d)
  PROVE  UInv'
<1> DEFINE kept == IF len # 0 THEN AfterFetch(d) ELSE buf
<1>1. MaxLen \in Nat /\ n \in Nat /\ len \in Nat /\ Junk \in Elem
  BY UVecAssumption, Devices DEF UInv, Shape
<1>2. Fetchable(d) /\ Fetched(d) \in Full /\ Agree(Fetched(d)) BY FetchIsSound DEF UInv
<1>3. kept \in [Device -> {NoBuffer} \cup Full]
  BY <1>2 DEF UInv, Shape, AfterFetch
<1>4. kept[d] \in Full /\ Agree(kept[d])
  <2>1. CASE len # 0 BY <1>2, <2>1 DEF UInv, Shape, AfterFetch
  <2>2. CASE len = 0
    <3>1. buf[d] # NoBuffer BY <2>2 DEF ResizePreserve
    <3>2. QED BY <2>2, <3>1 DEF UInv, Shape, Agree
  <2>3. QED BY <2>1, <2>2
<1>5. kept[d] # NoBuffer BY <1>4, BufferIsThere DEF UInv, Shape, Full
<1>6. 1 .. len \subseteq DOMAIN kept[d] BY <1>4 DEF UInv, Shape, Full
<1>7. /\ Exclusive /\ Calm
      /\ len' = n /\ valid' = {d} /\ written' = Resized(n)
      /\ IF capacity < n
         THEN /\ capacity' = Heuristic(n)
              /\ buf' = OnlyOn(d, [i \in 1 .. capacity' |->
                                     IF i <= len THEN kept[d][i] ELSE Junk])
         ELSE buf' = kept /\ UNCHANGED capacity
  BY <1>2, <1>5, <1>6 DEF ResizePreserve
<1>8. written' \in [1 .. n -> Elem]
  BY <1>1, <1>7 DEF Resized, UInv, Shape
<1>9. \A i \in 1 .. n : written'[i] # Junk => i \in 1 .. len /\ written'[i] = written[i]
  BY <1>1, <1>7 DEF Resized
<1> HIDE DEF kept
<1>10. Shape' /\ Content'
  <2>1. CASE capacity < n
    <3> DEFINE b == [i \in 1 .. capacity' |-> IF i <= len THEN kept[d][i] ELSE Junk]
    <3>1. capacity' \in Nat /\ n <= capacity' /\ capacity' <= Heuristic(MaxLen)
      BY <1>1, <1>7, <2>1, HeuristicGrows, HeuristicMonotone
    <3>2. capacity \in Nat /\ capacity < capacity' BY <1>1, <2>1, <3>1 DEF UInv, Shape
    <3>3. b \in Full'
      BY <1>1, <1>4, <3>1, <3>2 DEF UInv, Shape, Full
    <3>4. \A i \in 1 .. n : written'[i] # Junk => b[i] = written'[i]
      BY <1>1, <1>4, <1>9, <3>1 DEF Agree
    <3>5. buf' = OnlyOn(d, b) BY <1>7, <2>1
    <3> HIDE DEF b
    <3>6. QED BY <1>1, <1>7, <1>8, <3>1, <3>3, <3>4, <3>5, OneBuffer
  <2>2. CASE ~(capacity < n)
    <3>1. n <= capacity BY <1>1, <2>2 DEF UInv, Shape
    <3>2. buf' = kept /\ capacity' = capacity BY <1>7, <2>2
    <3>3. Shape' BY <1>1, <1>3, <1>7, <1>8, <3>1, <3>2 DEF UInv, Shape, Full
    <3>4. Content' BY <1>4, <1>5, <1>7, <1>9, <3>2 DEF Content, Sound, Agree
    <3>5. QED BY <3>3, <3>4
  <2>3. QED BY <2>1, <2>2
<1>11. QED BY <1>7, <1>10, NobodyReads DEF UInv

LEMMA Cloned ==
  ASSUME UInv, Clone
  PROVE  UInv'
<1>1. \A d \in valid : Holds(d, len) BY RoomForContent DEF UInv, Content, Sound, Shape
<1>2. /\ Exclusive /\ Calm
      /\ buf' = [d \in Device |->
                   IF d \notin valid THEN NoBuffer
                   ELSE IF d = CPU THEN buf[d]
                   ELSE [i \in DOMAIN buf[d] |-> IF i <= len THEN buf[d][i] ELSE Junk]]
      /\ UNCHANGED <<valid, len, capacity, written>>
  BY <1>1 DEF Clone
<1>3. ASSUME NEW d \in valid
      PROVE  buf'[d] \in Full /\ Agree(buf'[d])
  <2>1. d \in Device /\ buf[d] \in Full /\ Agree(buf[d])
    BY DEF UInv, Shape, Content, Sound
  <2>2. CASE d = CPU BY <1>2, <2>1, <2>2
  <2>3. CASE d # CPU
    BY <1>2, <2>1, <2>3, Devices DEF UInv, Shape, Full, Agree
  <2>4. QED BY <2>2, <2>3
<1>4. \A d \in valid : buf'[d] # NoBuffer BY <1>3, BufferIsThere DEF UInv, Shape, Full
<1>5. Shape' BY <1>2, <1>3 DEF UInv, Shape, Full
<1>6. Content'
  <2>1. capacity' > 0 => valid' # {} BY <1>2 DEF UInv, Content
  <2>2. ASSUME NEW d \in valid' PROVE Sound(d)'
    <3>1. d \in valid BY <1>2
    <3>2. buf'[d] # NoBuffer /\ Agree(buf'[d]) BY <1>3, <1>4, <3>1
    <3>3. QED BY <1>2, <3>2 DEF Sound, Agree
  <2>3. QED BY <2>1, <2>2 DEF Content
<1>7. QED BY <1>2, <1>5, <1>6, NobodyReads DEF UInv

(* Out to a Vec and back: with len = capacity nothing is lost or gained.   *)
LEMMA ThroughAVec ==
  ASSUME Careful, UInv, ThroughVec
  PROVE  UInv'
<1> DEFINE size == CHOOSE k \in 0 .. capacity : DOMAIN Fetched(CPU) = 1 .. k
<1>1. Fetchable(CPU) /\ Fetched(CPU) \in Full /\ Agree(Fetched(CPU))
  BY FetchIsSound, Devices DEF UInv
<1>2. Fetched(CPU) # NoBuffer BY <1>1, BufferIsThere DEF UInv, Shape, Full
<1>3. len = capacity /\ capacity \in Nat BY DEF ThroughVec, UInv, Shape
<1>4. DOMAIN Fetched(CPU) = 1 .. capacity /\ capacity \in 0 .. capacity
  BY <1>1, <1>3 DEF Full
<1>5. size \in 0 .. capacity /\ DOMAIN Fetched(CPU) = 1 .. size BY <1>4
<1>6. /\ Exclusive /\ Calm
      /\ buf' = OnlyOn(CPU, Fetched(CPU)) /\ valid' = {CPU}
      /\ len' = size /\ capacity' = size /\ written' = Resized(size)
  BY <1>1, <1>2 DEF ThroughVec
<1> HIDE DEF size
<1>7. size = capacity BY <1>3, <1>4, <1>5, SameInterval
<1>8. Fetched(CPU) \in Full' BY <1>1, <1>6, <1>7 DEF Full
<1>9. written' \in [1 .. len' -> Elem]
  BY <1>3, <1>6, <1>7 DEF Resized, UInv, Shape
<1>10. \A i \in 1 .. len' : written'[i] # Junk => Fetched(CPU)[i] = written'[i]
  BY <1>1, <1>3, <1>6, <1>7 DEF Resized, Agree
<1>11. capacity' \in Nat /\ capacity' <= Heuristic(MaxLen) /\ len' \in 0 .. capacity'
  BY <1>3, <1>6, <1>7 DEF UInv, Shape
<1>12. Shape' /\ Content'
  BY <1>6, <1>8, <1>9, <1>10, <1>11, OneBuffer, Devices
<1>13. QED BY <1>6, <1>12, NobodyReads DEF UInv

----------------------------------------------------------------------------
(* The owner's calls together.                                             *)
LEMMA Owned ==
  ASSUME Careful, UInv, Own
  PROVE  UInv'
<1>1. ASSUME NEW d \in Device, NEW changed \in SUBSET (1 .. len), NEW value \in Value,
             Write(d, changed, value)
      PROVE  UInv'
  BY <1>1, Written
<1>2. ASSUME NEW n \in 0 .. MaxLen, SetLen(n)
      PROVE  UInv'
  BY <1>2, Relabelled DEF SetLen
<1>3. ASSUME NEW n \in 1 .. MaxLen, NEW d \in Device, len + n <= MaxLen, Reserve(n, d)
      PROVE  UInv'
  BY <1>3, Reserved
<1>4. ASSUME NEW n \in 0 .. MaxLen, NEW d \in Device,
             ResizeNoPreserve(n, d) \/ ResizePreserve(n, d)
      PROVE  UInv'
  BY <1>4, ResizedWithout, ResizedWith
<1>5. CASE Clone BY <1>5, Cloned
<1>6. CASE ThroughVec BY <1>6, ThroughAVec
<1>7. QED BY <1>1, <1>2, <1>3, <1>4, <1>5, <1>6 DEF Own

----------------------------------------------------------------------------
(* Readers.  A step of one that leaves the data alone.                     *)
LEMMA DataKept ==
  ASSUME UNCHANGED data, Shape, Content
  PROVE  Shape' /\ Content'
BY DEF data, Shape, Content, Sound, Agree, Full

LEMMA Asked ==
  ASSUME UInv, NEW t \in Thread, NEW d \in Device, Ask(t, d)
  PROVE  UInv'
<1>1. d \in valid => Holds(d, len) BY RoomForContent DEF UInv, Content, Sound
<1>2. /\ pc[t] = "idle" /\ UNCHANGED <<data, lock, panicked>>
      /\ want' = [want EXCEPT ![t] = d]
      /\ pc' = [pc EXCEPT ![t] = IF d \in valid THEN "holding" ELSE "waiting"]
  BY <1>1 DEF Ask, Goto
<1>3. Shape' /\ Content' BY <1>2, DataKept DEF UInv
<1>4. Readers' BY <1>2 DEF UInv, Readers, Locked, Position
<1>5. Copiers' BY <1>2 DEF UInv, Readers, Copiers, Sound, Agree, data
<1>6. QED BY <1>3, <1>4, <1>5 DEF UInv

LEMMA LockTaken ==
  ASSUME UInv, NEW t \in Thread, Lock(t)
  PROVE  UInv'
<1>1. /\ pc[t] = "waiting" /\ lock[want[t]] = Nobody
      /\ lock' = [lock EXCEPT ![want[t]] = t]
      /\ pc' = [pc EXCEPT ![t] = "locked"]
      /\ UNCHANGED <<data, want, panicked>>
  BY DEF Lock, Goto
<1>2. Shape' /\ Content' BY <1>1, DataKept DEF UInv
<1>3. ASSUME NEW u \in Thread, pc'[u] \in Locked
      PROVE  lock'[want'[u]] = u
  <2>1. CASE u = t BY <1>1, <2>1 DEF UInv, Readers
  <2>2. CASE u # t
    <3>1. lock[want[u]] = u BY <1>1, <1>3, <2>2 DEF UInv, Readers
    <3>2. lock[want[u]] # Nobody BY <3>1, UVecAssumption
    <3>3. QED BY <1>1, <3>1, <3>2 DEF UInv, Readers
  <2>3. QED BY <2>1, <2>2
<1>4. Readers' BY <1>1, <1>3 DEF UInv, Readers, Position
<1>5. Copiers' BY <1>1 DEF UInv, Readers, Copiers, Sound, Agree, data
<1>6. QED BY <1>2, <1>4, <1>5 DEF UInv

(* Two readers under a lock want different devices.                        *)
LEMMA OneReaderPerLock ==
  ASSUME Readers, NEW t \in Thread, NEW u \in Thread, pc[t] \in Locked, pc[u] \in Locked,
         want[t] = want[u]
  PROVE  t = u
BY DEF Readers

LEMMA Prepared ==
  ASSUME UInv, NEW t \in Thread, Prepare(t)
  PROVE  UInv'
<1> DEFINE d == want[t]
<1>1. d \in Device BY DEF UInv, Readers
<1>2. Fetchable(d) BY <1>1, FetchIsSound DEF UInv
<1>3. /\ pc[t] = "locked"
      /\ buf' = IF d \in valid THEN buf ELSE [buf EXCEPT ![d] = Allocated(d)]
      /\ pc' = [pc EXCEPT ![t] = IF d \in valid \/ capacity = 0 THEN "unlocking" ELSE "copying"]
      /\ UNCHANGED <<valid, len, capacity, written, lock, want, panicked>>
  BY <1>2 DEF Prepare, Goto
<1>4. Allocated(d) \in Full
  BY <1>1, Devices DEF UInv, Shape, Allocated, Blank, Full
<1>5. Allocated(d) # NoBuffer BY <1>4, BufferIsThere DEF UInv, Shape, Full
<1>6. \A e \in Device : buf[e] # NoBuffer => buf'[e] = buf[e]
  BY <1>1, <1>3 DEF UInv, Shape, Allocated
<1>7. d \notin valid => buf'[d] # NoBuffer BY <1>1, <1>3, <1>5 DEF UInv, Shape
<1> HIDE DEF d
<1>8. Shape' BY <1>1, <1>3, <1>4 DEF UInv, Shape, Full
<1>9. \A e \in Device : Sound(e) => Sound(e)' BY <1>3, <1>6 DEF Sound, Agree
<1>10. Content' BY <1>3, <1>9 DEF UInv, Shape, Content
<1>11. Readers' BY <1>3 DEF UInv, Readers, Locked, Position, d
<1>12. Copiers'
  <2>1. ASSUME NEW u \in Thread, pc'[u] = "copying"
        PROVE  capacity' > 0 /\ want'[u] \notin valid' /\ buf'[want'[u]] # NoBuffer
    <3>1. CASE u = t
      BY <1>3, <1>7, <2>1, <3>1 DEF UInv, Shape, Readers, d
    <3>2. CASE u # t
      <4>1. pc[u] = "copying" BY <1>3, <2>1, <3>2 DEF UInv, Readers
      <4>2. QED BY <1>3, <1>6, <4>1 DEF UInv, Copiers, Readers
    <3>3. QED BY <3>1, <3>2
  <2>2. ASSUME NEW u \in Thread, pc'[u] = "copied"
        PROVE  Sound(want[u])'
    <3>1. pc[u] = "copied" BY <1>3, <2>2 DEF UInv, Readers
    <3>2. want[u] \in Device /\ Sound(want[u]) BY <3>1 DEF UInv, Copiers, Readers
    <3>3. QED BY <1>3, <1>6, <3>2 DEF Sound, Agree
  <2>3. QED BY <2>1, <2>2 DEF Copiers
<1>13. QED BY <1>8, <1>10, <1>11, <1>12 DEF UInv

LEMMA CopyMade ==
  ASSUME UInv, NEW t \in Thread, Copy(t)
  PROVE  UInv'
<1> DEFINE d == want[t]
           b == Copied(buf[d], buf[FirstValid])
<1>1. /\ pc[t] = "copying" /\ buf' = [buf EXCEPT ![d] = b]
      /\ pc' = [pc EXCEPT ![t] = "copied"]
      /\ UNCHANGED <<valid, len, capacity, written, lock, want, panicked>>
  BY DEF Copy, Goto
<1>2. d \in Device /\ capacity > 0 /\ d \notin valid /\ buf[d] \in Full
  BY <1>1 DEF UInv, Readers, Copiers, Shape
<1>3. valid # {} /\ FirstValid \in valid BY <1>2, FirstIsValid DEF UInv, Shape, Content
<1>4. buf[FirstValid] \in Full /\ Agree(buf[FirstValid])
  BY <1>3 DEF UInv, Shape, Content, Sound
<1>5. b \in Full BY <1>2, <1>4 DEF Copied, Full, UInv, Shape
<1>6. b # NoBuffer BY <1>5, BufferIsThere DEF UInv, Shape, Full
<1>7. Agree(b) BY <1>2, <1>4 DEF Copied, Full, Agree, UInv, Shape
<1> HIDE DEF b, d
<1>8. buf'[d] = b /\ \A e \in Device : e # d => buf'[e] = buf[e]
  BY <1>1, <1>2 DEF UInv, Shape
<1>9. Shape' BY <1>1, <1>2, <1>5 DEF UInv, Shape, Full
<1>10. Content' BY <1>1, <1>2, <1>8 DEF UInv, Shape, Content, Sound, Agree
<1>11. Readers' BY <1>1 DEF UInv, Readers, Locked, Position
<1>12. Copiers'
  <2>1. ASSUME NEW u \in Thread, u # t, pc[u] \in Locked
        PROVE  want[u] # d
    BY <1>1, <2>1, OneReaderPerLock DEF UInv, Locked, d
  <2>2. ASSUME NEW u \in Thread, pc'[u] = "copying"
        PROVE  capacity' > 0 /\ want'[u] \notin valid' /\ buf'[want'[u]] # NoBuffer
    <3>1. u # t /\ pc[u] = "copying" BY <1>1, <2>2 DEF UInv, Readers
    <3>2. want[u] \in Device /\ want[u] # d BY <2>1, <3>1 DEF UInv, Readers, Locked
    <3>3. QED BY <1>1, <1>8, <3>1, <3>2 DEF UInv, Copiers
  <2>3. ASSUME NEW u \in Thread, pc'[u] = "copied"
        PROVE  Sound(want[u])'
    <3>1. CASE u = t BY <1>1, <1>6, <1>7, <1>8, <3>1 DEF Sound, Agree, d
    <3>2. CASE u # t
      <4>1. pc[u] = "copied" BY <1>1, <2>3, <3>2 DEF UInv, Readers
      <4>2. want[u] \in Device /\ want[u] # d BY <2>1, <3>2, <4>1 DEF UInv, Readers, Locked
      <4>3. QED BY <1>1, <1>8, <4>1, <4>2 DEF UInv, Copiers, Sound, Agree
    <3>3. QED BY <3>1, <3>2
  <2>4. QED BY <2>2, <2>3 DEF Copiers
<1>13. QED BY <1>9, <1>10, <1>11, <1>12 DEF UInv

LEMMA Published ==
  ASSUME UInv, NEW t \in Thread, Publish(t)
  PROVE  UInv'
<1>1. /\ pc[t] = "copied" /\ valid' = valid \cup {want[t]}
      /\ pc' = [pc EXCEPT ![t] = "unlocking"]
      /\ UNCHANGED <<buf, len, capacity, written, lock, want, panicked>>
  BY DEF Publish, Goto
<1>2. want[t] \in Device /\ Sound(want[t]) BY <1>1 DEF UInv, Readers, Copiers
<1>3. \A e \in Device : Sound(e)' <=> Sound(e) BY <1>1 DEF Sound, Agree
<1>4. Shape' BY <1>1, <1>2 DEF UInv, Shape, Full
<1>5. Content' BY <1>1, <1>2, <1>3 DEF UInv, Shape, Content
<1>6. Readers' BY <1>1 DEF UInv, Readers, Locked, Position
<1>7. ASSUME NEW u \in Thread, pc'[u] = "copying"
      PROVE  capacity' > 0 /\ want'[u] \notin valid' /\ buf'[want'[u]] # NoBuffer
  <2>1. u # t /\ pc[u] = "copying" BY <1>1, <1>7 DEF UInv, Readers
  <2>2. want[u] # want[t] BY <1>1, <2>1, OneReaderPerLock DEF UInv, Locked
  <2>3. QED BY <1>1, <2>1, <2>2 DEF UInv, Copiers
<1>8. ASSUME NEW u \in Thread, pc'[u] = "copied"
      PROVE  Sound(want[u])'
  BY <1>1, <1>8 DEF UInv, Readers, Copiers, Sound, Agree
<1>9. QED BY <1>4, <1>5, <1>6, <1>7, <1>8 DEF UInv, Copiers

LEMMA Unlocked ==
  ASSUME UInv, NEW t \in Thread, Unlock(t)
  PROVE  UInv'
<1>1. /\ pc[t] = "unlocking" /\ lock' = [lock EXCEPT ![want[t]] = Nobody]
      /\ pc' = [pc EXCEPT ![t] = "holding"]
      /\ UNCHANGED <<data, want, panicked>>
  BY DEF Unlock, Goto
<1>2. Shape' /\ Content' BY <1>1, DataKept DEF UInv
<1>3. ASSUME NEW u \in Thread, pc'[u] \in Locked
      PROVE  lock'[want'[u]] = u
  <2>1. u # t /\ pc[u] \in Locked BY <1>1, <1>3 DEF UInv, Readers, Locked
  <2>2. want[u] # want[t] BY <1>1, <2>1, OneReaderPerLock DEF UInv, Locked
  <2>3. QED BY <1>1, <2>1, <2>2 DEF UInv, Readers
<1>4. Readers' BY <1>1, <1>3 DEF UInv, Readers, Position
<1>5. Copiers' BY <1>1 DEF UInv, Readers, Copiers, Sound, Agree, data
<1>6. QED BY <1>2, <1>4, <1>5 DEF UInv

LEMMA Dropped ==
  ASSUME UInv, NEW t \in Thread, Drop(t)
  PROVE  UInv'
<1>1. /\ pc' = [pc EXCEPT ![t] = "idle"]
      /\ UNCHANGED <<data, lock, want, panicked>>
  BY DEF Drop, Goto
<1>2. Shape' /\ Content' BY <1>1, DataKept DEF UInv
<1>3. Readers' BY <1>1 DEF UInv, Readers, Locked, Position
<1>4. Copiers' BY <1>1 DEF UInv, Readers, Copiers, Sound, Agree, data
<1>5. QED BY <1>2, <1>3, <1>4 DEF UInv

----------------------------------------------------------------------------
LEMMA InitiallySound == Init => UInv
<1>1. SUFFICES ASSUME Init PROVE UInv OBVIOUS
<1>2. Heuristic(MaxLen) \in Nat BY UVecAssumption, HeuristicGrows
<1>3. Shape BY <1>1, <1>2 DEF Init, Shape, Full, Blank
<1>4. Content BY <1>1 DEF Init, Content
<1>5. Readers /\ Copiers BY <1>1, Devices DEF Init, Readers, Copiers, Locked, Position
<1>6. QED BY <1>3, <1>4, <1>5 DEF UInv

LEMMA UInvIsKept ==
  ASSUME Careful, UInv, [Next]_vars
  PROVE  UInv'
<1>1. CASE Construct BY <1>1, Constructed
<1>2. CASE Own BY <1>2, Owned
<1>3. CASE Share
  <2>1. ASSUME NEW t \in Thread, NEW d \in Device, Ask(t, d)
        PROVE  UInv'
    BY <2>1, Asked
  <2>2. ASSUME NEW t \in Thread, Read(t)
        PROVE  UInv'
    BY <2>2, LockTaken, Prepared, CopyMade, Published, Unlocked DEF Read
  <2>3. ASSUME NEW t \in Thread, Drop(t)
        PROVE  UInv'
    BY <2>3, Dropped
  <2>4. QED BY <1>3, <2>1, <2>2, <2>3 DEF Share
<1>4. CASE UNCHANGED vars
  <2>1. Shape' /\ Content' BY <1>4, DataKept DEF UInv, vars, data
  <2>2. Readers' /\ Copiers' BY <1>4 DEF vars, UInv, Readers, Copiers, Sound, Agree
  <2>3. QED BY <2>1, <2>2 DEF UInv
<1>5. QED BY <1>1, <1>2, <1>3, <1>4 DEF Next

LEMMA AlwaysSound ==
  ASSUME Careful
  PROVE  Spec => []UInv
<1>1. Init => UInv BY InitiallySound
<1>2. UInv /\ [Next]_vars => UInv' BY UInvIsKept
<1>3. QED BY <1>1, <1>2, PTL DEF Spec

(* The fields of the vector and the positions of its readers keep their    *)
(* types; in particular all buffers have capacity elements, and no length  *)
(* and no capacity outgrows the heuristic.                                 *)
THEOREM TypeCorrect ==
  ASSUME Careful
  PROVE  Spec => []TypeOK
<1>1. UInv => TypeOK
  <2>1. SUFFICES ASSUME UInv PROVE TypeOK OBVIOUS
  <2>2. Heuristic(MaxLen) \in Nat BY UVecAssumption, HeuristicGrows
  <2>3. ASSUME NEW n \in 0 .. Heuristic(MaxLen) PROVE [1 .. n -> Elem] \subseteq Buffer
    BY DEF Buffer
  <2>4. len \in 0 .. Heuristic(MaxLen) /\ capacity \in 0 .. Heuristic(MaxLen)
    BY <2>1, <2>2 DEF UInv, Shape
  <2>5. written \in Buffer /\ buf \in [Device -> {NoBuffer} \cup [1 .. capacity -> Elem]]
    BY <2>1, <2>3, <2>4 DEF UInv, Shape, Full
  <2>6. QED BY <2>1, <2>4, <2>5 DEF TypeOK, UInv, Shape, Readers, Position
<1>2. QED BY <1>1, AlwaysSound, PTL

(* Whatever the owner and the readers do, every device marked valid has    *)
(* everything that was written.                                            *)
THEOREM CoherentAlways ==
  ASSUME Careful
  PROVE  Spec => []Coherent
<1>1. UInv => Coherent
  BY RoomForContent DEF UInv, Coherent, Shape, Content, Sound, Agree, HasContent
<1>2. QED BY <1>1, AlwaysSound, PTL

(* No unwrap, expect or slice bound of uvec.rs fails.                      *)
THEOREM NeverPanics ==
  ASSUME Careful
  PROVE  Spec => []NoPanic
<1>1. UInv => NoPanic BY DEF UInv, Readers, NoPanic
<1>2. QED BY <1>1, AlwaysSound, PTL

----------------------------------------------------------------------------
(***************************************************************************)
(* UVec implements UVector: the buffers, flags and locks add up to one     *)
(* vector, for any number of devices and threads.                          *)
(*                                                                         *)
(* What UInv does not say is that a reader's slice stays put.  A reader    *)
(* that has its slice reads a device that is valid (Held), and nobody      *)
(* copies to a valid device; only an empty vector is read without being    *)
(* valid, and its slice is empty whatever happens to the buffer.           *)
(***************************************************************************)

Held ==
  \A t \in Thread : pc[t] \in {"unlocking", "holding"} => want[t] \in valid \/ capacity = 0

Slices == [t \in Thread |-> IF pc[t] = "holding" THEN Slice(want[t]) ELSE NoBuffer]

----------------------------------------------------------------------------
(* A step of the owner that does not panic finds nobody reading.           *)
LEMMA OwnerIsAlone ==
  ASSUME Construct \/ Own, ~panicked'
  PROVE  Exclusive /\ Calm
<1>1. CASE Construct
  BY <1>1 DEF Construct, NewZeroed, NewUninitialized, FromBox
<1>2. CASE Own
  <2>1. ~Panic BY DEF Panic
  <2>2. ASSUME NEW d \in Device, NEW changed \in SUBSET (1 .. len), NEW value \in Value,
               Write(d, changed, value)
        PROVE  Exclusive /\ Calm
    BY <2>1, <2>2 DEF Write
  <2>3. ASSUME NEW n \in 0 .. MaxLen, SetLen(n) PROVE Exclusive /\ Calm
    BY <2>3 DEF SetLen
  <2>4. ASSUME NEW n \in 1 .. MaxLen, NEW d \in Device, Reserve(n, d)
        PROVE  Exclusive /\ Calm
    BY <2>1, <2>4 DEF Reserve
  <2>5. ASSUME NEW n \in 0 .. MaxLen, NEW d \in Device,
               ResizeNoPreserve(n, d) \/ ResizePreserve(n, d)
        PROVE  Exclusive /\ Calm
    BY <2>1, <2>5 DEF ResizeNoPreserve, ResizePreserve
  <2>6. CASE Clone BY <2>1, <2>6 DEF Clone
  <2>7. CASE ThroughVec BY <2>1, <2>7 DEF ThroughVec
  <2>8. QED BY <1>2, <2>2, <2>3, <2>4, <2>5, <2>6, <2>7 DEF Own
<1>3. QED BY <1>1, <1>2

(* Readers only ever add valid devices, and get past the lock only when    *)
(* their own is one.                                                       *)
LEMMA HeldIsKept ==
  ASSUME UInv, UInv', Held, [Next]_vars
  PROVE  Held'
<1>1. ~panicked' /\ pc \in [Thread -> Position] /\ want \in [Thread -> Device]
  BY DEF UInv, Readers
<1>2. CASE Construct \/ Own
  BY <1>1, <1>2, OwnerIsAlone DEF Exclusive, Calm, Held
<1>3. ASSUME NEW t \in Thread, NEW d \in Device, Ask(t, d) PROVE Held'
  BY <1>1, <1>3 DEF Ask, Panic, Goto, data, Held
<1>4. ASSUME NEW t \in Thread, Lock(t) \/ Prepare(t) PROVE Held'
  BY <1>1, <1>4 DEF Lock, Prepare, Panic, Goto, data, Held
<1>5. ASSUME NEW t \in Thread, Copy(t) \/ Publish(t) PROVE Held'
  BY <1>1, <1>5 DEF Copy, Publish, Goto, Held
<1>6. ASSUME NEW t \in Thread, Unlock(t) \/ Drop(t) PROVE Held'
  BY <1>1, <1>6 DEF Unlock, Drop, Goto, data, Held
<1>7. CASE UNCHANGED vars BY <1>7 DEF vars, Held
<1>8. QED BY <1>2, <1>3, <1>4, <1>5, <1>6, <1>7 DEF Next, Share, Read

----------------------------------------------------------------------------
(* What is handed out on a valid device is what was written.               *)
LEMMA SliceAgrees ==
  ASSUME UInv, NEW d \in Device, d \in valid \/ capacity = 0
  PROVE  Slice(d) # NoBuffer /\ Vector!Agrees(Slice(d), written)
<1>1. len \in Nat /\ len <= capacity /\ capacity <= Heuristic(MaxLen) /\ capacity \in Nat
  BY DEF UInv, Shape
<1>2. Heuristic(MaxLen) \in Nat BY UVecAssumption, HeuristicGrows
<1>3. \A i \in 1 .. len : buf[d][i] \in Elem /\ (written[i] # Junk => buf[d][i] = written[i])
  <2>1. CASE d \in valid
    <3>1. Sound(d) /\ buf[d] \in Full BY <2>1 DEF UInv, Content, Shape, Sound
    <3>2. QED BY <1>1, <3>1 DEF Sound, Agree, Full
  <2>2. CASE capacity = 0 BY <1>1, <2>2
  <2>3. QED BY <2>1, <2>2
<1>4. Slice(d) \in [1 .. len -> Elem] BY <1>3 DEF Slice
<1>5. Slice(d) # NoBuffer BY <1>1, <1>2, <1>4, BufferIsThere
<1>6. DOMAIN written = 1 .. len BY DEF UInv, Shape
<1>7. QED BY <1>3, <1>5, <1>6 DEF Vector!Agrees, Slice

(* A step that hands out nothing and leaves every valid buffer alone is    *)
(* invisible.                                                              *)
LEMMA Unseen ==
  ASSUME UInv, Held, NEW t \in Thread, pc[t] # "holding",
         NEW l \in Position \ {"holding"}, Goto(t, l),
         \A u \in Thread \ {t} : want'[u] = want[u],
         UNCHANGED <<len, capacity, written>>,
         \A d \in valid : capacity > 0 => buf'[d] = buf[d]
  PROVE  UNCHANGED <<written, Slices>>
<1>1. pc \in [Thread -> Position] BY DEF UInv, Readers
<1>2. ASSUME NEW u \in Thread, pc[u] = "holding" PROVE Slice(want[u])' = Slice(want[u])
  <2>1. u # t BY <1>2
  <2>2. want'[u] = want[u] BY <2>1
  <2>3. CASE capacity = 0
    <3>1. len = 0 /\ len' = 0 BY <2>3 DEF UInv, Shape
    <3>2. QED BY <3>1 DEF Slice
  <2>4. CASE capacity # 0
    <3>1. capacity > 0 /\ want[u] \in valid BY <1>2, <2>4 DEF UInv, Shape, Held
    <3>2. QED BY <2>2, <3>1 DEF Slice
  <2>5. QED BY <2>3, <2>4
<1>3. \A u \in Thread : pc'[u] = "holding" <=> pc[u] = "holding" BY <1>1 DEF Goto
<1>4. QED BY <1>2, <1>3 DEF Slices

(* A step that hands out the slice of a valid device obtains it.           *)
LEMMA HandedOut ==
  ASSUME UInv, NEW t \in Thread, pc[t] # "holding", Goto(t, "holding"),
         \A u \in Thread \ {t} : want'[u] = want[u],
         want'[t] \in Device, want'[t] \in valid \/ capacity = 0,
         UNCHANGED data
  PROVE  Vector!Obtain(t)
<1>1. pc \in [Thread -> Position] BY DEF UInv, Readers
<1>2. pc'[t] = "holding" /\ \A u \in Thread \ {t} : pc'[u] = pc[u] BY <1>1 DEF Goto
<1>3. UNCHANGED <<buf, len, written>> BY DEF data
<1>4. Slices'[t] = Slice(want'[t]) BY <1>2, <1>3 DEF Slices, Slice
<1>5. \A u \in Thread \ {t} : Slices'[u] = Slices[u] BY <1>2, <1>3 DEF Slices, Slice
<1>6. Slices[t] = NoBuffer BY DEF Slices
<1>7. Slice(want'[t]) # NoBuffer /\ Vector!Agrees(Slice(want'[t]), written)
  BY SliceAgrees
<1>8. QED BY <1>3, <1>4, <1>5, <1>6, <1>7 DEF Vector!Obtain, Slices

----------------------------------------------------------------------------
LEMMA InitRefines == Init => Vector!Init
<1> SUFFICES ASSUME Init PROVE Vector!Init
  OBVIOUS
<1>1. written = [i \in {} |-> Junk]
  <2>1. 1 .. 0 = {} OBVIOUS
  <2>2. QED BY <2>1 DEF Init, Blank
<1>2. \A t \in Thread : pc[t] # "holding" BY DEF Init
<1>3. QED BY <1>1, <1>2 DEF Vector!Init

LEMMA NextRefines ==
  ASSUME UInv, UInv', Held, [Next]_vars
  PROVE  [Vector!Next]_<<written, Slices>>
<1>1. /\ ~panicked' /\ pc \in [Thread -> Position] /\ want \in [Thread -> Device]
      /\ want' \in [Thread -> Device]
  BY DEF UInv, Readers
<1>2. CASE Construct \/ Own
  <2>1. \A t \in Thread : pc[t] = "idle" /\ pc'[t] = "idle"
    BY <1>1, <1>2, OwnerIsAlone DEF Exclusive, Calm
  <2>2. \A i \in DOMAIN written' : written'[i] \in Elem BY DEF UInv, Shape
  <2>3. Vector!Mutate BY <2>1, <2>2 DEF Vector!Mutate
  <2>4. QED BY <2>3 DEF Vector!Next
<1>3. ASSUME NEW t \in Thread, NEW d \in Device, Ask(t, d)
      PROVE  Vector!Next \/ UNCHANGED <<written, Slices>>
  <2>1. /\ pc[t] = "idle" /\ want' = [want EXCEPT ![t] = d] /\ UNCHANGED data
        /\ Goto(t, IF d \in valid THEN "holding" ELSE "waiting")
    BY <1>1, <1>3 DEF Ask, Panic
  <2>2. want'[t] = d /\ \A u \in Thread \ {t} : want'[u] = want[u] BY <1>1, <2>1
  <2>3. CASE d \in valid
    <3>1. Vector!Obtain(t) BY <2>1, <2>2, <2>3, HandedOut
    <3>2. QED BY <3>1 DEF Vector!Next
  <2>4. CASE d \notin valid
    <3>1. "waiting" \in Position \ {"holding"} BY DEF Position
    <3>2. QED BY <2>1, <2>2, <2>4, <3>1, Unseen DEF data
  <2>5. QED BY <2>3, <2>4
<1>4. ASSUME NEW t \in Thread, Lock(t) \/ Publish(t) PROVE UNCHANGED <<written, Slices>>
  <2>1. PICK l \in {"locked", "unlocking"} : Goto(t, l) BY <1>4 DEF Lock, Publish
  <2>2. l \in Position \ {"holding"} BY <2>1 DEF Position
  <2>3. /\ pc[t] # "holding" /\ want' = want /\ buf' = buf
        /\ UNCHANGED <<len, capacity, written>>
    BY <1>4 DEF Lock, Publish, data
  <2>4. QED BY <2>1, <2>2, <2>3, Unseen
<1>5. ASSUME NEW t \in Thread, Prepare(t) PROVE UNCHANGED <<written, Slices>>
  <2>1. /\ pc[t] = "locked" /\ want' = want /\ UNCHANGED <<len, capacity, written>>
        /\ \A d \in valid : buf'[d] = buf[d]
    BY <1>1, <1>5 DEF Prepare, Panic, data, UInv, Shape
  <2>2. PICK l \in {"copying", "unlocking"} : Goto(t, l)
    BY <1>1, <1>5 DEF Prepare, Panic
  <2>3. l \in Position \ {"holding"} BY <2>2 DEF Position
  <2>4. QED BY <2>1, <2>2, <2>3, Unseen
<1>6. ASSUME NEW t \in Thread, Copy(t) PROVE UNCHANGED <<written, Slices>>
  <2>1. /\ pc[t] = "copying" /\ want' = want /\ UNCHANGED <<len, capacity, written>>
        /\ Goto(t, "copied")
    BY <1>6 DEF Copy
  <2>2. want[t] \notin valid BY <2>1 DEF UInv, Copiers
  <2>3. \A d \in valid : buf'[d] = buf[d] BY <1>6, <2>2 DEF Copy, UInv, Shape
  <2>4. "copied" \in Position \ {"holding"} BY DEF Position
  <2>5. QED BY <2>1, <2>3, <2>4, Unseen
<1>7. ASSUME NEW t \in Thread, Unlock(t) PROVE Vector!Obtain(t)
  <2>1. pc[t] = "unlocking" /\ Goto(t, "holding") /\ UNCHANGED data /\ want' = want
    BY <1>7 DEF Unlock
  <2>2. want[t] \in valid \/ capacity = 0 BY <2>1 DEF Held
  <2>3. QED BY <1>1, <2>1, <2>2, HandedOut
<1>8. ASSUME NEW t \in Thread, Drop(t) PROVE Vector!Release(t)
  <2>1. /\ pc' = [pc EXCEPT ![t] = "idle"] /\ UNCHANGED data /\ want' = want
    BY <1>8 DEF Drop, Goto
  <2>2. UNCHANGED <<buf, len, written>> BY <2>1 DEF data
  <2>3. Slices' = [Slices EXCEPT ![t] = NoBuffer] BY <1>1, <2>1, <2>2 DEF Slices, Slice
  <2>4. QED BY <2>2, <2>3 DEF Vector!Release, Slices
<1>9. CASE UNCHANGED vars
  BY <1>9 DEF vars, Slices, Slice
<1>10. QED
  BY <1>2, <1>3, <1>4, <1>5, <1>6, <1>7, <1>8, <1>9 DEF Next, Share, Read, Vector!Next

(* Readers on all devices see what was written, and a slice does not       *)
(* change while it is held.                                                *)
THEOREM ImplementsOneVector ==
  ASSUME Careful
  PROVE  Spec => ImplementsVector
<1>1. Init => Held BY DEF Init, Held
<1>2. UInv /\ UInv' /\ Held /\ [Next]_vars => Held' BY HeldIsKept
<1>3. UInv /\ UInv' /\ Held /\ [Next]_vars => [Vector!Next]_Vector!vars
  BY NextRefines DEF Vector!vars, Slices
<1>4. QED
  BY <1>1, <1>2, <1>3, InitRefines, AlwaysSound, PTL
  DEF Spec, ImplementsVector, Vector!Spec
============================================================================
